----------------------------- MODULE Gnss_proofs -----------------------------
(***************************************************************************)
(* The receiver's data: what the main loop parses is what it has checked,  *)
(* whatever the serial interrupt does in between, and the position cache   *)
(* is written once in an interval, whenever sys_times wraps round.         *)
(***************************************************************************)
EXTENDS GnssParse, GnssCache, TLAPS

(* A sentence is checked and parsed under its claim, which the interrupt   *)
(* respects.                                                               *)
Claimed == parse_step \in {"verify", "parse"} => gnss_state[This] = "PARSING"

Inv == GnssTypeOK /\ Claimed /\ ParsesWhatItChecked

LEMMA ThisKind == ASSUME GnssTypeOK PROVE This \in Kinds
BY DEF GnssTypeOK, This, Kinds

LEMMA StoreKeeps ==
    ASSUME GnssTypeOK, NEW t \in Kinds, NEW s \in Sentences, StoreSentence(t, s)
    PROVE  /\ gnss_state' \in [Kinds -> {"RECEIVING", "RECEIVED", "PARSING"}]
           /\ gps_buffer' \in [Kinds -> Sentences \cup {"empty"}]
           /\ \A k \in Kinds : gnss_state[k] = "PARSING" =>
                  gnss_state'[k] = "PARSING" /\ gps_buffer'[k] = gps_buffer[k]
BY DEF GnssTypeOK, StoreSentence

LEMMA InvInit == GnssInit => Inv
BY DEF GnssInit, Inv, GnssTypeOK, Claimed, ParsesWhatItChecked, Types, Sentences

LEMMA InvReceive ==
    ASSUME Inv, NEW t \in Kinds, NEW s \in Sentences, GnssReceive(t, s)
    PROVE  Inv'
<1>1. /\ StoreSentence(t, s) /\ gnss_flag' = 1
      /\ parse_step' = parse_step /\ turn' = turn /\ This' = This
  BY DEF GnssReceive, mainVars, This
<1>2. This \in Kinds
  BY ThisKind DEF Inv
<1>3. GnssTypeOK'
  BY <1>1, StoreKeeps DEF Inv, GnssTypeOK
<1>4. Claimed'
  BY <1>1, <1>2, StoreKeeps DEF Inv, Claimed
<1>5. ParsesWhatItChecked'
  BY <1>1, <1>2, StoreKeeps DEF Inv, Claimed, ParsesWhatItChecked
<1> QED
  BY <1>3, <1>4, <1>5 DEF Inv

LEMMA InvMainLoop ==
    ASSUME Inv, MainLoop
    PROVE  Inv'
<1>1. This \in Kinds /\ GnssTypeOK /\ Claimed /\ ParsesWhatItChecked
  BY ThisKind DEF Inv
<1>2. CASE Wake
  BY <1>1, <1>2 DEF Wake, Inv, GnssTypeOK, Claimed, ParsesWhatItChecked, Types
<1>3. CASE Skip
  BY <1>1, <1>3 DEF Skip, Inv, GnssTypeOK, Claimed, ParsesWhatItChecked
<1>4. CASE Claim
  <2>1. /\ gnss_state' = [gnss_state EXCEPT ![This] = "PARSING"]
        /\ parse_step' = "verify" /\ turn' = turn /\ This' = This
        /\ gnss_flag' = gnss_flag /\ gps_buffer' = gps_buffer
    BY <1>4 DEF Claim, Mark, This
  <2> QED
    BY <1>1, <2>1 DEF Inv, GnssTypeOK, Claimed, ParsesWhatItChecked
<1>5. CASE Verify
  BY <1>1, <1>5 DEF Verify, Inv, GnssTypeOK, Claimed, ParsesWhatItChecked, This
<1>6. CASE Reject
  BY <1>1, <1>6 DEF Reject, Inv, GnssTypeOK, Claimed, ParsesWhatItChecked
<1>7. CASE Parse
  BY <1>1, <1>7 DEF Parse, Inv, GnssTypeOK, Claimed, ParsesWhatItChecked
<1>8. CASE Release
  <2>1. /\ gnss_state' = [gnss_state EXCEPT ![This] = "RECEIVING"]
        /\ gnss_flag' = gnss_flag /\ gps_buffer' = gps_buffer
        /\ parse_step' \in {"check", "idle"} /\ turn' \in DOMAIN Types
    BY <1>1, <1>8 DEF Release, GnssTypeOK, Types
  <2> QED
    BY <1>1, <2>1 DEF Inv, GnssTypeOK, Claimed, ParsesWhatItChecked
<1> QED
  BY <1>2, <1>3, <1>4, <1>5, <1>6, <1>7, <1>8 DEF MainLoop

LEMMA InvNext == Inv /\ [GnssNext]_gnssVars => Inv'
<1> SUFFICES ASSUME Inv, [GnssNext]_gnssVars PROVE Inv'
  OBVIOUS
<1>1. ASSUME NEW t \in Kinds, NEW s \in Sentences, GnssReceive(t, s) PROVE Inv'
  BY <1>1, InvReceive
<1>2. CASE ReceiveOther
  BY <1>2 DEF ReceiveOther, mainVars, Inv, GnssTypeOK, Claimed, ParsesWhatItChecked, This
<1>3. CASE MainLoop
  BY <1>3, InvMainLoop
<1>4. CASE UNCHANGED gnssVars
  BY <1>4 DEF gnssVars, Inv, GnssTypeOK, Claimed, ParsesWhatItChecked, This
<1> QED
  BY <1>1, <1>2, <1>3, <1>4 DEF GnssNext

(* From the checksum to the end of the parsing no interrupt puts another   *)
(* sentence into the buffer (zf_device_gnss.c:417-433, against 511-540).   *)
THEOREM GnssParsesWhatItChecked == GnssSpec => []ParsesWhatItChecked
<1>1. Inv => ParsesWhatItChecked
  BY DEF Inv
<1> QED
  BY <1>1, InvInit, InvNext, PTL DEF GnssSpec
-----------------------------------------------------------------------------
(***************************************************************************)
(* The throttle of the position cache.                                     *)
(***************************************************************************)

\* As long as the clock has run on since the last write, and for less than a
\* whole turn, it tells the time gone by: with the carry of one wrap or none.
OneClock ==
    since < Wrap /\ ~restarted =>
        \/ sys_times = last_save_tick + since
        \/ sys_times + Wrap = last_save_tick + since

CacheInv == CacheTypeOK /\ OneClock

LEMMA CacheSizes ==
    /\ Wrap \in Nat /\ Wrap > 1 /\ Interval \in Nat /\ Interval > 0
    /\ Interval < Wrap
BY CacheAssumption DEF CacheAssumption

\* The next millisecond: one more, or zero after the last.
LEMMA NextTimes ==
    ASSUME sys_times \in Times
    PROVE  /\ NextTime \in Times
           /\ NextTime = sys_times + 1 \/ NextTime + Wrap = sys_times + 1
<1>1. CASE sys_times + 1 < Wrap
  <2>1. (sys_times + 1) % Wrap = sys_times + 1
    BY <1>1, CacheSizes DEF Times
  <2> QED BY <1>1, <2>1, CacheSizes DEF Times, NextTime
<1>2. CASE sys_times + 1 = Wrap
  <2>1. (sys_times + 1) % Wrap = 0
    BY <1>2, CacheSizes
  <2> QED BY <1>2, <2>1, CacheSizes DEF Times, NextTime
<1> QED BY <1>1, <1>2, CacheSizes DEF Times

\* The unsigned difference of the code is the time gone by.
LEMMA Elapsed ==
    ASSUME CacheInv, since < Wrap, ~restarted
    PROVE  (sys_times + Wrap - last_save_tick) % Wrap = since
<1>1. since \in Nat /\ sys_times \in Nat /\ last_save_tick \in Nat
  BY CacheSizes DEF CacheInv, CacheTypeOK, Times
<1>2. CASE sys_times + Wrap = last_save_tick + since
  <2>1. sys_times + Wrap - last_save_tick = since
    BY <1>1, <1>2, CacheSizes
  <2>2. since % Wrap = since
    BY <1>1, CacheSizes
  <2> QED BY <2>1, <2>2
<1>3. CASE sys_times = last_save_tick + since
  <2>1. sys_times + Wrap - last_save_tick = since + Wrap
    BY <1>1, <1>3, CacheSizes
  <2>2. (since + Wrap) % Wrap = since
    BY <1>1, CacheSizes
  <2> QED BY <2>1, <2>2
<1> QED BY <1>2, <1>3 DEF CacheInv, OneClock

LEMMA CacheInvInit == CacheInit => CacheInv
<1> SUFFICES ASSUME CacheInit PROVE CacheInv
  OBVIOUS
<1>1. 0 \in Times /\ Wrap \in 0 .. Wrap
  BY CacheSizes DEF Times
<1> QED BY <1>1 DEF CacheInit, CacheInv, CacheTypeOK, OneClock

LEMMA CacheInvNext ==
    ASSUME CacheInv, [CacheNext]_cacheVars
    PROVE  CacheInv'
<1> USE DEF CacheInv, CacheTypeOK
<1>1. CASE Tick \/ TickFallen
  <2>1. /\ sys_times' = NextTime /\ since' = Older /\ run_state' \in {0, 1}
        /\ UNCHANGED <<last_save_tick, save_step, restarted>>
    BY <1>1 DEF Tick, TickFallen
  <2>2. since' \in 0 .. Wrap /\ (since' < Wrap => since' = since + 1)
    BY <2>1, CacheSizes DEF Older
  <2>3. NextTime \in Times
        /\ (NextTime = sys_times + 1 \/ NextTime + Wrap = sys_times + 1)
    BY NextTimes
  <2>4. OneClock'
    <3> SUFFICES ASSUME since' < Wrap, ~restarted
                 PROVE  \/ sys_times' = last_save_tick + since'
                        \/ sys_times' + Wrap = last_save_tick + since'
      BY <2>1 DEF OneClock
    <3>1. since' = since + 1 /\ since < Wrap
      BY <2>2, CacheSizes
    <3>2. \/ sys_times = last_save_tick + since
          \/ sys_times + Wrap = last_save_tick + since
      BY <3>1 DEF OneClock
    <3> QED BY <2>1, <2>3, <3>1, <3>2, CacheSizes DEF Times
  <2> QED BY <2>1, <2>2, <2>3, <2>4
<1>2. CASE TickRecovered
  <2>1. /\ sys_times' = 0 /\ since' = Older /\ run_state' = 1 /\ restarted' = TRUE
        /\ UNCHANGED <<last_save_tick, save_step>>
    BY <1>2 DEF TickRecovered
  <2>2. since' \in 0 .. Wrap
    BY <2>1, CacheSizes DEF Older
  <2> QED BY <2>1, <2>2, CacheSizes DEF OneClock, Times
<1>3. CASE StoreFix
  <2>1. /\ UNCHANGED <<sys_times, run_state>> /\ last_save_tick' = sys_times
        /\ since' = 0 /\ save_step' = "idle" /\ restarted' = FALSE
    BY <1>3 DEF StoreFix
  <2>2. 0 \in 0 .. Wrap /\ sys_times + 0 = sys_times
    BY CacheSizes DEF Times
  <2> QED BY <2>1, <2>2 DEF OneClock
<1>4. CASE Refuse \/ Accept \/ Return
  BY <1>4 DEF Refuse, Accept, Return, OneClock
<1>5. CASE UNCHANGED cacheVars
  BY <1>5 DEF cacheVars, OneClock
<1> QED BY <1>1, <1>2, <1>3, <1>4, <1>5 DEF CacheNext

LEMMA AcceptsAccept ==
    ASSUME CacheInv, [CacheNext]_cacheVars
    PROVE  /\ Accepts => Accept
           /\ Refuses => Refuse
BY DEF Accepts, Refuses, CacheNext, Tick, TickFallen, TickRecovered, Refuse, Accept,
   StoreFix, Return, cacheVars

(* Two writes of the cache are an interval apart, also when sys_times wraps  *)
(* round between them (gnss_cache.c:44-46).                                  *)
THEOREM CacheIntervalKept == CacheSpec => IntervalKeptOnOneClock
<1>1. ASSUME CacheInv, [CacheNext]_cacheVars, Accepts
      PROVE  since >= Interval \/ restarted \/ last_save_tick = 0
  <2>1. ~TooEarly
    BY <1>1, AcceptsAccept DEF Accept
  <2> SUFFICES ASSUME ~restarted, last_save_tick # 0
               PROVE  since >= Interval
    OBVIOUS
  <2>2. CASE since < Wrap
    BY <1>1, <2>1, <2>2, Elapsed, CacheSizes DEF TooEarly, CacheInv, CacheTypeOK
  <2>3. CASE since = Wrap
    BY <2>3, CacheSizes
  <2> QED BY <1>1, <2>2, <2>3, CacheSizes DEF CacheInv, CacheTypeOK
<1>2. CacheInv /\ [CacheNext]_cacheVars =>
          [Accepts => since >= Interval \/ restarted \/ last_save_tick = 0]_cacheVars
  BY <1>1
<1> QED BY <1>2, CacheInvInit, CacheInvNext, PTL DEF CacheSpec, IntervalKeptOnOneClock

(* An attempt is refused only while the interval since the last write runs:  *)
(* refused attempts do not put off the next write (gnss_cache.c:44-46).      *)
THEOREM CacheRefusedEarly == CacheSpec => RefusedOnlyEarly
<1>1. ASSUME CacheInv, [CacheNext]_cacheVars, Refuses
      PROVE  since < Interval \/ restarted \/ since = Wrap
  <2>1. TooEarly
    BY <1>1, AcceptsAccept DEF Refuse
  <2> SUFFICES ASSUME ~restarted, since # Wrap
               PROVE  since < Interval
    OBVIOUS
  <2>2. since < Wrap
    BY <1>1, CacheSizes DEF CacheInv, CacheTypeOK
  <2> QED BY <1>1, <2>1, <2>2, Elapsed DEF TooEarly
<1>2. CacheInv /\ [CacheNext]_cacheVars =>
          [Refuses => since < Interval \/ restarted \/ since = Wrap]_cacheVars
  BY <1>1
<1> QED BY <1>2, CacheInvInit, CacheInvNext, PTL DEF CacheSpec, RefusedOnlyEarly
=============================================================================
