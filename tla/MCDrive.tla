------------------------------ MODULE MCDrive ------------------------------
(* Values of the constants of DriveProps for TLC. *)
EXTENDS DriveProps

OneTick == [p \in JumpPhases |-> 1]
DefaultPhases == [OneTick EXCEPT !["PREPARE"] = 2]
StairPhaseTicks == [OneTick EXCEPT !["CHARGE"] = 2]

Down == {FALSE}
UpAndDown == {TRUE, FALSE}

NoFrames == {}
Frame(link, v, a, j) == [on |-> link, ch |-> [speed |-> v, arm |-> a, action |-> j]]

\* Link lost, switch off, centred, forward, jump switch with and without stick.
AllFrames == {Frame(FALSE, 250, TRUE, FALSE), Frame(TRUE, 0, FALSE, FALSE),
              Frame(TRUE, 0, TRUE, FALSE), Frame(TRUE, 250, TRUE, FALSE),
              Frame(TRUE, 250, TRUE, TRUE)}

JumpFrames == {Frame(TRUE, 0, TRUE, FALSE), Frame(TRUE, 0, TRUE, TRUE)}

BothSides == {"left", "right", "between", "flat"}
Level == {"flat"}
=============================================================================
