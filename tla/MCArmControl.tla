---------------------------- MODULE MCArmControl ----------------------------
(* ArmControl for TLC: two areas, two calls, the command's own reader and    *)
(* one other reader of the table.  An alarm input is left out: alarms are    *)
(* MCArmingTracker's subject, and a command reads none of them.              *)
EXTENDS ArmControl, TLC

CONSTANTS a1, a2, c1, c2, own, other, away

MCAreas == {a1, a2}
MCCommands == {c1, c2}
MCReaders == {own, other}
MCModes == {Disarmed, away}

MCSymmetry == Permutations(MCAreas) \union Permutations(MCCommands)

=============================================================================
