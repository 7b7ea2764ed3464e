-------------------------- MODULE MCArmingTracker --------------------------
(* ArmingTracker for TLC: two areas and two readers.  The tracker's steps only  *)
(* tell the disarmed mode from any other, so one other mode is enough.      *)
EXTENDS ArmingTracker, TLC

CONSTANTS a1, a2, r1, r2, away

MCAreas == {a1, a2}
MCReaders == {r1, r2}
MCModes == {Disarmed, away}

MCSymmetry == Permutations(MCAreas) \union Permutations(MCReaders)

=============================================================================
