---------------------------- MODULE ModeCommanding ---------------------------
(***************************************************************************)
(* What the simulator promises about commanding its mode, without threads, *)
(* packets or a mailbox: modes are issued one after another, and from time *)
(* to time the spacecraft takes over the latest one issued since it last   *)
(* looked. The modes issued in between are passed over.                    *)
(***************************************************************************)
EXTENDS Naturals, Sequences

CONSTANTS
  Mode,        \* the spacecraft modes
  Safe,        \* the one mode_to_safe forces
  InitialMode,
  Forced       \* mode_to_safe is enabled

VARIABLES
  issued,      \* the modes commanded, in order
  taken,       \* how many of them the spacecraft has looked at
  mode         \* the spacecraft's mode

cmdVars == <<issued, taken, mode>>

CmdInit == issued = << >> /\ taken = 0 /\ mode = InitialMode

Issue(m) == issued' = Append(issued, m) /\ UNCHANGED <<taken, mode>>

TakeOver ==
  /\ taken' = Len(issued)
  /\ mode' = IF Forced THEN Safe
             ELSE IF taken < Len(issued) THEN issued[Len(issued)] ELSE mode
  /\ UNCHANGED issued

CmdNext == TakeOver \/ \E m \in Mode : Issue(m)

CmdSpec == CmdInit /\ [][CmdNext]_cmdVars
==============================================================================
