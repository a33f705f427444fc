-------------------------------- MODULE Hooks --------------------------------
(***************************************************************************)
(* The task that runs the user's commands (src/hooks.rs).  Commands are    *)
(* alike: some run, some are done and not yet reaped; a finished command   *)
(* counts as in flight until the loop has come round to it.                *)
(***************************************************************************)
EXTENDS Integers, Sequences

CONSTANTS
  MaxInFlight,
  HookCap,             \* of the channel from the router
  CommandsOf           \* [Requests -> commands it runs]: a slot's hooks, or one macro's

ASSUME HooksAssumption ==
  /\ MaxInFlight \in Nat /\ HookCap \in Nat
  /\ \A r \in DOMAIN CommandsOf : CommandsOf[r] \in Nat

VARIABLES
  hooking,             \* the task runs
  requests,            \* the channel
  busy, done           \* commands running, and finished but not reaped

hookVars == <<hooking, requests, busy, done>>

InFlight == busy + done

HooksInit(on) == hooking = on /\ requests = <<>> /\ busy = 0 /\ done = 0

\* try_send by the router.
AskFor(r) ==
  /\ hooking
  /\ requests' = IF Len(requests) < HookCap THEN Append(requests, r) ELSE requests
  /\ UNCHANGED <<hooking, busy, done>>

\* One after the other, each only while there is room.
SpawnMatching ==
  /\ hooking /\ requests # <<>>
  /\ requests' = Tail(requests)
  /\ busy' = LET room == MaxInFlight - InFlight  n == CommandsOf[Head(requests)] IN
             busy + (IF n < room THEN n ELSE room)
  /\ UNCHANGED <<hooking, done>>

\* Mutant: a command may take as long as it likes.
NoTimeOut == FALSE

\* A command ends, or is killed at its time limit; it is reaped later.
TimeOut == busy > 0 /\ busy' = busy - 1 /\ done' = done + 1 /\ UNCHANGED <<hooking, requests>>

Reap == hooking /\ done > 0 /\ done' = done - 1 /\ UNCHANGED <<hooking, requests, busy>>

\* Dropping the JoinSet kills what still runs.
HooksStop ==
  /\ hooking /\ hooking' = FALSE
  /\ busy' = 0 /\ done' = 0 /\ requests' = <<>>

=============================================================================
