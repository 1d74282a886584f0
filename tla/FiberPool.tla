------------------------------ MODULE FiberPool ------------------------------
(***************************************************************************)
(* What the coroutine scheduler promises, without threads, queue or        *)
(* counters.  A submitted coroutine is run, by one runner at a time, until *)
(* it suspends or ends; a suspended one runs again once for each wake-up   *)
(* and never without one; a wake-up that comes before the coroutine has    *)
(* finished suspending is kept; the pool closes only when nothing is ready *)
(* or running, and is then closed for good.                                *)
(***************************************************************************)
CONSTANT Fibers

VARIABLES status,   \* what each coroutine is doing
          early,    \* coroutines woken before they suspended
          phase     \* "new" (nobody serves yet), "serving" or "closed"

vars == <<status, early, phase>>

Status == {"none", "ready", "running", "waiting", "done"}

TypeOK == /\ status \in [Fibers -> Status]
          /\ early \subseteq Fibers
          /\ phase \in {"new", "serving", "closed"}

Init == /\ status = [f \in Fibers |-> "none"]
        /\ early = {}
        /\ phase = "new"

Become(f, s) == status' = [status EXCEPT ![f] = s]

Serve == /\ phase = "new"
         /\ phase' = "serving"
         /\ UNCHANGED <<status, early>>

Submit(f) == /\ phase # "closed"
             /\ status[f] = "none"
             /\ Become(f, "ready")
             /\ UNCHANGED <<early, phase>>

Run(f) == /\ phase = "serving"
          /\ status[f] = "ready"
          /\ Become(f, "running")
          /\ UNCHANGED <<early, phase>>

\* One wake-up: of a waiting coroutine, or of one that is about to wait.
Wake(f) == /\ phase # "closed"
           /\ \/ /\ status[f] = "waiting"
                 /\ Become(f, "ready")
                 /\ UNCHANGED early
              \/ /\ status[f] = "running"
                 /\ f \notin early
                 /\ early' = early \cup {f}
                 /\ UNCHANGED status
           /\ UNCHANGED phase

\* A coroutine gives up its runner: it waits for a wake-up, or is ready
\* again because the wake-up came first or because it asked for its turn.
Suspend(f) == /\ status[f] = "running"
              /\ \/ f \notin early /\ Become(f, "waiting")
                 \/ Become(f, "ready")
              /\ early' = early \ {f}
              /\ UNCHANGED phase

Finish(f) == /\ status[f] = "running"
             /\ Become(f, "done")
             /\ early' = early \ {f}
             /\ UNCHANGED phase

Close == /\ phase # "closed"
         /\ \A f \in Fibers : status[f] \notin {"ready", "running"}
         /\ phase' = "closed"
         /\ UNCHANGED <<status, early>>

Next == \/ Serve
        \/ Close
        \/ \E f \in Fibers : Submit(f) \/ Run(f) \/ Wake(f) \/ Suspend(f) \/ Finish(f)

\* A pool that serves runs what is ready.
Fairness == \A f \in Fibers : WF_vars(Run(f))

Safe == Init /\ [][Next]_vars
Spec == Safe /\ Fairness
==============================================================================
