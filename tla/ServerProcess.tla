---------------------------- MODULE ServerProcess ----------------------------
(***************************************************************************)
(* The one process of the service: uvicorn's event loop, the threads the   *)
(* handlers run in, and the pool of database connections of the engine.    *)
(*                                                                         *)
(*   - the loop takes requests up and, when a handler is over, closes its  *)
(*     session (get_db), which alone gives a connection that is not idle   *)
(*     back to the pool; it then sends the response;                       *)
(*   - a plain handler runs in a thread beside the loop; upload_file is    *)
(*     the one `async def`: it calls its controller on the loop itself,    *)
(*     and nothing above happens until it returns;                         *)
(*   - a session takes a connection with its first statement and gives it  *)
(*     back with its commit; when the pool is exhausted it waits, for 30   *)
(*     seconds at most.                                                    *)
(*                                                                         *)
(* A component's handlers are actions that conjoin these.                  *)
(***************************************************************************)
EXTENDS Naturals, FiniteSets

CONSTANTS
    Requests,       \* identities of the requests; each is made at most once
    PoolSize,       \* connections of the engine
    Nobody          \* no request

ASSUME PoolAssumption == PoolSize \in Nat \ {0} /\ Nobody \notin Requests

VARIABLES
    loop,           \* the request whose handler runs on the event loop
    conns           \* the requests whose session holds a connection

processVars == <<loop, conns>>

ProcessInit == loop = Nobody /\ conns = {}

LoopIsFree == loop = Nobody

Exhausted == Cardinality(conns) >= PoolSize

\* A plausible slip: the handler runs in a thread like all the others.
RunsInThread(p) == LoopIsFree /\ UNCHANGED loop

RunsOnLoop(p) == LoopIsFree /\ loop' = p

LeavesLoop(p) == loop' = IF loop = p THEN Nobody ELSE loop

Connects(p) ==
    \/ p \in conns /\ UNCHANGED conns
    \/ p \notin conns /\ ~ Exhausted /\ conns' = conns \cup {p}

\* A plausible slip: no limit to the wait.
NeverTimesOut(p) == FALSE

\* QueuePool gives up and the handler with it.
TimesOut(p) == p \notin conns /\ Exhausted

Disconnects(p) == conns' = conns \ {p}

ProcessDies == loop' = Nobody /\ conns' = {}
=============================================================================
