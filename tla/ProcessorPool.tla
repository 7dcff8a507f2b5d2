--------------------------- MODULE ProcessorPool ---------------------------
(***************************************************************************)
(* What DynamicThreadManager promises its clients, without its maps and    *)
(* counters: a pool of threads, taken one at a time or a whole core at a   *)
(* time.  Single threads come from cores that are already broken up as     *)
(* long as there are any.                                                  *)
(***************************************************************************)
CONSTANTS Threads, Cores, CoreOf

VARIABLES avail,  \* the threads nobody has
          open    \* between initialize and destroy

vars == <<avail, open>>

Core(c) == {t \in Threads : CoreOf[t] = c}
Broken(c) == Core(c) \cap avail \notin {{}, Core(c)}

Init == avail = {} /\ open = FALSE

Open == ~open /\ open' = TRUE /\ avail' = Threads

Close == open' = FALSE /\ avail' = {}

TakeCore(c) ==
  /\ open /\ Core(c) \subseteq avail
  /\ avail' = avail \ Core(c)
  /\ UNCHANGED open

TakeThread(t) ==
  /\ open /\ t \in avail
  /\ (\E c \in Cores : Broken(c)) => Broken(CoreOf[t])
  /\ avail' = avail \ {t}
  /\ UNCHANGED open

GiveBackThread(t) ==
  /\ open
  /\ avail' = avail \cup {t}
  /\ UNCHANGED open

GiveBackCore(c) ==
  /\ open
  /\ avail' = avail \cup Core(c)
  /\ UNCHANGED open

Next ==
  \/ Open \/ Close
  \/ \E c \in Cores : TakeCore(c) \/ GiveBackCore(c)
  \/ \E t \in Threads : TakeThread(t) \/ GiveBackThread(t)

Spec == Init /\ [][Next]_vars
=============================================================================
