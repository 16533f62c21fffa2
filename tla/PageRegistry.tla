---------------------------- MODULE PageRegistry ----------------------------
(***************************************************************************)
(* Conversation Pages (src/conversations/page-registry.ts) on top of the   *)
(* Page pool.  A Conversation keeps the Page of its last successful turn   *)
(* as its binding; idle bindings are evicted, least recently used first,   *)
(* when the pool is full, and closed when they have been idle too long.    *)
(* The image service and the diagnostics probe use the pool directly.      *)
(*                                                                         *)
(* A Conversation runs one turn at a time (OneTurnPerConversation of       *)
(* ConversationEngine).  Every await is a step: opening a Page, the        *)
(* failure of a pool acquire, eviction and retry, closing a Page.  Time is *)
(* left to the order of last use: a timer can find any number of the least *)
(* recently used idle bindings expired.                                    *)
(*                                                                         *)
(* A lease is identified by its Page.  release and close do nothing once   *)
(* the lease has ended, so what still refers to it then is dropped at once.*)
(***************************************************************************)
EXTENDS PagePool

CONSTANTS
  Conversations,  \* Conversations that run turns
  Users,          \* image requests and diagnostics probes
  Timer, NoPage,
  MaxFailures,    \* bound: context.newPage() calls that fail
  MaxLost         \* bound: Pages that are closed from outside

Actors == Conversations \cup Users \cup {Timer}

ASSUME RegistryAssumption ==
  /\ Timer \notin Conversations \cup Users /\ Conversations \cap Users = {}
  /\ NoPage \notin Pages /\ IsFiniteSet(Conversations)
  /\ MaxFailures \in Nat /\ MaxLost \in Nat

VARIABLES
  bound,    \* bindings: the Page of every Conversation
  busy,     \* the bindings in use
  lru,      \* bound Conversations by lastUsedAt
  at,       \* where each actor is
  held,     \* the Page each actor works with or is closing
  expired,  \* the Pages the timer callback has still to close
  armed,    \* the expiry timer is set
  failures, lost

registry == <<bound, busy, lru>>
timer    == <<expired, armed>>
counters == <<failures, lost>>
vars     == <<open, leased, idle, bound, busy, lru, at, held, expired, armed, failures, lost>>

Places == {"none", "opening", "evicting", "retrying", "using", "replacing", "expiring"}

(* The context starts with one Page.                                       *)
Init ==
  /\ \E p \in Pages : open = {p} /\ idle = <<p>>
  /\ leased = {}
  /\ bound = [c \in Conversations |-> NoPage]
  /\ busy = {}
  /\ lru = <<>>
  /\ at = [x \in Actors |-> "none"]
  /\ held = [x \in Actors |-> NoPage]
  /\ expired = <<>>
  /\ armed = FALSE
  /\ failures = 0 /\ lost = 0

-----------------------------------------------------------------------------
(* Page objects nothing refers to stand for new ones.                      *)
FreshPages ==
  Pages \ (open \cup {held[x] : x \in Actors} \cup {bound[c] : c \in Conversations})

IsIdle(c) == bound[c] # NoPage /\ c \notin busy

(* Mutant of IdleBindings: bindings in use are candidates, too.            *)
AllBindings == {c \in Conversations : bound[c] # NoPage}

IdleBindings == {c \in Conversations : IsIdle(c)}

(* The least recently used of some bindings, and the first n of them.      *)
Oldest(bindings) ==
  {c \in bindings : \A d \in bindings \ {c} :
     \E i, j \in DOMAIN lru : i < j /\ lru[i] = c /\ lru[j] = d}

FirstByUse(bindings, n) ==
  {s \in [1..n -> bindings] :
     \A i \in 1..n : s[i] \in Oldest(bindings \ {s[j] : j \in 1..(i - 1)})}

Owner(p) == {c \in Conversations : bound[c] = p}

(* scheduleEarliestExpiry                                                  *)
Schedule == armed' = (\E c \in Conversations : bound'[c] # NoPage /\ c \notin busy')

(* The lease of p ends, or its Conversation's binding is deleted.          *)
Unbind(p) ==
  /\ bound' = [c \in Conversations |-> IF bound[c] = p THEN NoPage ELSE bound[c]]
  /\ busy' = busy \ Owner(p)
  /\ IF Owner(p) = {} THEN UNCHANGED lru ELSE \E c \in Owner(p) : lru' = Without(lru, c)

Goes(x, place, p) ==
  /\ at' = [at EXCEPT ![x] = place]
  /\ held' = [held EXCEPT ![x] = p]

(* A Conversation that got a Page is bound to it and busy; a direct user   *)
(* just has it.                                                            *)
Got(x, p) ==
  /\ Goes(x, "using", p)
  /\ IF x \in Conversations
     THEN /\ bound' = [bound EXCEPT ![x] = p]
          /\ busy' = busy \cup {x}
          /\ lru' = Append(Without(lru, x), x)
          /\ Schedule
     ELSE UNCHANGED <<registry, armed>>

(* pool.acquire(); when the pool is full the actor goes to otherwise.      *)
TryPool(x, otherwise) ==
  \/ \E p \in Pages : TakeIdle(p) /\ Got(x, p)
  \/ /\ MayOpen \/ AtCapacity
     /\ Goes(x, IF MayOpen THEN "opening" ELSE otherwise, NoPage)
     /\ UNCHANGED <<pool, registry, armed>>

-----------------------------------------------------------------------------
(* Acquiring.                                                              *)

(* A turn takes the Page its Conversation is bound to, or acquires one.    *)
Reuse(c) ==
  /\ at[c] = "none" /\ bound[c] # NoPage
  /\ Goes(c, "using", bound[c])
  /\ busy' = busy \cup {c}
  /\ UNCHANGED <<pool, bound, lru, expired, counters>>
  /\ Schedule

Acquire(x) ==
  /\ at[x] = "none"
  /\ x \in Conversations => bound[x] = NoPage
  /\ TryPool(x, IF x \in Conversations THEN "evicting" ELSE "none")
  /\ UNCHANGED <<expired, counters>>

Opened(x) ==
  /\ at[x] = "opening"
  /\ \E p \in FreshPages : TrackLeased(p) /\ Got(x, p)
  /\ UNCHANGED <<expired, counters>>

OpenFails(x) ==
  /\ at[x] = "opening"
  /\ failures < MaxFailures /\ failures' = failures + 1
  /\ Goes(x, "none", NoPage)
  /\ UNCHANGED <<pool, registry, timer, lost>>

(* Mutant of Evict: the binding is deleted, its lease is not released.     *)
EvictLeaking(c) ==
  /\ at[c] = "evicting"
  /\ \/ /\ IdleBindings = {}
        /\ Goes(c, "none", NoPage)
        /\ UNCHANGED <<pool, registry, timer>>
     \/ /\ \E b \in Oldest(IdleBindings) : LET p == bound[b] IN
           /\ Unbind(p) /\ Schedule
           /\ expired' = Without(expired, p)
        /\ Goes(c, "retrying", NoPage)
        /\ UNCHANGED pool
  /\ UNCHANGED counters

(* The pool was full: the least recently used idle binding gives its Page  *)
(* back to it, and acquiring is tried once more.  Nothing keeps that Page  *)
(* for the one who evicted it.                                             *)
Evict(c) ==
  /\ at[c] = "evicting"
  /\ \/ /\ IdleBindings = {}
        /\ Goes(c, "none", NoPage)
        /\ UNCHANGED <<pool, registry, timer>>
     \/ /\ \E b \in Oldest(IdleBindings) : LET p == bound[b] IN
           /\ ReleasePage(p) /\ Unbind(p) /\ Schedule
           /\ expired' = Without(expired, p)
        /\ Goes(c, "retrying", NoPage)
  /\ UNCHANGED counters

Retry(c) ==
  /\ at[c] = "retrying"
  /\ TryPool(c, "none")
  /\ UNCHANGED <<expired, counters>>

-----------------------------------------------------------------------------
(* Giving back.                                                            *)

(* Mutant of Complete: no timer is set for the binding that became idle.   *)
CompleteUnscheduled(c) ==
  /\ at[c] = "using"
  /\ Goes(c, "none", NoPage)
  /\ IF bound[c] = held[c]
     THEN /\ busy' = busy \ {c}
          /\ lru' = Append(Without(lru, c), c)
          /\ UNCHANGED bound
     ELSE UNCHANGED registry
  /\ UNCHANGED <<pool, timer, counters>>

(* A turn that succeeded leaves its Page bound and idle, a direct use      *)
(* returns it.  If the lease has ended meanwhile there is nothing to do.   *)
Complete(c) ==
  /\ at[c] = "using"
  /\ Goes(c, "none", NoPage)
  /\ IF bound[c] = held[c]
     THEN /\ busy' = busy \ {c}
          /\ lru' = Append(Without(lru, c), c)
          /\ UNCHANGED bound
          /\ Schedule
     ELSE UNCHANGED <<registry, armed>>
  /\ UNCHANGED <<pool, expired, counters>>

Release(d) ==
  /\ at[d] = "using"
  /\ Goes(d, "none", NoPage)
  /\ ReleasePage(held[d])
  /\ UNCHANGED <<registry, timer, counters>>

(* lease.close up to its first await, by x, who goes on to after; the      *)
(* binding is gone first.                                                  *)
CloseLease(x, p, after) ==
  /\ Unbind(p)
  /\ IF IsLastPage(p) THEN Goes(x, "replacing", p) /\ UNCHANGED pool
     ELSE Goes(x, after, NoPage) /\ RemovePage(p)

(* A turn or a direct use that failed closes its Page.                     *)
Fail(x) ==
  /\ at[x] = "using"
  /\ CloseLease(x, held[x], "none")
  /\ expired' = IF IsLastPage(held[x]) THEN expired ELSE Without(expired, held[x])
  /\ IF x \in Conversations THEN Schedule ELSE UNCHANGED armed
  /\ UNCHANGED counters

Replaced(x) ==
  /\ at[x] = "replacing"
  /\ \E new \in FreshPages : ReplacePage(held[x], new)
  /\ Goes(x, IF x = Timer THEN "expiring" ELSE "none", NoPage)
  /\ expired' = Without(expired, held[x])
  /\ UNCHANGED <<registry, armed, counters>>

(* No replacement: close throws and the lease is left as it is, with       *)
(* nobody to end it.  The timer callback is over, and sets no timer.       *)
ReplaceFails(x) ==
  /\ at[x] = "replacing"
  /\ failures < MaxFailures /\ failures' = failures + 1
  /\ Goes(x, "none", NoPage)
  /\ expired' = IF x = Timer THEN <<>> ELSE expired
  /\ UNCHANGED <<pool, registry, armed, lost>>

-----------------------------------------------------------------------------
(* The timer callback finds the expired bindings, oldest first, and closes *)
(* one after the other, waiting for each Page to be closed.  The first one *)
(* is closed as soon as it is found; the later ones are not looked at      *)
(* again before they are.  In the end it sets the next timer.              *)
(* Bound: one callback at a time.                                          *)
Expire(pages) ==
  /\ CloseLease(Timer, Head(pages), "expiring")
  /\ expired' = IF IsLastPage(Head(pages)) THEN pages ELSE Tail(pages)
  /\ UNCHANGED counters

TimerFires ==
  /\ armed /\ at[Timer] = "none"
  /\ \/ /\ \A c \in Conversations : ~IsIdle(c)
        /\ armed' = FALSE
        /\ UNCHANGED <<pool, registry, at, held, expired, counters>>
     \/ /\ \E n \in 1..Cardinality(IdleBindings) :
             \E first \in FirstByUse(IdleBindings, n) :
               Expire([i \in 1..n |-> bound[first[i]]])
        /\ armed' = FALSE

ExpireNext ==
  /\ at[Timer] = "expiring"
  /\ \/ expired # <<>> /\ Expire(expired) /\ UNCHANGED armed
     \/ /\ expired = <<>>
        /\ Goes(Timer, "none", NoPage)
        /\ UNCHANGED <<pool, registry, expired, counters>>
        /\ Schedule

(* A Page is closed from outside, by a crash or by hand.  The last one     *)
(* would take the browser context and with it the process along.           *)
PageLost(p) ==
  /\ p \in open /\ open # {p}
  /\ lost < MaxLost /\ lost' = lost + 1
  /\ RemovePage(p) /\ Unbind(p)
  /\ expired' = Without(expired, p)
  /\ UNCHANGED <<at, held, armed, failures>>

Next ==
  \/ \E c \in Conversations : Reuse(c) \/ Evict(c) \/ Retry(c) \/ Complete(c)
  \/ \E d \in Users : Release(d)
  \/ \E x \in Conversations \cup Users : Acquire(x) \/ Opened(x) \/ OpenFails(x) \/ Fail(x)
  \/ \E x \in Actors : Replaced(x) \/ ReplaceFails(x)
  \/ TimerFires \/ ExpireNext
  \/ \E p \in Pages : PageLost(p)

Spec == Init /\ [][Next]_vars

(* Pages are opened or the attempt times out, turns and direct uses end,   *)
(* timers fire once their time has come.                                   *)
FairSpec ==
  /\ Spec
  /\ \A x \in Conversations \cup Users :
       WF_vars(Opened(x)) /\ WF_vars(Replaced(x)) /\ WF_vars(Fail(x))
  /\ \A c \in Conversations : WF_vars(Evict(c)) /\ WF_vars(Retry(c))
  /\ WF_vars(TimerFires) /\ WF_vars(ExpireNext) /\ WF_vars(Replaced(Timer))

-----------------------------------------------------------------------------
(* Types of all variables.                                                 *)
TypeOK ==
  /\ open \subseteq Pages /\ leased \subseteq Pages /\ idle \in Seq(Pages)
  /\ bound \in [Conversations -> Pages \cup {NoPage}]
  /\ busy \subseteq Conversations
  /\ lru \in Seq(Conversations)
  /\ at \in [Actors -> Places]
  /\ held \in [Actors -> Pages \cup {NoPage}]
  /\ expired \in Seq(Pages)
  /\ armed \in BOOLEAN
  /\ failures \in Nat /\ lost \in Nat

Uses(x, p) == at[x] = "using" /\ held[x] = p

(* No Page is used by two at a time, offered to others while it is used,   *)
(* or used by one while it is bound to another Conversation, also when its *)
(* lease was ended under its user.                                         *)
PagesNotShared ==
  \A p \in Pages :
    /\ \A x, y \in Actors : Uses(x, p) /\ Uses(y, p) => x = y
    /\ \A x \in Actors : Uses(x, p) => p \notin IdlePages
    /\ \A c \in Owner(p) : p \notin IdlePages /\ \A x \in Actors \ {c} : ~Uses(x, p)

(* The capacity that is in use can come back: every leased Page is bound,  *)
(* used or being closed, unless opening the replacement of one failed.     *)
LeasesAccounted ==
  /\ \A c \in Conversations : bound[c] # NoPage => bound[c] \in leased \cap open
  /\ failures = 0 => \A p \in leased :
       Owner(p) # {} \/ \E x \in Actors : held[x] = p

(* The gateway never closes its last Page itself, in whatever order leases *)
(* are given up and Pages are opened.                                      *)
KeepsLastPage == [][open' = {} => lost' # lost]_vars

(* A Page no turn comes back to is given up in the end: the timer is not   *)
(* lost between turns, evictions, Pages that are closed and its own        *)
(* callbacks, unless opening a replacement has failed.                     *)
IdlePagesExpire ==
  \A c \in Conversations : IsIdle(c) ~> ~IsIdle(c) \/ failures > 0

(* docs/architecture.md:132: only idle bindings are reclaimed, an active   *)
(* Conversation is not disturbed: while nothing is closed from outside, a  *)
(* turn keeps its Page.                                                    *)
BusyPageKept ==
  lost = 0 => \A c \in Conversations : at[c] = "using" => bound[c] = held[c]

(* README.md:188: MAX_ACTIVE_PAGES is the number of open Pages the pool    *)
(* has at most.                                                            *)
CapacityBounded == Cardinality(open) <= MaxOpenPages
=============================================================================
