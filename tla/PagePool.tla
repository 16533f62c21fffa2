------------------------------ MODULE PagePool ------------------------------
(***************************************************************************)
(* The bounded pool of browser Pages (src/browser/page-pool.ts): what each *)
(* synchronous stretch of acquire, release and close does to the pool.     *)
(* Opening a Page takes time, so acquire and close are in two stretches    *)
(* around context.newPage(); who waits for it is module PageRegistry's.    *)
(*                                                                         *)
(* A Page that has left open is closed, or is closing for good.            *)
(***************************************************************************)
EXTENDS Naturals, Sequences, FiniteSets

CONSTANTS
  Pages,         \* Pages of the browser context
  MaxOpenPages   \* MAX_ACTIVE_PAGES

ASSUME PoolAssumption == MaxOpenPages \in Nat \ {0}

VARIABLES
  open,    \* the Pages the pool tracks
  leased,  \* the ones somebody works with
  idle     \* the ones to be leased next, oldest first

pool == <<open, leased, idle>>

IdlePages == {idle[i] : i \in 1..Len(idle)}

(* Set.delete on a set in the order of insertion.                          *)
Without(s, e) ==
  LET n == CHOOSE i \in DOMAIN s : s[i] = e
  IN  IF \E i \in DOMAIN s : s[i] = e
      THEN [i \in 1..(Len(s) - 1) |-> s[IF i < n THEN i ELSE i + 1]]
      ELSE s

(* acquire: an idle Page if there is one; else a new one is opened, if     *)
(* there is room; else page_capacity_exceeded.                             *)
TakeIdle(p) ==
  /\ idle # <<>> /\ p = Head(idle)
  /\ idle' = Tail(idle)
  /\ leased' = leased \cup {p}
  /\ UNCHANGED open

MayOpen    == idle = <<>> /\ Cardinality(open) < MaxOpenPages
AtCapacity == idle = <<>> /\ Cardinality(open) >= MaxOpenPages

(* The new Page is there: it is tracked as leased.                         *)
TrackLeased(p) ==
  /\ open' = open \cup {p}
  /\ leased' = leased \cup {p}
  /\ UNCHANGED idle

(* lease.release: the Page becomes idle, unless it has been closed.        *)
ReleasePage(p) ==
  /\ leased' = leased \ {p}
  /\ idle' = IF p \in open THEN Append(idle, p) ELSE idle
  /\ UNCHANGED open

(* removePage: by lease.close, or because the Page was closed under us.    *)
RemovePage(p) ==
  /\ open' = open \ {p}
  /\ leased' = leased \ {p}
  /\ idle' = Without(idle, p)

(* Mutant of IsLastPage: the last Page is closed like any other.           *)
IsLastPageNever(p) == FALSE

(* lease.close of the only open Page first opens an idle replacement:      *)
(* closing the last Page would close the browser context.                  *)
IsLastPage(p) == open = {p}

ReplacePage(p, new) ==
  /\ open' = (open \ {p}) \cup {new}
  /\ leased' = leased \ {p}
  /\ idle' = Append(Without(idle, p), new)
=============================================================================
