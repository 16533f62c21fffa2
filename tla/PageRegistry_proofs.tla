------------------------ MODULE PageRegistry_proofs ------------------------
(***************************************************************************)
(* Proofs about the Conversation Pages: whatever the number of Pages,      *)
(* Conversations and direct users, and whatever fails, no Page has two     *)
(* users, no lease leaks and the gateway keeps its last Page.              *)
(***************************************************************************)
EXTENDS PageRegistry, FiniteSetTheorems, SequenceTheorems, TLAPS

Items(s) == {s[i] : i \in 1..Len(s)}
Distinct(s) == \A i, j \in 1..Len(s) : s[i] = s[j] => i = j

(* The pool never offers a Page twice, nor one that is closed.             *)
PoolInv ==
  /\ Distinct(idle) /\ Items(idle) \subseteq open
  /\ open # {}

(* Who works with a Page or is closing one knows which; who waits for one  *)
(* has none; a binding in use is marked as such, unless it is gone.  No    *)
(* two Conversations are bound to a Page.                                  *)
ActorInv ==
  /\ \A x \in Actors : held[x] # NoPage <=> at[x] \in {"using", "replacing"}
  /\ \A c \in Conversations :
       /\ at[c] \in {"opening", "evicting", "retrying"} => bound[c] = NoPage
       /\ at[c] = "using" => \/ bound[c] = NoPage
                             \/ bound[c] = held[c] /\ c \in busy
       /\ \A d \in Conversations : bound[c] # NoPage /\ bound[c] = bound[d] => c = d

Replacing(p) == \E x \in Actors : at[x] = "replacing" /\ held[x] = p

(* A Page that is being closed, or is next to be, is not in the pool and   *)
(* no direct user has it.  Once its replacement is awaited, it is not      *)
(* bound any more.                                                         *)
ClosingInv ==
  /\ Distinct(expired) /\ Items(expired) \subseteq open
  /\ \A p \in Pages : Replacing(p) \/ p \in Items(expired) =>
       p \notin Items(idle) /\ \A d \in Users : ~Uses(d, p)
  /\ \A p \in Pages : Replacing(p) => Owner(p) = {}

(* A turn whose binding is gone works with a Page that is not leased any   *)
(* more or soon will not be.                                               *)
UnboundInv ==
  failures = 0 => \A c \in Conversations :
    at[c] = "using" /\ bound[c] # held[c] /\ held[c] \in leased => Replacing(held[c])

IInv ==
  /\ TypeOK /\ PoolInv /\ ActorInv /\ ClosingInv
  /\ PagesNotShared /\ LeasesAccounted /\ UnboundInv

-----------------------------------------------------------------------------
(* Sequences without repetition.                                           *)

(* What Set.delete leaves is a sequence of the other elements.             *)
LEMMA WithoutType ==
  ASSUME NEW S, NEW s \in Seq(S), NEW e
  PROVE  Without(s, e) \in Seq(S)
<1>1. CASE \E i \in DOMAIN s : s[i] = e
  <2> DEFINE n == CHOOSE i \in DOMAIN s : s[i] = e
  <2>1. n \in 1..Len(s) /\ Len(s) \in Nat
    BY <1>1
  <2>2. Without(s, e) = [i \in 1..(Len(s) - 1) |-> s[IF i < n THEN i ELSE i + 1]]
    BY <1>1 DEF Without
  <2> HIDE DEF n
  <2>3. \A i \in 1..(Len(s) - 1) : s[IF i < n THEN i ELSE i + 1] \in S
    BY <2>1
  <2> QED
    BY <2>1, <2>2, <2>3
<1>2. CASE ~\E i \in DOMAIN s : s[i] = e
  BY <1>2 DEF Without
<1> QED
  BY <1>1, <1>2

(* Set.delete takes one element, and only that.                            *)
LEMMA WithoutItems ==
  ASSUME NEW S, NEW s \in Seq(S), NEW e, Distinct(s)
  PROVE  Distinct(Without(s, e)) /\ Items(Without(s, e)) = Items(s) \ {e}
<1>1. CASE \E i \in DOMAIN s : s[i] = e
  <2> DEFINE n == CHOOSE i \in DOMAIN s : s[i] = e
             At(i) == IF i < n THEN i ELSE i + 1
  <2>1. n \in 1..Len(s) /\ Len(s) \in Nat /\ s[n] = e
    BY <1>1
  <2>2. Without(s, e) = [i \in 1..(Len(s) - 1) |-> s[At(i)]]
    BY <1>1 DEF Without
  <2> HIDE DEF n
  <2>3. Len(Without(s, e)) = Len(s) - 1
    BY <2>1, <2>2
  <2>4. \A i \in 1..(Len(s) - 1) : At(i) \in 1..Len(s) /\ At(i) # n /\ Without(s, e)[i] = s[At(i)]
    BY <2>1, <2>2
  <2>5. \A i, j \in 1..(Len(s) - 1) : At(i) = At(j) => i = j
    BY <2>1
  <2>6. \A k \in 1..Len(s) : k # n => \E i \in 1..(Len(s) - 1) : At(i) = k
    <3> SUFFICES ASSUME NEW k \in 1..Len(s), k # n
                 PROVE  \E i \in 1..(Len(s) - 1) : At(i) = k
      OBVIOUS
    <3>1. CASE k < n
      BY <3>1, <2>1
    <3>2. CASE k > n
      <4>1. k - 1 \in 1..(Len(s) - 1) /\ At(k - 1) = k
        BY <3>2, <2>1
      <4> QED
        BY <4>1
    <3> QED
      BY <3>1, <3>2, <2>1
  <2> HIDE DEF At
  <2>7. Distinct(Without(s, e))
    BY <2>3, <2>4, <2>5 DEF Distinct
  <2>8. Items(Without(s, e)) = Items(s) \ {e}
    <3>1. \A i \in 1..(Len(s) - 1) : Without(s, e)[i] \in Items(s) \ {e}
      BY <2>1, <2>4 DEF Items, Distinct
    <3>2. \A k \in 1..Len(s) : s[k] # e => s[k] \in Items(Without(s, e))
      BY <2>1, <2>3, <2>4, <2>6 DEF Items
    <3> QED
      BY <3>1, <3>2, <2>3 DEF Items
  <2> QED
    BY <2>7, <2>8
<1>2. CASE ~\E i \in DOMAIN s : s[i] = e
  BY <1>2 DEF Without, Items
<1> QED
  BY <1>1, <1>2

(* Appending adds one element.                                             *)
LEMMA AppendItems ==
  ASSUME NEW S, NEW s \in Seq(S), NEW e \in S
  PROVE  /\ Append(s, e) \in Seq(S)
         /\ Items(Append(s, e)) = Items(s) \cup {e}
         /\ Distinct(s) /\ e \notin Items(s) => Distinct(Append(s, e))
<1>1. /\ Append(s, e) \in Seq(S) /\ Len(s) \in Nat /\ Len(Append(s, e)) = Len(s) + 1
      /\ \A i \in 1..Len(s) : Append(s, e)[i] = s[i]
      /\ Append(s, e)[Len(s) + 1] = e
  OBVIOUS
<1>2. 1..(Len(s) + 1) = 1..Len(s) \cup {Len(s) + 1}
  BY <1>1
<1> QED
  BY <1>1, <1>2 DEF Items, Distinct

(* The head is one element, the tail has the others.                       *)
LEMMA TailItems ==
  ASSUME NEW S, NEW s \in Seq(S), s # <<>>, Distinct(s)
  PROVE  /\ Head(s) \in Items(s) /\ Tail(s) \in Seq(S)
         /\ Distinct(Tail(s)) /\ Items(Tail(s)) = Items(s) \ {Head(s)}
<1>1. /\ Head(s) = s[1] /\ Tail(s) \in Seq(S) /\ Len(s) \in Nat \ {0} /\ Len(Tail(s)) = Len(s) - 1
      /\ \A i \in 1..(Len(s) - 1) : Tail(s)[i] = s[i + 1]
  BY HeadTailProperties
<1>2. \A k \in 1..Len(s) : k # 1 => k - 1 \in 1..(Len(s) - 1) /\ Tail(s)[k - 1] = s[k]
  BY <1>1
<1>3. \A i \in 1..(Len(s) - 1) : i + 1 \in 1..Len(s) /\ i + 1 # 1
  BY <1>1
<1>4. \A i, j \in 1..(Len(s) - 1) : i + 1 = j + 1 => i = j
  BY <1>1
<1>5. Distinct(Tail(s))
  BY <1>1, <1>3, <1>4 DEF Distinct
<1>6. Items(Tail(s)) = Items(s) \ {Head(s)}
  BY <1>1, <1>2, <1>3 DEF Items, Distinct
<1>7. Head(s) \in Items(s)
  BY <1>1 DEF Items
<1> QED
  BY <1>1, <1>5, <1>6, <1>7

LEMMA IdleItems == IdlePages = Items(idle) /\ IdlePages' = Items(idle)'
  BY DEF IdlePages, Items

LEMMA ScheduleType == Schedule => armed' \in BOOLEAN
  BY DEF Schedule

-----------------------------------------------------------------------------
(* One lemma for each kind of step.                                        *)

(* Nobody works with p, nobody is bound to it, nothing is going to close   *)
(* it.                                                                     *)
Free(p) ==
  /\ \A y \in Actors : held[y] # p
  /\ \A c \in Conversations : bound[c] # p
  /\ p \notin Items(expired)

(* Somebody gets a Page that is free.                                      *)
LEMMA GotStep ==
  ASSUME IInv, NEW x \in Conversations \cup Users, NEW p \in Pages,
         at[x] \in {"none", "opening", "retrying"},
         x \in Conversations => bound[x] = NoPage,
         idle' \in Seq(Pages), Distinct(idle'), Items(idle') \subseteq Items(idle) \ {p},
         open' = open \cup {p}, leased' = leased \cup {p},
         Free(p), Got(x, p), UNCHANGED <<expired, counters>>
  PROVE  IInv'
<1>1. x \in Actors /\ p # NoPage /\ (x \in Users => x \notin Conversations)
  BY RegistryAssumption DEF Actors
<1>2. /\ at' \in [Actors -> Places] /\ held' \in [Actors -> Pages \cup {NoPage}]
      /\ \A y \in Actors : at'[y] = (IF y = x THEN "using" ELSE at[y])
                        /\ held'[y] = (IF y = x THEN p ELSE held[y])
  BY <1>1 DEF Got, Goes, IInv, TypeOK, Places
<1>3. /\ bound' \in [Conversations -> Pages \cup {NoPage}] /\ busy' \subseteq Conversations
      /\ \A c \in Conversations : bound'[c] = (IF c = x THEN p ELSE bound[c])
                               /\ (c \in busy' <=> c = x \/ c \in busy)
  BY <1>1 DEF Got, registry, IInv, TypeOK
<1>4. lru' \in Seq(Conversations) /\ armed' \in BOOLEAN
  <2>1. CASE x \in Conversations
    <3>1. Without(lru, x) \in Seq(Conversations)
      BY <2>1, WithoutType DEF IInv, TypeOK
    <3>2. lru' = Append(Without(lru, x), x) /\ Schedule
      BY <2>1 DEF Got
    <3> QED
      BY <2>1, <3>1, <3>2, AppendItems, ScheduleType
  <2>2. CASE x \notin Conversations
    BY <2>2 DEF Got, registry, IInv, TypeOK
  <2> QED
    BY <2>1, <2>2
<1>5. /\ \A q \in Pages : \A y \in Actors : Uses(y, q)' <=> IF y = x THEN q = p ELSE Uses(y, q)
      /\ \A q \in Pages : Replacing(q)' <=> Replacing(q)
      /\ ~Replacing(p) /\ \A y \in Actors : ~Uses(y, p)
  BY <1>1, <1>2 DEF Uses, Replacing, Free
<1>6. TypeOK'
  BY <1>2, <1>3, <1>4 DEF IInv, TypeOK, counters
<1>7. PoolInv'
  BY DEF IInv, PoolInv
<1>8. ActorInv'
  <2>1. \A y \in Actors : held'[y] # NoPage <=> at'[y] \in {"using", "replacing"}
    BY <1>1, <1>2 DEF IInv, ActorInv
  <2>2. ASSUME NEW c \in Conversations
        PROVE  /\ at'[c] \in {"opening", "evicting", "retrying"} => bound'[c] = NoPage
               /\ at'[c] = "using" => bound'[c] = NoPage \/ (bound'[c] = held'[c] /\ c \in busy')
    <3>1. c \in Actors
      BY DEF Actors
    <3>2. CASE c = x
      BY <1>2, <1>3, <3>1, <3>2
    <3>3. CASE c # x
      <4>1. at'[c] = at[c] /\ held'[c] = held[c] /\ bound'[c] = bound[c] /\ (c \in busy' <=> c \in busy)
        BY <1>2, <1>3, <3>1, <3>3
      <4>2. /\ at[c] \in {"opening", "evicting", "retrying"} => bound[c] = NoPage
            /\ at[c] = "using" => bound[c] = NoPage \/ (bound[c] = held[c] /\ c \in busy)
        BY DEF IInv, ActorInv
      <4> QED
        BY <4>1, <4>2
    <3> QED
      BY <3>2, <3>3
  <2>3. \A c, d \in Conversations : bound'[c] # NoPage /\ bound'[c] = bound'[d] => c = d
    BY <1>3 DEF IInv, ActorInv, Free
  <2> QED
    BY <2>1, <2>2, <2>3 DEF ActorInv
<1>9. ClosingInv'
  <2>1. \A q \in Pages : Replacing(q) \/ q \in Items(expired) => q # p
    BY <1>5 DEF Free
  <2>2. \A q \in Pages : Replacing(q)' => Owner(q)' = {}
    BY <1>3, <1>5, <2>1 DEF IInv, ClosingInv, Owner
  <2>3. Items(expired') = Items(expired) /\ Distinct(expired')
    BY DEF IInv, ClosingInv
  <2>4. \A d \in Users : d \in Actors
    BY DEF Actors
  <2>5. ASSUME NEW q \in Pages, Replacing(q)' \/ q \in Items(expired')
        PROVE  q \notin Items(idle') /\ \A d \in Users : ~Uses(d, q)'
    <3>1. (Replacing(q) \/ q \in Items(expired)) /\ q # p
      BY <1>5, <2>1, <2>3, <2>5
    <3> QED
      BY <1>5, <2>4, <3>1 DEF IInv, ClosingInv
  <2> QED
    BY <2>2, <2>3, <2>5 DEF IInv, ClosingInv
<1>10. PagesNotShared'
  <2> SUFFICES ASSUME NEW q \in Pages
               PROVE  /\ \A y, z \in Actors : Uses(y, q)' /\ Uses(z, q)' => y = z
                      /\ \A y \in Actors : Uses(y, q)' => q \notin Items(idle')
                      /\ \A c \in Conversations : bound'[c] = q =>
                           q \notin Items(idle') /\ \A y \in Actors \ {c} : ~Uses(y, q)'
    BY IdleItems DEF PagesNotShared, Owner
  <2>1. /\ \A y, z \in Actors : Uses(y, q) /\ Uses(z, q) => y = z
        /\ \A y \in Actors : Uses(y, q) => q \notin Items(idle)
        /\ \A c \in Conversations : bound[c] = q =>
             q \notin Items(idle) /\ \A y \in Actors \ {c} : ~Uses(y, q)
    BY IdleItems DEF IInv, PagesNotShared, Owner
  <2>2. CASE q = p
    BY <1>3, <1>5, <2>2 DEF Free
  <2>3. CASE q # p
    BY <1>1, <1>3, <1>5, <2>1, <2>3
  <2> QED
    BY <2>2, <2>3
<1>11. LeasesAccounted'
  <2>1. \A c \in Conversations : bound'[c] # NoPage => bound'[c] \in leased' \cap open'
    BY <1>3 DEF IInv, LeasesAccounted
  <2>2. held[x] = NoPage
    BY <1>1 DEF IInv, ActorInv
  <2>3. ASSUME failures = 0, NEW q \in leased'
        PROVE  (\E c \in Conversations : bound'[c] = q) \/ \E y \in Actors : held'[y] = q
    <3>1. CASE q = p
      BY <3>1, <1>1, <1>2
    <3>2. CASE q # p
      <4>1. q \in leased /\ q # NoPage
        BY <2>3, <3>2, RegistryAssumption DEF IInv, TypeOK
      <4>2. CASE \E c \in Conversations : bound[c] = q
        BY <4>1, <4>2, <1>1, <1>3
      <4>3. CASE \E y \in Actors : held[y] = q
        BY <4>1, <4>3, <2>2, <1>2
      <4> QED
        BY <2>3, <4>1, <4>2, <4>3 DEF IInv, LeasesAccounted, Owner
    <3> QED
      BY <3>1, <3>2
  <2> QED
    BY <2>1, <2>3 DEF LeasesAccounted, Owner, counters
<1>12. UnboundInv'
  <2> SUFFICES ASSUME failures = 0, NEW c \in Conversations,
                      at'[c] = "using", bound'[c] # held'[c], held'[c] \in leased'
               PROVE  \E y \in Actors : at'[y] = "replacing" /\ held'[y] = held'[c]
    BY DEF UnboundInv, Replacing, counters
  <2>1. c \in Actors /\ c # x
    BY <1>1, <1>2, <1>3 DEF Actors
  <2>2. at[c] = "using" /\ bound[c] # held[c] /\ held'[c] = held[c] /\ held[c] \in leased
    BY <1>2, <1>3, <2>1 DEF Free
  <2>3. PICK y \in Actors : at[y] = "replacing" /\ held[y] = held[c]
    BY <2>2 DEF IInv, UnboundInv, Replacing
  <2> QED
    BY <1>2, <2>2, <2>3
<1> QED
  BY <1>6, <1>7, <1>8, <1>9, <1>10, <1>11, <1>12 DEF IInv
(* What a step that gives nobody a Page does to actors and bindings, at    *)
(* most: they lose their Pages.                                            *)
ActorsLose ==
  /\ \A y \in Actors :
       /\ held'[y] # NoPage <=> at'[y] \in {"using", "replacing"}
       /\ at'[y] = "using" => at[y] = "using" /\ held'[y] = held[y]
  /\ \A c \in Conversations :
       /\ bound'[c] \in {bound[c], NoPage}
       /\ at'[c] \in {"opening", "evicting", "retrying"} => bound'[c] = NoPage
       /\ at'[c] = "using" /\ c \in busy /\ bound'[c] # NoPage => c \in busy'

(* To the pool: Pages come back to it that nobody has, or closes.  And to  *)
(* the Pages that are to be closed: they come from nobody but their owner. *)
PoolGains ==
  /\ \A q \in Items(idle') : q \notin Items(idle) =>
       /\ \A y \in Actors : held'[y] # q
       /\ \A c \in Conversations : bound'[c] # q
       /\ q \notin Items(expired')
  /\ Distinct(expired') /\ Items(expired') \subseteq open'
  /\ \A q \in Pages : Replacing(q)' \/ q \in Items(expired') =>
       \/ Replacing(q) \/ q \in Items(expired)
       \/ q \notin Items(idle) /\ \A d \in Users : Uses(d, q) => at'[d] # "using"
  /\ \A q \in Pages : Replacing(q)' => Replacing(q) \/ \A c \in Conversations : bound'[c] # q

(* To the leases: a Page that stays leased stays with its Conversation or  *)
(* is going to be closed.                                                  *)
LeasesEnd ==
  /\ leased' \subseteq leased
  /\ \A c \in Conversations : bound'[c] # NoPage => bound'[c] \in leased' \cap open'
  /\ failures' = 0 => failures = 0 /\ \A q \in leased' :
       /\ \A c \in Conversations : bound[c] = q => bound'[c] = q \/ Replacing(q)'
       /\ \A y \in Actors : held[y] = q =>
            held'[y] = q \/ (\E c \in Conversations : bound'[c] = q) \/ Replacing(q)'
       /\ Replacing(q) => Replacing(q)'

LEMMA LeaveStep ==
  ASSUME IInv, TypeOK', PoolInv', ActorsLose, PoolGains, LeasesEnd
  PROVE  IInv'
<1>1. /\ \A c \in Conversations : c \in Actors
      /\ \A d \in Users : d \in Actors
      /\ \A q \in Pages, y \in Actors : Uses(y, q)' => Uses(y, q)
  BY DEF ActorsLose, Uses, Actors
<1>2. ActorInv'
  <2>1. ASSUME NEW c \in Conversations, at'[c] = "using"
        PROVE  bound'[c] = NoPage \/ (bound'[c] = held'[c] /\ c \in busy')
    BY <2>1, <1>1 DEF ActorsLose, IInv, ActorInv
  <2>2. \A c, d \in Conversations : bound'[c] # NoPage /\ bound'[c] = bound'[d] => c = d
    BY DEF ActorsLose, IInv, ActorInv
  <2> QED
    BY <2>1, <2>2 DEF ActorsLose, ActorInv
<1>3. ClosingInv'
  <2>1. ASSUME NEW q \in Pages, Replacing(q)' \/ q \in Items(expired')
        PROVE  q \notin Items(idle') /\ \A d \in Users : ~Uses(d, q)'
    <3>1. q \notin Items(idle)
      BY <2>1 DEF PoolGains, IInv, ClosingInv
    <3>2. q \notin Items(idle')
      BY <2>1, <3>1 DEF PoolGains, Replacing
    <3>3. \A d \in Users : ~Uses(d, q)'
      BY <2>1, <1>1 DEF PoolGains, IInv, ClosingInv, Uses
    <3> QED
      BY <3>2, <3>3
  <2>2. ASSUME NEW q \in Pages, Replacing(q)'
        PROVE  Owner(q)' = {}
    <3>1. CASE Replacing(q)
      <4>1. q # NoPage /\ \A c \in Conversations : bound[c] # q
        BY <3>1, RegistryAssumption DEF IInv, ClosingInv, Owner
      <4> QED
        BY <4>1 DEF ActorsLose, Owner
    <3>2. CASE ~Replacing(q)
      BY <2>2, <3>2 DEF PoolGains, Owner
    <3> QED
      BY <3>1, <3>2
  <2> QED
    BY <2>1, <2>2 DEF PoolGains, ClosingInv
<1>4. PagesNotShared'
  <2> SUFFICES ASSUME NEW q \in Pages
               PROVE  /\ \A y, z \in Actors : Uses(y, q)' /\ Uses(z, q)' => y = z
                      /\ \A y \in Actors : Uses(y, q)' => q \notin Items(idle')
                      /\ \A c \in Conversations : bound'[c] = q =>
                           q \notin Items(idle') /\ \A y \in Actors \ {c} : ~Uses(y, q)'
    BY IdleItems DEF PagesNotShared, Owner
  <2>1. /\ \A y, z \in Actors : Uses(y, q) /\ Uses(z, q) => y = z
        /\ \A y \in Actors : Uses(y, q) => q \notin Items(idle)
        /\ \A c \in Conversations : bound[c] = q =>
             q \notin Items(idle) /\ \A y \in Actors \ {c} : ~Uses(y, q)
    BY IdleItems DEF IInv, PagesNotShared, Owner
  <2>2. q # NoPage /\ \A c \in Conversations : bound'[c] = q => bound[c] = q
    BY RegistryAssumption DEF ActorsLose
  <2>3. q \in Items(idle') =>
          \/ q \in Items(idle)
          \/ (\A y \in Actors : ~Uses(y, q)') /\ \A c \in Conversations : bound'[c] # q
    BY DEF PoolGains, Uses
  <2> QED
    BY <1>1, <2>1, <2>2, <2>3
<1>5. LeasesAccounted'
  <2>1. ASSUME failures' = 0, NEW q \in leased'
        PROVE  (\E c \in Conversations : bound'[c] = q) \/ \E y \in Actors : held'[y] = q
    <3>1. (\E c \in Conversations : bound[c] = q) \/ \E y \in Actors : held[y] = q
      BY <2>1 DEF LeasesEnd, IInv, LeasesAccounted, Owner
    <3> QED
      BY <2>1, <3>1 DEF LeasesEnd, Replacing
  <2> QED
    BY <2>1 DEF LeasesEnd, LeasesAccounted, Owner
<1>6. UnboundInv'
  <2> SUFFICES ASSUME failures' = 0, NEW c \in Conversations,
                      at'[c] = "using", bound'[c] # held'[c], held'[c] \in leased'
               PROVE  Replacing(held[c])' /\ held'[c] = held[c]
    BY DEF UnboundInv, Replacing
  <2>1. at[c] = "using" /\ held'[c] = held[c] /\ held[c] \in leased
    BY <1>1 DEF ActorsLose, LeasesEnd
  <2>2. CASE bound[c] = held[c]
    BY <2>1, <2>2 DEF LeasesEnd
  <2>3. CASE bound[c] # held[c]
    BY <2>1, <2>3 DEF LeasesEnd, IInv, UnboundInv
  <2> QED
    BY <2>1, <2>2, <2>3
<1> QED
  BY <1>2, <1>3, <1>4, <1>5, <1>6 DEF IInv
LEMMA GoesTo ==
  ASSUME TypeOK, NEW x \in Actors, NEW place \in Places, NEW p \in Pages \cup {NoPage}, Goes(x, place, p)
  PROVE  /\ at' \in [Actors -> Places] /\ held' \in [Actors -> Pages \cup {NoPage}]
         /\ \A y \in Actors : at'[y] = (IF y = x THEN place ELSE at[y])
                           /\ held'[y] = (IF y = x THEN p ELSE held[y])
  BY DEF TypeOK, Goes

LEMMA Unbinds ==
  ASSUME TypeOK, NEW p \in Pages, Unbind(p)
  PROVE  /\ bound' \in [Conversations -> Pages \cup {NoPage}] /\ busy' \subseteq Conversations
         /\ lru' \in Seq(Conversations)
         /\ \A c \in Conversations : bound'[c] = (IF bound[c] = p THEN NoPage ELSE bound[c])
                                  /\ (c \in busy' <=> c \in busy /\ bound[c] # p)
<1>1. lru' \in Seq(Conversations)
  <2>1. CASE Owner(p) = {}
    BY <2>1 DEF Unbind, TypeOK
  <2>2. CASE Owner(p) # {}
    <3>1. \E c \in Conversations : lru' = Without(lru, c)
      BY <2>2 DEF Unbind, Owner
    <3> QED
      BY <3>1, WithoutType DEF TypeOK
  <2> QED
    BY <2>1, <2>2
<1> QED
  BY <1>1 DEF Unbind, Owner, TypeOK

(* An actor that has no Page goes on, or gives up.                         *)
LEMMA WaitStep ==
  ASSUME IInv, NEW x \in Actors, NEW place \in {"none", "opening", "evicting"},
         at[x] \notin {"using", "replacing"},
         x \in Conversations => place = "none" \/ bound[x] = NoPage,
         Goes(x, place, NoPage), UNCHANGED <<pool, registry, expired>>,
         armed' \in BOOLEAN, lost' \in Nat, failures' \in Nat, failures' = 0 => failures = 0
  PROVE  IInv'
<1>1. /\ at' \in [Actors -> Places] /\ held' \in [Actors -> Pages \cup {NoPage}]
      /\ \A y \in Actors : at'[y] = (IF y = x THEN place ELSE at[y])
                        /\ held'[y] = (IF y = x THEN NoPage ELSE held[y])
  BY GoesTo DEF IInv, Places
<1>2. /\ held[x] = NoPage
      /\ \A q \in Pages : Replacing(q)' <=> Replacing(q)
      /\ \A y \in Actors : held'[y] = held[y]
  BY <1>1, RegistryAssumption DEF IInv, ActorInv, Replacing
<1>3. TypeOK' /\ PoolInv'
  BY <1>1 DEF IInv, TypeOK, PoolInv, pool, registry
<1>4. ActorsLose
  <2>1. \A c \in Conversations : c \in Actors
    BY DEF Actors
  <2> QED
    BY <1>1, <1>2, <2>1 DEF ActorsLose, IInv, ActorInv, registry
<1>5. PoolGains
  BY <1>2 DEF PoolGains, IInv, ClosingInv, pool, registry
<1>6. LeasesEnd
  <2>1. leased' \subseteq Pages
    BY <1>3 DEF TypeOK
  <2> QED
    BY <1>2, <2>1 DEF LeasesEnd, IInv, LeasesAccounted, pool, registry
<1> QED
  BY <1>3, <1>4, <1>5, <1>6, LeaveStep

(* A turn takes the Page its Conversation is bound to.                     *)
LEMMA ReuseStep ==
  ASSUME IInv, NEW c \in Conversations, Reuse(c)
  PROVE  IInv'
<1> DEFINE p == bound[c]
<1>1. /\ c \in Actors /\ c \notin Users /\ p \in Pages /\ at[c] = "none" /\ held[c] = NoPage
      /\ \A d \in Conversations : d \in Actors
      /\ \A d \in Users : d \in Actors
  BY RegistryAssumption DEF Reuse, IInv, TypeOK, Actors, ActorInv
<1>2. /\ at' \in [Actors -> Places] /\ held' \in [Actors -> Pages \cup {NoPage}]
      /\ \A y \in Actors : at'[y] = (IF y = c THEN "using" ELSE at[y])
                        /\ held'[y] = (IF y = c THEN p ELSE held[y])
  BY <1>1, GoesTo DEF Reuse, IInv, Places
<1>3. /\ \A q \in Pages, y \in Actors : Uses(y, q)' <=> (IF y = c THEN q = p ELSE Uses(y, q))
      /\ \A q \in Pages : Replacing(q)' <=> Replacing(q)
  BY <1>1, <1>2 DEF Uses, Replacing
<1>4. TypeOK'
  BY <1>2, ScheduleType DEF Reuse, IInv, TypeOK, pool, counters
<1>5. PoolInv'
  BY DEF Reuse, pool, IInv, PoolInv
<1>6. ActorInv'
  BY <1>1, <1>2, RegistryAssumption DEF Reuse, IInv, ActorInv
<1>7. ClosingInv'
  BY <1>1, <1>3 DEF Reuse, pool, IInv, ClosingInv, Owner
<1>8. PagesNotShared'
  <2> SUFFICES ASSUME NEW q \in Pages
               PROVE  /\ \A y, z \in Actors : Uses(y, q)' /\ Uses(z, q)' => y = z
                      /\ \A y \in Actors : Uses(y, q)' => q \notin Items(idle')
                      /\ \A d \in Conversations : bound'[d] = q =>
                           q \notin Items(idle') /\ \A y \in Actors \ {d} : ~Uses(y, q)'
    BY IdleItems DEF PagesNotShared, Owner
  <2>1. /\ \A y, z \in Actors : Uses(y, q) /\ Uses(z, q) => y = z
        /\ \A y \in Actors : Uses(y, q) => q \notin Items(idle)
        /\ \A d \in Conversations : bound[d] = q =>
             q \notin Items(idle) /\ \A y \in Actors \ {d} : ~Uses(y, q)
    BY IdleItems DEF IInv, PagesNotShared, Owner
  <2>2. bound' = bound /\ idle' = idle /\ \A d \in Conversations : bound[d] = p => d = c
    BY <1>1, RegistryAssumption DEF Reuse, pool, IInv, ActorInv
  <2> QED
    BY <1>1, <1>3, <2>1, <2>2
<1>9. LeasesAccounted'
  BY <1>1, <1>2, RegistryAssumption DEF Reuse, pool, counters, IInv, LeasesAccounted, Owner, TypeOK
<1>10. UnboundInv'
  BY <1>1, <1>2 DEF Reuse, pool, counters, IInv, UnboundInv, Replacing
<1> QED
  BY <1>4, <1>5, <1>6, <1>7, <1>8, <1>9, <1>10 DEF IInv
(* A turn ends and leaves its Page bound, if it still is.                  *)
LEMMA CompleteStep ==
  ASSUME IInv, NEW c \in Conversations, Complete(c)
  PROVE  IInv'
<1>1. c \in Actors /\ at[c] = "using" /\ \A d \in Conversations : d \in Actors
  BY DEF Complete, Actors
<1>2. /\ at' \in [Actors -> Places] /\ held' \in [Actors -> Pages \cup {NoPage}]
      /\ \A y \in Actors : at'[y] = (IF y = c THEN "none" ELSE at[y])
                        /\ held'[y] = (IF y = c THEN NoPage ELSE held[y])
  BY <1>1, GoesTo DEF Complete, IInv, Places
<1>3. /\ lru' \in Seq(Conversations) /\ armed' \in BOOLEAN
      /\ bound' = bound /\ busy' \subseteq busy /\ \A d \in busy : d = c \/ d \in busy'
  <2>1. CASE bound[c] = held[c]
    <3>1. Without(lru, c) \in Seq(Conversations)
      BY WithoutType DEF IInv, TypeOK
    <3>2. lru' = Append(Without(lru, c), c) /\ Schedule
      BY <2>1 DEF Complete
    <3>3. lru' \in Seq(Conversations) /\ armed' \in BOOLEAN
      BY <3>1, <3>2, AppendItems, ScheduleType
    <3> QED
      BY <2>1, <3>3 DEF Complete
  <2>2. CASE bound[c] # held[c]
    BY <2>2 DEF Complete, registry, IInv, TypeOK
  <2> QED
    BY <2>1, <2>2
<1>4. \A q \in Pages : Replacing(q)' <=> Replacing(q)
  BY <1>1, <1>2 DEF Replacing
<1>5. TypeOK' /\ PoolInv'
  BY <1>2, <1>3 DEF Complete, IInv, TypeOK, PoolInv, pool, counters
<1>6. ActorsLose
  BY <1>1, <1>2, <1>3 DEF ActorsLose, IInv, ActorInv
<1>7. PoolGains
  BY <1>4 DEF PoolGains, Complete, IInv, ClosingInv, pool
<1>8. LeasesEnd
  <2>1. ASSUME failures' = 0, NEW q \in leased', held[c] = q
        PROVE  (\E d \in Conversations : bound'[d] = q) \/ Replacing(q)'
    <3>1. q \in Pages /\ q \in leased /\ failures = 0
      BY <2>1 DEF Complete, pool, counters, IInv, TypeOK
    <3> QED
      BY <1>1, <1>3, <1>4, <2>1, <3>1 DEF IInv, UnboundInv
  <2>2. leased' \subseteq Pages
    BY <1>5 DEF TypeOK
  <2> QED
    BY <1>1, <1>2, <1>3, <1>4, <2>1, <2>2 DEF LeasesEnd, Complete, pool, counters, IInv, LeasesAccounted
<1> QED
  BY <1>5, <1>6, <1>7, <1>8, LeaveStep

(* A direct user gives its Page back to the pool.                          *)
LEMMA ReleaseStep ==
  ASSUME IInv, NEW d \in Users, Release(d)
  PROVE  IInv'
<1> DEFINE p == held[d]
<1>1. /\ d \in Actors /\ d \notin Conversations /\ at[d] = "using" /\ p \in Pages
      /\ \A c \in Conversations : c \in Actors
  BY RegistryAssumption DEF Release, Actors, IInv, TypeOK, ActorInv
<1>2. /\ at' \in [Actors -> Places] /\ held' \in [Actors -> Pages \cup {NoPage}]
      /\ \A y \in Actors : at'[y] = (IF y = d THEN "none" ELSE at[y])
                        /\ held'[y] = (IF y = d THEN NoPage ELSE held[y])
  BY <1>1, GoesTo DEF Release, IInv, Places
<1>3. /\ Uses(d, p) /\ p \notin Items(idle) /\ ~Replacing(p) /\ p \notin Items(expired)
      /\ \A c \in Conversations : bound[c] # p
      /\ \A y \in Actors : held[y] = p => y = d
  <2>1. Uses(d, p)
    BY <1>1 DEF Uses
  <2>2. p \notin Items(idle) /\ ~Replacing(p) /\ p \notin Items(expired)
    BY <1>1, <2>1, IdleItems DEF IInv, PagesNotShared, ClosingInv
  <2>3. \A c \in Conversations : bound[c] # p
    BY <1>1, <2>1 DEF IInv, PagesNotShared, Owner
  <2>4. \A y \in Actors : held[y] = p => y = d
    BY <1>1, <2>1, <2>2, RegistryAssumption DEF IInv, PagesNotShared, ActorInv, Uses, Replacing
  <2> QED
    BY <2>1, <2>2, <2>3, <2>4
<1>4. \A q \in Pages : Replacing(q)' <=> Replacing(q)
  BY <1>1, <1>2 DEF Replacing
<1>5. idle' \in Seq(Pages) /\ Distinct(idle') /\ Items(idle') \subseteq open /\ Items(idle') \subseteq Items(idle) \cup {p}
  BY <1>1, <1>3, AppendItems DEF Release, ReleasePage, IInv, PoolInv, TypeOK
<1>6. TypeOK' /\ PoolInv'
  BY <1>2, <1>5 DEF Release, ReleasePage, IInv, TypeOK, PoolInv, registry, timer, counters
<1>7. ActorsLose
  BY <1>1, <1>2 DEF ActorsLose, Release, registry, IInv, ActorInv
<1>8. PoolGains
  <2>1. expired' = expired /\ bound' = bound /\ open' = open
    BY DEF Release, ReleasePage, registry, timer
  <2>2. \A q \in Items(idle') : q \notin Items(idle) =>
          /\ \A y \in Actors : held'[y] # q
          /\ \A c \in Conversations : bound'[c] # q
          /\ q \notin Items(expired')
    BY <1>1, <1>2, <1>3, <1>5, <2>1, RegistryAssumption
  <2> QED
    BY <1>4, <2>1, <2>2 DEF PoolGains, IInv, ClosingInv
<1>9. LeasesEnd
  <2>1. leased' = leased \ {p} /\ leased' \subseteq Pages
    BY DEF Release, ReleasePage, IInv, TypeOK
  <2> QED
    BY <1>1, <1>2, <1>3, <1>4, <2>1 DEF LeasesEnd, Release, ReleasePage, registry, counters, IInv, LeasesAccounted
<1> QED
  BY <1>6, <1>7, <1>8, <1>9, LeaveStep
(* The least recently used idle binding gives its Page back to the pool.   *)
LEMMA EvictStep ==
  ASSUME IInv, NEW c \in Conversations, at[c] = "evicting", NEW b \in IdleBindings,
         ReleasePage(bound[b]), Unbind(bound[b]), Schedule, expired' = Without(expired, bound[b]),
         Goes(c, "retrying", NoPage), UNCHANGED counters
  PROVE  IInv'
<1> DEFINE p == bound[b]
<1>1. /\ c \in Actors /\ b \in Conversations /\ p \in Pages /\ b \notin busy
      /\ held[c] = NoPage /\ bound[c] = NoPage
      /\ \A d \in Conversations : d \in Actors
  BY DEF IdleBindings, IsIdle, Actors, IInv, TypeOK, ActorInv
<1>2. /\ at' \in [Actors -> Places] /\ held' \in [Actors -> Pages \cup {NoPage}]
      /\ \A y \in Actors : at'[y] = (IF y = c THEN "retrying" ELSE at[y])
                        /\ held'[y] = held[y]
  BY <1>1, GoesTo DEF IInv, Places
<1>3. /\ bound' \in [Conversations -> Pages \cup {NoPage}] /\ busy' \subseteq Conversations
      /\ lru' \in Seq(Conversations)
      /\ \A d \in Conversations : bound'[d] = (IF bound[d] = p THEN NoPage ELSE bound[d])
                               /\ (d \in busy' <=> d \in busy /\ bound[d] # p)
  BY <1>1, Unbinds DEF IInv
<1>4. \A q \in Pages : Replacing(q)' <=> Replacing(q)
  BY <1>1, <1>2 DEF Replacing
<1>5. /\ p \notin Items(idle) /\ ~Replacing(p) /\ p \in leased \cap open
      /\ \A y \in Actors : held[y] # p
  <2>1. p \notin Items(idle) /\ \A y \in Actors : Uses(y, p) => y = b
    BY <1>1, IdleItems DEF IInv, PagesNotShared, Owner
  <2>2. ~Uses(b, p)
    BY <1>1, RegistryAssumption DEF IInv, ActorInv, Uses
  <2>3. ~Replacing(p) /\ p \in leased \cap open
    BY <1>1, RegistryAssumption DEF IInv, ClosingInv, LeasesAccounted, Owner
  <2>4. \A y \in Actors : held[y] # p
    BY <1>1, <2>1, <2>2, <2>3, RegistryAssumption DEF IInv, ActorInv, Uses, Replacing
  <2> QED
    BY <2>1, <2>3, <2>4
<1>6. /\ expired' \in Seq(Pages) /\ Distinct(expired') /\ Items(expired') = Items(expired) \ {p}
  BY <1>1, WithoutType, WithoutItems DEF IInv, TypeOK, ClosingInv
<1>7. idle' \in Seq(Pages) /\ Distinct(idle') /\ Items(idle') = Items(idle) \cup {p}
  BY <1>1, <1>5, AppendItems DEF ReleasePage, IInv, PoolInv, TypeOK
<1>8. TypeOK' /\ PoolInv'
  BY <1>2, <1>3, <1>5, <1>6, <1>7, ScheduleType DEF ReleasePage, IInv, TypeOK, PoolInv, counters
<1>9. ActorsLose
  <2>1. \A d \in Conversations : bound'[d] \in {bound[d], NoPage}
    BY <1>3
  <2>2. \A d \in Conversations : at'[d] = "using" /\ d \in busy /\ bound'[d] # NoPage => d \in busy'
    BY <1>3
  <2>3. \A d \in Conversations : at'[d] \in {"opening", "evicting", "retrying"} => bound'[d] = NoPage
    BY <1>1, <1>2, <1>3 DEF IInv, ActorInv
  <2>4. \A y \in Actors :
          /\ held'[y] # NoPage <=> at'[y] \in {"using", "replacing"}
          /\ at'[y] = "using" => at[y] = "using" /\ held'[y] = held[y]
    BY <1>1, <1>2 DEF IInv, ActorInv
  <2>5. ASSUME NEW d \in Conversations
        PROVE  /\ bound'[d] \in {bound[d], NoPage}
               /\ at'[d] \in {"opening", "evicting", "retrying"} => bound'[d] = NoPage
               /\ at'[d] = "using" /\ d \in busy /\ bound'[d] # NoPage => d \in busy'
    BY <2>1, <2>2, <2>3
  <2> QED
    BY <2>4, <2>5 DEF ActorsLose
<1>10. PoolGains
  <2>1. open' = open
    BY DEF ReleasePage
  <2>2. \A q \in Items(idle') : q \notin Items(idle) =>
          /\ \A y \in Actors : held'[y] # q
          /\ \A d \in Conversations : bound'[d] # q
          /\ q \notin Items(expired')
    BY <1>1, <1>2, <1>3, <1>5, <1>6, <1>7, RegistryAssumption
  <2> QED
    BY <1>4, <1>6, <2>1, <2>2 DEF PoolGains, IInv, ClosingInv
<1>11. LeasesEnd
  <2>1. leased' = leased \ {p} /\ leased' \subseteq Pages /\ open' = open /\ failures' = failures
    BY DEF ReleasePage, IInv, TypeOK, counters
  <2> QED
    BY <1>2, <1>3, <1>4, <2>1 DEF LeasesEnd, IInv, LeasesAccounted
<1> QED
  BY <1>8, <1>9, <1>10, <1>11, LeaveStep

(* A Page is closed, or its replacement is awaited, by x, which may have   *)
(* worked with it.  The Pages that are to be closed then are free of       *)
(* direct users and not in the pool.                                       *)
LEMMA CloseStep ==
  ASSUME IInv, NEW x \in Actors, NEW p \in Pages, NEW after \in {"none", "expiring"},
         CloseLease(x, p, after), at[x] # "replacing", held[x] \in {p, NoPage},
         at[x] \notin {"opening", "evicting", "retrying"},
         p \notin Items(idle), \A d \in Users \ {x} : ~Uses(d, p),
         expired' \in Seq(Pages), Distinct(expired'), Items(expired') \subseteq open',
         \A q \in Items(expired') \ Items(expired) : q \notin Items(idle) /\ \A d \in Users : ~Uses(d, q),
         armed' \in BOOLEAN, UNCHANGED counters
  PROVE  IInv'
<1> DEFINE last == IsLastPage(p)
<1>1. /\ last => Goes(x, "replacing", p) /\ UNCHANGED pool
      /\ ~last => Goes(x, after, NoPage) /\ RemovePage(p)
      /\ Unbind(p) /\ p # NoPage
      /\ \A c \in Conversations : c \in Actors
      /\ \A d \in Users : d \in Actors
  BY RegistryAssumption DEF CloseLease, Actors
<1>2. /\ at' \in [Actors -> Places] /\ held' \in [Actors -> Pages \cup {NoPage}]
      /\ \A y \in Actors :
           /\ at'[y] = (IF y = x THEN IF last THEN "replacing" ELSE after ELSE at[y])
           /\ held'[y] = (IF y = x THEN IF last THEN p ELSE NoPage ELSE held[y])
  <2>1. CASE last
    <3>1. Goes(x, "replacing", p)
      BY <2>1, <1>1
    <3> HIDE DEF last
    <3> QED
      BY <2>1, <3>1, GoesTo DEF IInv, Places
  <2>2. CASE ~last
    <3>1. Goes(x, after, NoPage)
      BY <2>2, <1>1
    <3> HIDE DEF last
    <3> QED
      BY <2>2, <3>1, GoesTo DEF IInv, Places
  <2> QED
    BY <2>1, <2>2
<1>3. /\ bound' \in [Conversations -> Pages \cup {NoPage}] /\ busy' \subseteq Conversations
      /\ lru' \in Seq(Conversations)
      /\ \A c \in Conversations : bound'[c] = (IF bound[c] = p THEN NoPage ELSE bound[c])
                               /\ (c \in busy' <=> c \in busy /\ bound[c] # p)
  BY <1>1, Unbinds DEF IInv
<1>4. /\ idle' \in Seq(Pages) /\ Distinct(idle') /\ Items(idle') = Items(idle)
      /\ open' \subseteq open /\ leased' \subseteq leased /\ open' # {}
      /\ Items(idle) \subseteq open'
      /\ last => leased' = leased /\ open' = open
      /\ ~last => leased' = leased \ {p} /\ open' = open \ {p}
  <2>1. CASE last
    BY <1>1, <2>1 DEF pool, IInv, TypeOK, PoolInv
  <2>2. CASE ~last
    <3>1. RemovePage(p) /\ open # {p} /\ open # {}
      BY <1>1, <2>2 DEF IsLastPage, IInv, PoolInv
    <3>2. Without(idle, p) \in Seq(Pages) /\ Distinct(Without(idle, p)) /\ Items(Without(idle, p)) = Items(idle) \ {p}
      BY WithoutType, WithoutItems DEF IInv, TypeOK, PoolInv
    <3> QED
      BY <2>2, <3>1, <3>2 DEF RemovePage, IInv, PoolInv
  <2> QED
    BY <2>1, <2>2
<1> HIDE DEF last
<1>5. /\ \A q \in Pages : Replacing(q) => Replacing(q)'
      /\ \A q \in Pages : Replacing(q)' => Replacing(q) \/ (last /\ q = p)
      /\ last => Replacing(p)'
  BY <1>1, <1>2 DEF Replacing
<1>6. TypeOK' /\ PoolInv'
  BY <1>2, <1>3, <1>4 DEF IInv, TypeOK, PoolInv, counters
<1>7. ActorsLose
  <2>1. \A c \in Conversations : bound'[c] \in {bound[c], NoPage}
    BY <1>3
  <2>2. \A c \in Conversations : at'[c] = "using" /\ c \in busy /\ bound'[c] # NoPage => c \in busy'
    BY <1>3
  <2>3. \A c \in Conversations : at'[c] \in {"opening", "evicting", "retrying"} => bound'[c] = NoPage
    BY <1>1, <1>2, <1>3 DEF IInv, ActorInv
  <2>4. \A y \in Actors :
          /\ held'[y] # NoPage <=> at'[y] \in {"using", "replacing"}
          /\ at'[y] = "using" => at[y] = "using" /\ held'[y] = held[y]
    BY <1>1, <1>2 DEF IInv, ActorInv
  <2>5. ASSUME NEW c \in Conversations
        PROVE  /\ bound'[c] \in {bound[c], NoPage}
               /\ at'[c] \in {"opening", "evicting", "retrying"} => bound'[c] = NoPage
               /\ at'[c] = "using" /\ c \in busy /\ bound'[c] # NoPage => c \in busy'
    BY <2>1, <2>2, <2>3
  <2> QED
    BY <2>4, <2>5 DEF ActorsLose
<1>8. PoolGains
  <2>1. ASSUME NEW q \in Pages, Replacing(q)' \/ q \in Items(expired')
        PROVE  \/ Replacing(q) \/ q \in Items(expired)
               \/ q \notin Items(idle) /\ \A d \in Users : Uses(d, q) => at'[d] # "using"
    <3>1. \A d \in Users : Uses(d, p) => at'[d] # "using"
      BY <1>1, <1>2
    <3> QED
      BY <1>5, <2>1, <3>1
  <2>2. \A q \in Pages : Replacing(q)' => Replacing(q) \/ \A c \in Conversations : bound'[c] # q
    BY <1>1, <1>3, <1>5
  <2> QED
    BY <1>4, <2>1, <2>2 DEF PoolGains
<1>9. LeasesEnd
  <2>1. \A c \in Conversations : bound'[c] # NoPage => bound'[c] \in leased' \cap open'
    BY <1>3, <1>4 DEF IInv, LeasesAccounted
  <2>2. ASSUME NEW q \in leased'
        PROVE  /\ \A c \in Conversations : bound[c] = q => bound'[c] = q \/ Replacing(q)'
               /\ \A y \in Actors : held[y] = q => held'[y] = q
               /\ Replacing(q) => Replacing(q)'
    <3>1. q \in Pages /\ q \in leased /\ (last \/ q # p) /\ q # NoPage
      BY <1>4, <2>2, RegistryAssumption DEF IInv, TypeOK
    <3> QED
      BY <1>2, <1>3, <1>5, <3>1
  <2> QED
    BY <1>4, <2>1, <2>2 DEF LeasesEnd, counters
<1> QED
  BY <1>6, <1>7, <1>8, <1>9, LeaveStep
(* The replacement of the last Page is there, idle; the Page is closed.    *)
LEMMA ReplacedStep ==
  ASSUME IInv, NEW x \in Actors, Replaced(x)
  PROVE  IInv'
<1> DEFINE p == held[x]
           after == IF x = Timer THEN "expiring" ELSE "none"
<1>1. /\ at[x] = "replacing" /\ p \in Pages /\ Replacing(p) /\ p # NoPage
      /\ bound' = bound /\ busy' = busy /\ failures' = failures
      /\ \A c \in Conversations : c \in Actors /\ bound[c] # p
  BY RegistryAssumption DEF Replaced, registry, counters, IInv, TypeOK, ActorInv, ClosingInv, Owner, Replacing, Actors
<1>2. PICK new \in FreshPages : ReplacePage(p, new)
  BY DEF Replaced
<1>3. /\ new \in Pages /\ new \notin open /\ new # p
      /\ \A y \in Actors : held[y] # new
      /\ \A c \in Conversations : bound[c] # new
  BY DEF FreshPages
<1>4. /\ at' \in [Actors -> Places] /\ held' \in [Actors -> Pages \cup {NoPage}]
      /\ \A y \in Actors : at'[y] = (IF y = x THEN after ELSE at[y])
                        /\ held'[y] = (IF y = x THEN NoPage ELSE held[y])
  BY GoesTo DEF Replaced, IInv, Places
<1>5. /\ \A q \in Pages : Replacing(q)' => Replacing(q)
      /\ \A q \in Pages : Replacing(q) => Replacing(q)' \/ q = p
      /\ ~Replacing(new) /\ p \notin Items(idle)
  BY <1>1, <1>3, <1>4 DEF Replacing, IInv, ClosingInv
<1>6. /\ expired' \in Seq(Pages) /\ Distinct(expired') /\ Items(expired') = Items(expired) \ {p}
  BY <1>1, WithoutType, WithoutItems DEF Replaced, IInv, TypeOK, ClosingInv
<1>7. /\ open' = (open \ {p}) \cup {new} /\ leased' = leased \ {p}
      /\ idle' \in Seq(Pages) /\ Distinct(idle') /\ Items(idle') = Items(idle) \cup {new}
  <2>1. Without(idle, p) \in Seq(Pages) /\ Distinct(Without(idle, p)) /\ Items(Without(idle, p)) = Items(idle)
    <3>1. Items(Without(idle, p)) = Items(idle) \ {p} /\ Distinct(Without(idle, p))
      BY WithoutItems DEF IInv, TypeOK, PoolInv
    <3>2. Items(idle) \ {p} = Items(idle)
      BY <1>5
    <3> QED
      BY <3>1, <3>2, WithoutType DEF IInv, TypeOK
  <2>2. new \notin Items(idle)
    BY <1>3 DEF IInv, PoolInv
  <2> QED
    BY <1>2, <1>3, <2>1, <2>2, AppendItems DEF ReplacePage
<1>8. TypeOK'
  BY <1>3, <1>4, <1>6, <1>7 DEF Replaced, registry, counters, IInv, TypeOK
<1>9. PoolInv'
  BY <1>5, <1>7 DEF IInv, PoolInv
<1>10. ActorsLose
  <2>1. \A y \in Actors :
          /\ held'[y] # NoPage <=> at'[y] \in {"using", "replacing"}
          /\ at'[y] = "using" => at[y] = "using" /\ held'[y] = held[y]
    BY <1>4 DEF IInv, ActorInv
  <2>2. ASSUME NEW c \in Conversations
        PROVE  at'[c] \in {"opening", "evicting", "retrying"} => bound'[c] = NoPage
    BY <1>1, <1>4 DEF IInv, ActorInv
  <2> QED
    BY <1>1, <2>1, <2>2 DEF ActorsLose
<1>11. PoolGains
  <2>1. \A q \in Items(idle') : q \notin Items(idle) =>
          /\ \A y \in Actors : held'[y] # q
          /\ \A c \in Conversations : bound'[c] # q
          /\ q \notin Items(expired')
    BY <1>1, <1>3, <1>4, <1>6, <1>7, RegistryAssumption DEF IInv, ClosingInv
  <2>2. Items(expired') \subseteq open'
    BY <1>6, <1>7 DEF IInv, ClosingInv
  <2> QED
    BY <1>5, <1>6, <2>1, <2>2 DEF PoolGains
<1>12. LeasesEnd
  <2>1. \A c \in Conversations : bound'[c] # NoPage => bound'[c] \in leased' \cap open'
    BY <1>1, <1>7 DEF IInv, LeasesAccounted
  <2>2. ASSUME NEW q \in leased'
        PROVE  /\ \A y \in Actors : held[y] = q => held'[y] = q
               /\ Replacing(q) => Replacing(q)'
    BY <1>4, <1>5, <1>7 DEF IInv, TypeOK
  <2> QED
    BY <1>1, <1>7, <2>1, <2>2 DEF LeasesEnd
<1> QED
  BY <1>8, <1>9, <1>10, <1>11, <1>12, LeaveStep

(* There is no replacement: the lease stays as it is.                      *)
LEMMA ReplaceFailsStep ==
  ASSUME IInv, NEW x \in Actors, ReplaceFails(x)
  PROVE  IInv'
<1>1. /\ at[x] = "replacing" /\ bound' = bound /\ busy' = busy /\ idle' = idle /\ open' = open /\ leased' = leased
      /\ failures' \in Nat /\ failures' # 0
      /\ \A c \in Conversations : c \in Actors
  BY DEF ReplaceFails, pool, registry, IInv, TypeOK, Actors
<1>2. /\ at' \in [Actors -> Places] /\ held' \in [Actors -> Pages \cup {NoPage}]
      /\ \A y \in Actors : at'[y] = (IF y = x THEN "none" ELSE at[y])
                        /\ held'[y] = (IF y = x THEN NoPage ELSE held[y])
  BY GoesTo DEF ReplaceFails, IInv, Places
<1>3. /\ expired' \in Seq(Pages) /\ Distinct(expired') /\ Items(expired') \subseteq Items(expired)
  <2>1. CASE x = Timer
    BY <2>1 DEF ReplaceFails, Distinct, Items
  <2>2. CASE x # Timer
    BY <2>2 DEF ReplaceFails, IInv, TypeOK, ClosingInv
  <2> QED
    BY <2>1, <2>2
<1>4. \A q \in Pages : Replacing(q)' => Replacing(q)
  BY <1>2 DEF Replacing
<1>5. TypeOK'
  BY <1>1, <1>2, <1>3 DEF ReplaceFails, registry, IInv, TypeOK
<1>6. PoolInv'
  BY <1>1 DEF IInv, PoolInv
<1>7. ActorsLose
  <2>1. \A y \in Actors :
          /\ held'[y] # NoPage <=> at'[y] \in {"using", "replacing"}
          /\ at'[y] = "using" => at[y] = "using" /\ held'[y] = held[y]
    BY <1>2 DEF IInv, ActorInv
  <2>2. ASSUME NEW c \in Conversations
        PROVE  at'[c] \in {"opening", "evicting", "retrying"} => bound'[c] = NoPage
    BY <1>1, <1>2 DEF IInv, ActorInv
  <2> QED
    BY <1>1, <2>1, <2>2 DEF ActorsLose
<1>8. PoolGains
  <2>1. Items(expired') \subseteq open'
    BY <1>1, <1>3 DEF IInv, ClosingInv
  <2> QED
    BY <1>1, <1>3, <1>4, <2>1 DEF PoolGains
<1>9. LeasesEnd
  BY <1>1 DEF LeasesEnd, IInv, LeasesAccounted
<1> QED
  BY <1>5, <1>6, <1>7, <1>8, <1>9, LeaveStep

(* A Page is closed from outside, and it was not the last one.             *)
LEMMA LostStep ==
  ASSUME IInv, NEW p \in Pages, PageLost(p)
  PROVE  IInv'
<1>1. /\ p # NoPage /\ at' = at /\ held' = held /\ failures' = failures
      /\ open' = open \ {p} /\ leased' = leased \ {p} /\ open # {p} /\ Unbind(p)
  BY RegistryAssumption DEF PageLost, RemovePage
<1>2. /\ bound' \in [Conversations -> Pages \cup {NoPage}] /\ busy' \subseteq Conversations
      /\ lru' \in Seq(Conversations)
      /\ \A c \in Conversations : bound'[c] = (IF bound[c] = p THEN NoPage ELSE bound[c])
                               /\ (c \in busy' <=> c \in busy /\ bound[c] # p)
  BY <1>1, Unbinds DEF IInv
<1>3. /\ expired' \in Seq(Pages) /\ Distinct(expired') /\ Items(expired') = Items(expired) \ {p}
  BY WithoutType, WithoutItems DEF PageLost, IInv, TypeOK, ClosingInv
<1>4. /\ idle' \in Seq(Pages) /\ Distinct(idle') /\ Items(idle') = Items(idle) \ {p}
  BY WithoutType, WithoutItems DEF PageLost, RemovePage, IInv, TypeOK, PoolInv
<1>5. \A q \in Pages : Replacing(q)' <=> Replacing(q)
  BY <1>1 DEF Replacing
<1>6. TypeOK'
  BY <1>1, <1>2, <1>3, <1>4 DEF PageLost, IInv, TypeOK
<1>7. PoolInv'
  BY <1>1, <1>4 DEF IInv, PoolInv
<1>8. ActorsLose
  <2>1. ASSUME NEW c \in Conversations
        PROVE  /\ bound'[c] \in {bound[c], NoPage}
               /\ at'[c] \in {"opening", "evicting", "retrying"} => bound'[c] = NoPage
               /\ at'[c] = "using" /\ c \in busy /\ bound'[c] # NoPage => c \in busy'
    BY <1>1, <1>2 DEF IInv, ActorInv
  <2> QED
    BY <1>1, <2>1 DEF ActorsLose, IInv, ActorInv
<1>9. PoolGains
  <2>1. Items(expired') \subseteq open'
    BY <1>1, <1>3 DEF IInv, ClosingInv
  <2> QED
    BY <1>3, <1>4, <1>5, <2>1 DEF PoolGains
<1>10. LeasesEnd
  <2>1. \A c \in Conversations : bound'[c] # NoPage => bound'[c] \in leased' \cap open'
    BY <1>1, <1>2 DEF IInv, LeasesAccounted
  <2>2. ASSUME NEW q \in leased'
        PROVE  /\ \A c \in Conversations : bound[c] = q => bound'[c] = q
               /\ \A y \in Actors : held[y] = q => held'[y] = q
               /\ Replacing(q) => Replacing(q)'
    BY <1>1, <1>2, <1>5 DEF IInv, TypeOK
  <2> QED
    BY <1>1, <2>1, <2>2 DEF LeasesEnd
<1> QED
  BY <1>6, <1>7, <1>8, <1>9, <1>10, LeaveStep
(* A turn or a direct use fails.                                           *)
LEMMA FailStep ==
  ASSUME IInv, NEW x \in Conversations \cup Users, Fail(x)
  PROVE  IInv'
<1> DEFINE p == held[x]
<1>1. x \in Actors /\ at[x] = "using" /\ p \in Pages /\ Uses(x, p) /\ \A d \in Users : d \in Actors
  BY DEF Fail, Actors, IInv, TypeOK, ActorInv, Uses
<1>2. p \notin Items(idle) /\ \A d \in Users \ {x} : ~Uses(d, p)
  BY <1>1, IdleItems DEF IInv, PagesNotShared
<1>3. /\ Without(expired, p) \in Seq(Pages) /\ Distinct(Without(expired, p))
      /\ Items(Without(expired, p)) = Items(expired) \ {p}
  BY WithoutType, WithoutItems DEF IInv, TypeOK, ClosingInv
<1>4. /\ expired' \in Seq(Pages) /\ Distinct(expired') /\ Items(expired') \subseteq open'
      /\ Items(expired') \subseteq Items(expired)
  <2>1. CASE IsLastPage(p)
    BY <2>1 DEF Fail, CloseLease, pool, IInv, TypeOK, ClosingInv
  <2>2. CASE ~IsLastPage(p)
    BY <1>3, <2>2 DEF Fail, CloseLease, RemovePage, IInv, ClosingInv
  <2> QED
    BY <2>1, <2>2
<1>5. armed' \in BOOLEAN
  <2>1. CASE x \in Conversations
    BY <2>1, ScheduleType DEF Fail
  <2>2. CASE x \notin Conversations
    BY <2>2 DEF Fail, IInv, TypeOK
  <2> QED
    BY <2>1, <2>2
<1>6. CloseLease(x, p, "none") /\ UNCHANGED counters
  BY DEF Fail
<1> HIDE DEF p
<1> QED
  BY <1>1, <1>2, <1>4, <1>5, <1>6, CloseStep DEF p

(* The timer callback closes the first of the Pages it still has to close. *)
LEMMA ExpireStep ==
  ASSUME IInv, NEW pages \in Seq(Pages), pages # <<>>, Distinct(pages), Items(pages) \subseteq open,
         \A q \in Items(pages) : q \notin Items(idle) /\ \A d \in Users : ~Uses(d, q),
         at[Timer] \in {"none", "expiring"}, Expire(pages), armed' \in BOOLEAN
  PROVE  IInv'
<1> DEFINE p == Head(pages)
<1>1. /\ p \in Items(pages) /\ Tail(pages) \in Seq(Pages)
      /\ Distinct(Tail(pages)) /\ Items(Tail(pages)) = Items(pages) \ {p}
  BY TailItems
<1>2. p \in Pages /\ Timer \in Actors /\ held[Timer] = NoPage
  <2>1. Timer \in Actors
    BY DEF Actors
  <2> QED
    BY <1>1, <2>1 DEF IInv, TypeOK, ActorInv
<1>3. /\ expired' \in Seq(Pages) /\ Distinct(expired') /\ Items(expired') \subseteq open'
      /\ Items(expired') \subseteq Items(pages)
  <2>1. CASE IsLastPage(p)
    BY <2>1 DEF Expire, CloseLease, pool
  <2>2. CASE ~IsLastPage(p)
    BY <1>1, <2>2 DEF Expire, CloseLease, RemovePage
  <2> QED
    BY <2>1, <2>2
<1>4. CloseLease(Timer, p, "expiring") /\ UNCHANGED counters
  BY DEF Expire
<1> HIDE DEF p
<1> QED
  BY <1>1, <1>2, <1>3, <1>4, CloseStep

LEMMA TimerStep == IInv /\ TimerFires => IInv'
<1> SUFFICES ASSUME IInv, TimerFires
             PROVE  IInv'
  OBVIOUS
<1>1. at[Timer] = "none" /\ armed' = FALSE
  BY DEF TimerFires
<1>2. CASE UNCHANGED <<pool, registry, at, held, expired, counters>>
  <2>1. TypeOK' /\ PoolInv' /\ ActorInv'
    BY <1>1, <1>2 DEF pool, registry, counters, IInv, TypeOK, PoolInv, ActorInv
  <2>2. ClosingInv'
    BY <1>2 DEF pool, registry, IInv, ClosingInv, Replacing, Owner, Uses
  <2>3. PagesNotShared'
    BY <1>2 DEF pool, registry, IInv, PagesNotShared, IdlePages, Owner, Uses
  <2>4. LeasesAccounted'
    BY <1>2 DEF pool, registry, counters, IInv, LeasesAccounted, Owner
  <2>5. UnboundInv'
    BY <1>2 DEF pool, registry, counters, IInv, UnboundInv, Replacing
  <2> QED
    BY <2>1, <2>2, <2>3, <2>4, <2>5 DEF IInv
<1>3. ASSUME NEW n \in 1..Cardinality(IdleBindings), NEW first \in FirstByUse(IdleBindings, n),
             Expire([i \in 1..n |-> bound[first[i]]])
      PROVE  IInv'
  <2> DEFINE pages == [i \in 1..n |-> bound[first[i]]]
  <2>1. n \in Nat \ {0}
    <3>1. IsFiniteSet(IdleBindings)
      BY RegistryAssumption, FS_Subset DEF IdleBindings
    <3> QED
      BY <3>1, FS_CardinalityType
  <2>2. /\ \A i \in 1..n : first[i] \in IdleBindings
        /\ \A i, j \in 1..n : i < j => first[j] # first[i]
    <3>1. \A i \in 1..n : first[i] \in IdleBindings \ {first[j] : j \in 1..(i - 1)}
      BY DEF FirstByUse, Oldest
    <3>2. \A i, j \in 1..n : i < j => i \in 1..(j - 1)
      BY <2>1
    <3> QED
      BY <3>1, <3>2
  <2>3. \A c \in IdleBindings : c \in Conversations /\ bound[c] \in Pages /\ bound[c] # NoPage
    BY DEF IdleBindings, IsIdle, IInv, TypeOK
  <2>4. pages \in Seq(Pages) /\ Len(pages) = n /\ pages # <<>> /\ \A i \in 1..n : pages[i] = bound[first[i]]
    BY <2>1, <2>2, <2>3
  <2> HIDE DEF pages
  <2>5. Distinct(pages)
    <3>1. \A i, j \in 1..n : pages[i] = pages[j] => first[i] = first[j]
      BY <2>2, <2>3, <2>4 DEF IInv, ActorInv
    <3>2. \A i, j \in 1..n : i < j \/ j < i \/ i = j
      BY <2>1
    <3> QED
      BY <2>2, <2>4, <3>1, <3>2 DEF Distinct
  <2>6. \A q \in Items(pages) : q \in Pages /\ \E c \in Conversations : bound[c] = q
    BY <2>2, <2>3, <2>4 DEF Items
  <2>7. \A d \in Users : d \in Actors /\ d \notin Conversations
    BY RegistryAssumption DEF Actors
  <2>8. /\ Items(pages) \subseteq open
        /\ \A q \in Items(pages) : q \notin Items(idle) /\ \A d \in Users : ~Uses(d, q)
    BY <2>6, <2>7, IdleItems, RegistryAssumption DEF IInv, LeasesAccounted, PagesNotShared, Owner
  <2>9. Expire(pages)
    BY <1>3 DEF pages
  <2> QED
    BY <1>1, <2>4, <2>5, <2>8, <2>9, ExpireStep
<1> QED
  BY <1>2, <1>3 DEF TimerFires

LEMMA ExpireNextStep == IInv /\ ExpireNext => IInv'
<1> SUFFICES ASSUME IInv, ExpireNext
             PROVE  IInv'
  OBVIOUS
<1>1. at[Timer] = "expiring" /\ Timer \in Actors /\ Timer \notin Conversations
  BY RegistryAssumption DEF ExpireNext, Actors
<1>2. CASE expired # <<>> /\ Expire(expired) /\ UNCHANGED armed
  <2>1. \A q \in Items(expired) : q \notin Items(idle) /\ \A d \in Users : ~Uses(d, q)
    BY DEF IInv, TypeOK, ClosingInv
  <2> QED
    BY <1>1, <1>2, <2>1, ExpireStep DEF IInv, TypeOK, ClosingInv
<1>3. CASE Goes(Timer, "none", NoPage) /\ UNCHANGED <<pool, registry, expired, counters>> /\ Schedule
  BY <1>1, <1>3, WaitStep, ScheduleType DEF counters, IInv, TypeOK
<1> QED
  BY <1>2, <1>3 DEF ExpireNext
(* A Page from the pool, or waiting for one.                               *)
LEMMA TryStep ==
  ASSUME IInv, NEW x \in Conversations \cup Users, NEW otherwise \in {"none", "evicting"},
         at[x] \in {"none", "retrying"}, x \in Conversations => bound[x] = NoPage,
         TryPool(x, otherwise), UNCHANGED <<expired, counters>>
  PROVE  IInv'
<1>1. x \in Actors
  BY DEF Actors
<1>2. ASSUME NEW p \in Pages, TakeIdle(p), Got(x, p)
      PROVE  IInv'
  <2>1. /\ p \in Items(idle) /\ idle' \in Seq(Pages)
        /\ Distinct(idle') /\ Items(idle') = Items(idle) \ {p}
    BY <1>2, TailItems DEF TakeIdle, IInv, TypeOK, PoolInv
  <2>2. open' = open \cup {p} /\ leased' = leased \cup {p}
    BY <1>2, <2>1 DEF TakeIdle, IInv, PoolInv
  <2>3. Free(p)
    <3>1. p # NoPage /\ (\A y \in Actors : ~Uses(y, p)) /\ \A c \in Conversations : bound[c] # p
      BY <2>1, IdleItems, RegistryAssumption DEF IInv, PagesNotShared, Owner
    <3>2. ~Replacing(p) /\ p \notin Items(expired)
      BY <2>1 DEF IInv, ClosingInv
    <3> QED
      BY <3>1, <3>2 DEF Free, IInv, ActorInv, Uses, Replacing
  <2> QED
    BY <1>2, <2>1, <2>2, <2>3, GotStep
<1>3. ASSUME Goes(x, IF MayOpen THEN "opening" ELSE otherwise, NoPage), UNCHANGED <<pool, registry, armed>>
      PROVE  IInv'
  <2>1. /\ UNCHANGED <<pool, registry, expired>>
        /\ armed' \in BOOLEAN /\ lost' \in Nat /\ failures' \in Nat /\ failures' = failures
    BY <1>3 DEF counters, IInv, TypeOK
  <2>2. CASE MayOpen
    BY <1>1, <1>3, <2>1, <2>2, WaitStep
  <2>3. CASE ~MayOpen
    BY <1>1, <1>3, <2>1, <2>3, WaitStep
  <2> QED
    BY <2>2, <2>3
<1> QED
  BY <1>2, <1>3 DEF TryPool

LEMMA OpenedStep ==
  ASSUME IInv, NEW x \in Conversations \cup Users, Opened(x)
  PROVE  IInv'
<1>1. PICK p \in FreshPages : TrackLeased(p) /\ Got(x, p)
  BY DEF Opened
<1>2. p \in Pages /\ p \notin open /\ Free(p)
  BY <1>1 DEF FreshPages, Free, IInv, ClosingInv
<1>3. /\ idle' = idle /\ open' = open \cup {p} /\ leased' = leased \cup {p}
      /\ Items(idle) \subseteq Items(idle) \ {p}
  BY <1>1, <1>2 DEF TrackLeased, IInv, PoolInv
<1>4. at[x] = "opening" /\ UNCHANGED <<expired, counters>> /\ (x \in Conversations => bound[x] = NoPage)
  BY DEF Opened, IInv, ActorInv
<1>5. idle' \in Seq(Pages) /\ Distinct(idle') /\ Items(idle') \subseteq Items(idle) \ {p}
  BY <1>3 DEF IInv, TypeOK, PoolInv
<1> QED
  BY <1>1, <1>2, <1>3, <1>4, <1>5, GotStep

-----------------------------------------------------------------------------
(* The invariant.                                                          *)

LEMMA InitInv == Init => IInv
<1> SUFFICES ASSUME Init
             PROVE  IInv
  OBVIOUS
<1>1. PICK p \in Pages : open = {p} /\ idle = <<p>>
  BY DEF Init
<1>2. idle \in Seq(Pages) /\ Distinct(idle) /\ Items(idle) = {p}
  BY <1>1 DEF Distinct, Items
<1>3. expired \in Seq(Pages) /\ Distinct(expired) /\ Items(expired) = {}
  BY DEF Init, Distinct, Items
<1>4. TypeOK /\ PoolInv
  <2>1. PoolInv
    BY <1>1, <1>2 DEF PoolInv
  <2>2. lru \in Seq(Conversations) /\ at \in [Actors -> Places] /\ held \in [Actors -> Pages \cup {NoPage}]
    BY DEF Init, Places
  <2>3. bound \in [Conversations -> Pages \cup {NoPage}]
    BY DEF Init
  <2>4. /\ open \subseteq Pages /\ leased \subseteq Pages /\ busy \subseteq Conversations
        /\ armed \in BOOLEAN /\ failures \in Nat /\ lost \in Nat
    BY <1>1 DEF Init
  <2> QED
    BY <1>2, <1>3, <2>1, <2>2, <2>3, <2>4 DEF TypeOK
<1>5. /\ \A y \in Actors : at[y] = "none" /\ held[y] = NoPage
      /\ \A c \in Conversations : c \in Actors /\ bound[c] = NoPage
  BY DEF Init, Actors
<1>6. ActorInv
  BY <1>5 DEF ActorInv
<1>7. \A q \in Pages : q # NoPage /\ ~Replacing(q) /\ (\A y \in Actors : ~Uses(y, q)) /\ Owner(q) = {}
  BY <1>5, RegistryAssumption DEF Replacing, Uses, Owner
<1>8. ClosingInv
  <2>1. \A d \in Users : d \in Actors
    BY DEF Actors
  <2> QED
    BY <1>3, <1>7, <2>1 DEF ClosingInv
<1>9. PagesNotShared
  BY <1>7 DEF PagesNotShared
<1>10. LeasesAccounted /\ UnboundInv
  BY <1>5 DEF Init, LeasesAccounted, UnboundInv
<1> QED
  BY <1>4, <1>6, <1>8, <1>9, <1>10 DEF IInv

LEMMA StepInv == IInv /\ [Next]_vars => IInv'
<1> SUFFICES ASSUME IInv, [Next]_vars
             PROVE  IInv'
  OBVIOUS
<1>1. ASSUME NEW c \in Conversations, Reuse(c)
      PROVE  IInv'
  BY <1>1, ReuseStep
<1>2. ASSUME NEW c \in Conversations, Evict(c)
      PROVE  IInv'
  <2>1. c \in Actors /\ at[c] = "evicting" /\ bound[c] = NoPage /\ UNCHANGED counters
    BY <1>2 DEF Evict, Actors, IInv, ActorInv
  <2>2. CASE Goes(c, "none", NoPage) /\ UNCHANGED <<pool, registry, timer>>
    BY <2>1, <2>2, WaitStep DEF timer, counters, IInv, TypeOK
  <2>3. ASSUME NEW b \in Oldest(IdleBindings),
               ReleasePage(bound[b]), Unbind(bound[b]), Schedule, expired' = Without(expired, bound[b]),
               Goes(c, "retrying", NoPage)
        PROVE  IInv'
    <3>1. b \in IdleBindings
      BY DEF Oldest
    <3> QED
      BY <2>1, <2>3, <3>1, EvictStep
  <2> QED
    BY <1>2, <2>2, <2>3 DEF Evict
<1>3. ASSUME NEW c \in Conversations, Retry(c)
      PROVE  IInv'
  BY <1>3, TryStep DEF Retry, IInv, ActorInv
<1>4. ASSUME NEW c \in Conversations, Complete(c)
      PROVE  IInv'
  BY <1>4, CompleteStep
<1>5. ASSUME NEW d \in Users, Release(d)
      PROVE  IInv'
  BY <1>5, ReleaseStep
<1>6. ASSUME NEW x \in Conversations \cup Users, Acquire(x)
      PROVE  IInv'
  BY <1>6, TryStep DEF Acquire
<1>7. ASSUME NEW x \in Conversations \cup Users, Opened(x)
      PROVE  IInv'
  BY <1>7, OpenedStep
<1>8. ASSUME NEW x \in Conversations \cup Users, OpenFails(x)
      PROVE  IInv'
  <2>1. /\ x \in Actors /\ at[x] = "opening" /\ Goes(x, "none", NoPage)
        /\ UNCHANGED <<pool, registry, expired>>
        /\ armed' \in BOOLEAN /\ lost' \in Nat /\ failures' \in Nat /\ failures' # 0
    BY <1>8 DEF OpenFails, Actors, timer, IInv, TypeOK
  <2> QED
    BY <2>1, WaitStep
<1>9. ASSUME NEW x \in Conversations \cup Users, Fail(x)
      PROVE  IInv'
  BY <1>9, FailStep
<1>10. ASSUME NEW x \in Actors, Replaced(x)
       PROVE  IInv'
  BY <1>10, ReplacedStep
<1>11. ASSUME NEW x \in Actors, ReplaceFails(x)
       PROVE  IInv'
  BY <1>11, ReplaceFailsStep
<1>12. CASE TimerFires
  BY <1>12, TimerStep
<1>13. CASE ExpireNext
  BY <1>13, ExpireNextStep
<1>14. ASSUME NEW p \in Pages, PageLost(p)
       PROVE  IInv'
  BY <1>14, LostStep
<1>15. CASE UNCHANGED vars
  <2>1. TypeOK' /\ PoolInv' /\ ActorInv'
    BY <1>15 DEF vars, IInv, TypeOK, PoolInv, ActorInv
  <2>2. ClosingInv' /\ UnboundInv'
    BY <1>15 DEF vars, IInv, ClosingInv, UnboundInv, Replacing, Owner, Uses
  <2>3. PagesNotShared' /\ LeasesAccounted'
    BY <1>15 DEF vars, IInv, PagesNotShared, LeasesAccounted, IdlePages, Owner, Uses
  <2> QED
    BY <2>1, <2>2, <2>3 DEF IInv
<1> QED
  BY <1>1, <1>2, <1>3, <1>4, <1>5, <1>6, <1>7, <1>8, <1>9, <1>10, <1>11, <1>12, <1>13, <1>14, <1>15 DEF Next

LEMMA PagesInv == Spec => []IInv
  BY InitInv, StepInv, PTL DEF Spec

(* Types, for any Pages, Conversations and direct users.                   *)
THEOREM PagesTypeCorrect == Spec => []TypeOK
<1>1. IInv => TypeOK
  BY DEF IInv
<1> QED
  BY <1>1, PagesInv, PTL

(* No Page is used by two at a time, offered to others while it is used or *)
(* bound, or used by one while it is bound to another Conversation,        *)
(* whatever expires, fails or is closed meanwhile.                         *)
THEOREM NoPageShared == Spec => []PagesNotShared
<1>1. IInv => PagesNotShared
  BY DEF IInv
<1> QED
  BY <1>1, PagesInv, PTL

(* Every binding has its lease, and every leased Page has somebody who     *)
(* gives it back, until opening a replacement has failed.                  *)
THEOREM NoLeaseLeaks == Spec => []LeasesAccounted
<1>1. IInv => LeasesAccounted
  BY DEF IInv
<1> QED
  BY <1>1, PagesInv, PTL

(* The gateway never closes its last Page itself: it opens another one     *)
(* first, whoever else is opening or closing Pages then.                   *)
THEOREM LastPageStays == Spec => KeepsLastPage
<1>1. IInv' => open' # {}
  BY DEF IInv, PoolInv
<1>2. IInv /\ [Next]_vars => [open' = {} => lost' # lost]_vars
  BY <1>1, StepInv
<1> QED
  BY <1>2, PagesInv, PTL DEF Spec, KeepsLastPage
=============================================================================
