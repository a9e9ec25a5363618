----------------------------- MODULE ScdProofs -----------------------------
(* What Scd promises for any number of sessions: the application in the     *)
(* lock table is the one that every session uses, its references are        *)
(* counted, and none is lost or used after it was freed.                    *)
(*                                                                          *)
(* Core says it of a table and the applications that the sessions use, so   *)
(* that there is one lemma for each call into app.c.  Places adds what the  *)
(* sessions know where they wait: it makes the last user of an application  *)
(* find the reader free, and a card be read only when none is in use.       *)
EXTENDS Scd, FiniteSetTheorems, TLAPS

UsersIn(use, a) == {s \in Session : use[s] = a}

Core(t, use) ==
  /\ t \in Table
  /\ use \in [Session -> App \cup {NoApp}]
  /\ \A s \in Session : use[s] \in {NoApp, t.active}
  /\ \A a \in App : t.ctx[a].ref = Cardinality(UsersIn(use, a))
  /\ t.active # NoApp => \E s \in Session : use[s] = t.active
  /\ \A a \in App : t.ctx[a] # Free <=> a \in {t.active, t.last}
  /\ t.active = NoApp \/ t.last = NoApp
  /\ t.last # NoApp => ~ t.ctx[t.last].noReuse

Use == [s \in Session |-> ctrl[s].app]

Places ==
  /\ \A s \in Session :
       /\ pc[s] \in {"work", "busy"} => ctrl[s].app # NoApp
       /\ pc[s] \in {"select", "probe", "renotify", "status"} => ctrl[s].app = NoApp
       /\ pc[s] = "probe" => tab.active = NoApp /\ tab.last = NoApp
       /\ s \notin sessions => ctrl[s].app = NoApp /\ pc[s] = "idle"
  /\ \A s, u \in Session :
       (pc[s] \in {"probe", "busy"} /\ pc[u] \in {"probe", "busy"}) => s = u

IInv == TypeOK /\ Core(tab, Use) /\ Places

-----------------------------------------------------------------------------
\* Counting and the contexts.
LEMMA UsersFinite ==
  ASSUME NEW use, NEW a
  PROVE  IsFiniteSet(UsersIn(use, a)) /\ Cardinality(UsersIn(use, a)) \in Nat
  BY ScdAssumption, FS_Subset, FS_CardinalityType DEF UsersIn, ScdAssumption

LEMMA FreeContext == Free \in Context /\ Free.ref = 0 /\ Free.card = NoCard
  BY DEF Free, Context

LEMMA InUse ==
  ASSUME NEW x \in Context, x # Free
  PROVE  x \in [ref : Nat, noReuse : BOOLEAN, card : Card]
  BY DEF Context

LEMMA Recount ==
  ASSUME NEW x \in Context, x # Free, NEW n \in Nat
  PROVE  /\ [x EXCEPT !.ref = n] \in Context /\ [x EXCEPT !.ref = n] # Free
         /\ [x EXCEPT !.ref = n].ref = n
         /\ [x EXCEPT !.ref = n].noReuse = x.noReuse
<1>1. x \in [ref : Nat, noReuse : BOOLEAN, card : Card]
  BY InUse
<1> DEFINE y == [x EXCEPT !.ref = n]
<1>2. y \in [ref : Nat, noReuse : BOOLEAN, card : Card]
  BY <1>1
<1>3. y.ref = n /\ y.noReuse = x.noReuse /\ y.card \in Card
  BY <1>1
<1> HIDE DEF y
<1>4. y # Free
  BY <1>3, FreeContext, ScdAssumption DEF ScdAssumption
<1>5. y \in Context
  BY <1>2 DEF Context
<1> QED
  BY <1>3, <1>4, <1>5 DEF y

LEMMA Remark ==
  ASSUME NEW x \in Context, x # Free
  PROVE  /\ [x EXCEPT !.noReuse = TRUE] \in Context
         /\ [x EXCEPT !.noReuse = TRUE] # Free
         /\ [x EXCEPT !.noReuse = TRUE].ref = x.ref
<1>1. x \in [ref : Nat, noReuse : BOOLEAN, card : Card]
  BY InUse
<1> DEFINE y == [x EXCEPT !.noReuse = TRUE]
<1>2. y \in [ref : Nat, noReuse : BOOLEAN, card : Card]
  BY <1>1
<1>3. y.ref = x.ref /\ y.card \in Card
  BY <1>1
<1> HIDE DEF y
<1>4. y # Free
  BY <1>3, FreeContext, ScdAssumption DEF ScdAssumption
<1>5. y \in Context
  BY <1>2 DEF Context
<1> QED
  BY <1>3, <1>4, <1>5 DEF y

\* One user more or less: session s uses x from now on.
Assignment == [Session -> App \cup {NoApp}]
Moved(use, s, x) == [use EXCEPT ![s] = x]

LEMMA OneLess ==
  ASSUME NEW use \in Assignment, NEW s \in Session,
         NEW a \in App, use[s] = a
  PROVE  /\ Moved(use, s, NoApp) \in Assignment
         /\ Cardinality(UsersIn(Moved(use, s, NoApp), a)) = Cardinality(UsersIn(use, a)) - 1
         /\ \A b \in App \ {a} : UsersIn(Moved(use, s, NoApp), b) = UsersIn(use, b)
<1> DEFINE v == Moved(use, s, NoApp)
<1>0. v = [use EXCEPT ![s] = NoApp]
  BY DEF Moved
<1> HIDE DEF v
<1>4. v \in Assignment
  BY <1>0 DEF Assignment
<1>1. UsersIn(v, a) = UsersIn(use, a) \ {s} /\ s \in UsersIn(use, a)
  <2>1. \A u \in Session : v[u] = IF u = s THEN NoApp ELSE use[u]
    BY <1>0 DEF Assignment
  <2>2. NoApp # a /\ use[s] = a /\ s \in Session
    BY ScdAssumption DEF ScdAssumption
  <2> QED BY ONLY <2>1, <2>2 DEF UsersIn
<1>2. Cardinality(UsersIn(v, a)) = Cardinality(UsersIn(use, a)) - 1
  BY ONLY <1>1, UsersFinite, ScdAssumption, FS_RemoveElement
<1>3. \A b \in App \ {a} : UsersIn(v, b) = UsersIn(use, b)
  BY <1>0, <1>4, ScdAssumption DEF UsersIn, Assignment, ScdAssumption
<1> QED
  BY <1>2, <1>3, <1>4 DEF v

LEMMA OneMore ==
  ASSUME NEW use \in Assignment, NEW s \in Session,
         NEW a \in App, use[s] = NoApp
  PROVE  /\ Moved(use, s, a) \in Assignment
         /\ Cardinality(UsersIn(Moved(use, s, a), a)) = Cardinality(UsersIn(use, a)) + 1
         /\ \A b \in App \ {a} : UsersIn(Moved(use, s, a), b) = UsersIn(use, b)
<1> DEFINE v == Moved(use, s, a)
<1>0. v = [use EXCEPT ![s] = a]
  BY DEF Moved
<1> HIDE DEF v
<1>4. v \in Assignment
  BY <1>0 DEF Assignment
<1>1. UsersIn(v, a) = UsersIn(use, a) \cup {s} /\ s \notin UsersIn(use, a)
  <2>1. \A u \in Session : v[u] = IF u = s THEN a ELSE use[u]
    BY <1>0 DEF Assignment
  <2>2. NoApp # a /\ use[s] = NoApp /\ s \in Session
    BY ScdAssumption DEF ScdAssumption
  <2> QED BY ONLY <2>1, <2>2 DEF UsersIn
<1>2. Cardinality(UsersIn(v, a)) = Cardinality(UsersIn(use, a)) + 1
  BY ONLY <1>1, UsersFinite, ScdAssumption, FS_AddElement
<1>3. \A b \in App \ {a} : UsersIn(v, b) = UsersIn(use, b)
  BY <1>0, <1>4, ScdAssumption DEF UsersIn, Assignment, ScdAssumption
<1> QED
  BY <1>2, <1>3, <1>4 DEF v

-----------------------------------------------------------------------------
\* The calls into app.c keep Core.

LEMMA CoreFacts ==
  ASSUME NEW t, NEW use, Core(t, use)
  PROVE  /\ t.ctx \in [App -> Context]
         /\ t.active \in App \cup {NoApp} /\ t.last \in App \cup {NoApp}
  BY DEF Core, Table

\* release_application
LEMMA ReleasedCore ==
  ASSUME NEW t, NEW use, Core(t, use), NEW s \in Session, use[s] # NoApp
  PROVE  /\ Core(Released(t, use[s]), [use EXCEPT ![s] = NoApp])
         /\ t.active # NoApp
<1> DEFINE a == use[s]
           v == [use EXCEPT ![s] = NoApp]
           r == Released(t, a)
<1>1. a \in App /\ a = t.active /\ t.last = NoApp /\ t.ctx[a] # Free
  BY DEF Core
<1>2. t.ctx \in [App -> Context] /\ t.ctx[a] \in Context
  BY <1>1, CoreFacts
<1>3. /\ v \in [Session -> App \cup {NoApp}]
      /\ Cardinality(UsersIn(v, a)) = Cardinality(UsersIn(use, a)) - 1
      /\ \A b \in App \ {a} : UsersIn(v, b) = UsersIn(use, b)
  <2>1. use \in Assignment
    BY DEF Core, Assignment
  <2>2. a \in App /\ use[s] = a
    BY <1>1
  <2>3. v = Moved(use, s, NoApp)
    BY DEF Moved
  <2> HIDE DEF a, v, r
  <2>4. /\ v \in Assignment
        /\ Cardinality(UsersIn(v, a)) = Cardinality(UsersIn(use, a)) - 1
        /\ \A b \in App \ {a} : UsersIn(v, b) = UsersIn(use, b)
    BY ONLY <2>1, <2>2, <2>3, OneLess, s \in Session
  <2> QED BY ONLY <2>4 DEF Assignment
<1>4. /\ t.ctx[a].ref = Cardinality(UsersIn(use, a)) /\ t.ctx[a].ref \in Nat
      /\ IsFiniteSet(UsersIn(v, a)) /\ Cardinality(UsersIn(v, a)) \in Nat
  BY <1>1, UsersFinite DEF Core
<1>5. \A u \in Session : v[u] \in {NoApp, a} /\ (v[u] = a <=> u \in UsersIn(v, a))
  BY <1>1, <1>3 DEF Core, UsersIn
<1>6. CASE t.ctx[a].ref > 1
  <2> DEFINE x == [t.ctx[a] EXCEPT !.ref = t.ctx[a].ref - 1]
  <2>1. t.ctx[a].ref - 1 \in Nat
    BY <1>4, <1>6
  <2>2. x \in Context /\ x # Free /\ x.ref = t.ctx[a].ref - 1
    BY <1>1, <1>2, <2>1, Recount
  <2>3. r = [t EXCEPT !.ctx = [t.ctx EXCEPT ![a] = x]]
    BY <1>6, <1>2 DEF Released, Core, Table
  <2> HIDE DEF x
  <2>4. r.ctx = [t.ctx EXCEPT ![a] = x] /\ r.active = a /\ r.last = NoApp /\ r \in Table
    BY <2>2, <2>3, <1>1, <1>2 DEF Core, Table
  <2>5. \A b \in App : r.ctx[b] = IF b = a THEN x ELSE t.ctx[b]
    BY <2>4, <1>2
  <2>6. \E u \in Session : v[u] = a
    <3> HIDE DEF v
    <3>1. Cardinality(UsersIn(v, a)) # 0
      BY <1>3, <1>4, <1>6
    <3>2. UsersIn(v, a) # {}
      BY <3>1, FS_EmptySet
    <3> QED BY <3>2 DEF UsersIn
  <2>7. \A b \in App : r.ctx[b].ref = Cardinality(UsersIn(v, b))
    BY <2>2, <2>5, <1>3, <1>4 DEF Core
  <2>8. \A b \in App : r.ctx[b] # Free <=> b \in {r.active, r.last}
    BY <2>2, <2>4, <2>5, <1>1 DEF Core
  <2> HIDE DEF r, v, a
  <2>9. Core(r, v)
    BY <2>4, <2>6, <2>7, <2>8, <1>3, <1>5, <1>1, ScdAssumption DEF Core, ScdAssumption
  <2> QED BY <2>9, <1>1, ScdAssumption DEF r, v, a, ScdAssumption
<1>7. CASE ~ (t.ctx[a].ref > 1)
  <2>1. UsersIn(v, a) = {} /\ t.ctx[a].ref = 1
    <3>1. s \in UsersIn(use, a)
      BY DEF UsersIn
    <3>2. t.ctx[a].ref = 1
      BY <3>1, <1>3, <1>4, <1>7
    <3> QED BY <3>2, <1>3, <1>4, FS_EmptySet
  <2>2. \A u \in Session : v[u] = NoApp
    BY <2>1, <1>5
  <2> DEFINE x == [t.ctx[a] EXCEPT !.ref = 0]
             keep == ~ t.ctx[a].noReuse
  <2>3. x \in Context /\ x # Free /\ x.ref = 0 /\ x.noReuse = t.ctx[a].noReuse
    BY <1>1, <1>2, Recount
  <2>4. /\ r.active = NoApp /\ r.last = IF keep THEN a ELSE NoApp
        /\ r.ctx = Freed([t.ctx EXCEPT ![a] = x],
                         {NoApp} \cup (IF keep THEN {} ELSE {a}))
        /\ r = [ctx |-> r.ctx, active |-> r.active, last |-> r.last]
    BY <1>7, <1>1 DEF Released
  <2> HIDE DEF x
  <2>5. \A b \in App : r.ctx[b] = IF b = a THEN (IF keep THEN x ELSE Free) ELSE t.ctx[b]
    BY <2>4, <1>2, ScdAssumption DEF Freed, ScdAssumption
  <2>6. \A b \in App \ {a} : t.ctx[b] = Free /\ UsersIn(v, b) = {}
    BY <1>1, <2>2, ScdAssumption DEF Core, UsersIn, ScdAssumption
  <2>7. r.ctx \in [App -> Context]
    BY <2>3, <2>4, <2>5, <1>2, FreeContext DEF Freed
  <2>8. r \in Table
    BY <2>4, <2>7, <1>1 DEF Table
  <2>9. \A b \in App : r.ctx[b].ref = Cardinality(UsersIn(v, b))
    BY <2>1, <2>3, <2>5, <2>6, FreeContext, FS_EmptySet
  <2>10. \A b \in App : r.ctx[b] # Free <=> b \in {r.active, r.last}
    BY <2>3, <2>4, <2>5, <2>6, <1>1, ScdAssumption DEF ScdAssumption
  <2>11. r.last # NoApp => ~ r.ctx[r.last].noReuse
    BY <2>3, <2>4, <2>5, <1>1
  <2> HIDE DEF r, v, a
  <2>12. Core(r, v)
    BY <2>2, <2>4, <2>8, <2>9, <2>10, <2>11, <1>3 DEF Core
  <2> QED BY <2>12, <1>1, ScdAssumption DEF r, v, a, ScdAssumption
<1> QED
  BY <1>6, <1>7

\* application_notify_card_reset
LEMMA NotifiedCore ==
  ASSUME NEW t, NEW use, Core(t, use)
  PROVE  Core(Notified(t), use) /\ Notified(t).active = t.active
         /\ Notified(t).last = NoApp
<1> DEFINE r == Notified(t)
<1>1. t.ctx \in [App -> Context]
  BY CoreFacts
<1>2. /\ r.active = t.active /\ r.last = NoApp
      /\ r = [ctx |-> r.ctx, active |-> r.active, last |-> r.last]
      /\ r.ctx = [a \in App |-> IF a = t.last THEN Free
                    ELSE IF a = t.active THEN [t.ctx[a] EXCEPT !.noReuse = TRUE]
                    ELSE t.ctx[a]]
  BY DEF Notified
<1>3. ASSUME NEW a \in App
      PROVE  /\ r.ctx[a] \in Context
             /\ r.ctx[a].ref = Cardinality(UsersIn(use, a))
             /\ r.ctx[a] # Free <=> a = t.active
  <2>1. CASE a = t.last
    <3>1. r.ctx[a] = Free /\ a # t.active
      BY <2>1, <1>2, ScdAssumption DEF Core, ScdAssumption
    <3>2. UsersIn(use, a) = {}
      BY <3>1, ScdAssumption DEF Core, UsersIn, ScdAssumption
    <3> QED BY <3>1, <3>2, FreeContext, FS_EmptySet
  <2>2. CASE a # t.last /\ a = t.active
    <3>1. r.ctx[a] = [t.ctx[a] EXCEPT !.noReuse = TRUE]
      BY <2>2, <1>2
    <3>2. t.ctx[a] # Free /\ t.ctx[a] \in Context
      BY <2>2, <1>1 DEF Core
    <3>3. t.ctx[a].ref = Cardinality(UsersIn(use, a))
      BY DEF Core
    <3> QED BY <2>2, <3>1, <3>2, <3>3, Remark
  <2>3. CASE a # t.last /\ a # t.active
    BY <2>3, <1>1, <1>2 DEF Core
  <2> QED BY <2>1, <2>2, <2>3
<1>4. r.ctx \in [App -> Context]
  BY <1>2, <1>3
<1>5. r \in Table
  BY <1>2, <1>4, CoreFacts DEF Table
<1> HIDE DEF r
<1>6. Core(r, use)
  BY <1>2, <1>3, <1>5, ScdAssumption DEF Core, ScdAssumption
<1> QED
  BY <1>2, <1>6 DEF r

\* select_application for an application at hand
LEMMA SharedCore ==
  ASSUME NEW t, NEW use, Core(t, use), NEW s \in Session, use[s] = NoApp,
         NEW a \in App, a = t.active \/ (t.active = NoApp /\ a = t.last)
  PROVE  Core(Shared(t, a), [use EXCEPT ![s] = a])
         /\ Shared(t, a).active = a /\ Shared(t, a).last = NoApp
<1> DEFINE v == [use EXCEPT ![s] = a]
           r == Shared(t, a)
           x == [t.ctx[a] EXCEPT !.ref = t.ctx[a].ref + 1]
<1>1. t.ctx \in [App -> Context] /\ t.ctx[a] \in Context /\ t.ctx[a] # Free
  BY CoreFacts DEF Core
<1>2. /\ v \in [Session -> App \cup {NoApp}]
      /\ Cardinality(UsersIn(v, a)) = Cardinality(UsersIn(use, a)) + 1
      /\ \A b \in App \ {a} : UsersIn(v, b) = UsersIn(use, b)
  <2>1. use \in Assignment
    BY DEF Core, Assignment
  <2>2. v = Moved(use, s, a)
    BY DEF Moved
  <2> HIDE DEF r, x, v
  <2>3. /\ v \in Assignment
        /\ Cardinality(UsersIn(v, a)) = Cardinality(UsersIn(use, a)) + 1
        /\ \A b \in App \ {a} : UsersIn(v, b) = UsersIn(use, b)
    BY ONLY <2>1, <2>2, OneMore, s \in Session, a \in App, use[s] = NoApp
  <2> QED BY ONLY <2>3 DEF Assignment
<1>3. t.ctx[a].ref = Cardinality(UsersIn(use, a)) /\ t.ctx[a].ref \in Nat
  BY UsersFinite DEF Core
<1>4. x \in Context /\ x # Free /\ x.ref = t.ctx[a].ref + 1
  BY <1>1, <1>3, Recount
<1>5. /\ r.active = a /\ r.last = NoApp /\ r.ctx = [t.ctx EXCEPT ![a] = x]
      /\ r = [ctx |-> r.ctx, active |-> r.active, last |-> r.last]
  BY <1>1, ScdAssumption DEF Shared, Core, ScdAssumption
<1> HIDE DEF x
<1>6. \A b \in App : r.ctx[b] = IF b = a THEN x ELSE t.ctx[b]
  BY <1>5, <1>1
<1>7. r \in Table
  BY <1>1, <1>4, <1>5 DEF Table
<1>8. \A u \in Session : v[u] \in {NoApp, a}
  BY ScdAssumption DEF Core, ScdAssumption
<1>9. \A b \in App : r.ctx[b].ref = Cardinality(UsersIn(v, b))
  BY <1>2, <1>3, <1>4, <1>6 DEF Core
<1>10. \A b \in App : r.ctx[b] # Free <=> b = a
  BY <1>4, <1>6, ScdAssumption DEF Core, ScdAssumption
<1>11. v[s] = a
  BY DEF Core
<1> HIDE DEF r, v
<1>12. Core(r, v)
  BY <1>2, <1>5, <1>7, <1>8, <1>9, <1>10, <1>11, ScdAssumption DEF Core, ScdAssumption
<1> QED
  BY <1>5, <1>12 DEF r, v

\* select_application for a card that it has to read: first the saved
\* application goes, then there is a new one.
LEMMA ForgottenCore ==
  ASSUME NEW t, NEW use, Core(t, use), t.active = NoApp,
         NEW r, r = [t EXCEPT !.ctx = Freed(t.ctx, {t.last}), !.last = NoApp]
  PROVE  Core(r, use) /\ r.active = NoApp /\ r.last = NoApp
<1>1. t.ctx \in [App -> Context]
  BY CoreFacts
<1>2. /\ r.active = NoApp /\ r.last = NoApp
      /\ r.ctx = [b \in App |-> IF b \in {t.last} THEN Free ELSE t.ctx[b]]
  BY DEF Freed, Core, Table
<1>3. \A b \in App : r.ctx[b] = Free
  BY <1>2, ScdAssumption DEF Core, ScdAssumption
<1>4. r \in Table
  <2>1. r.ctx \in [App -> Context]
    BY <1>2, <1>3, FreeContext
  <2>2. r = [ctx |-> r.ctx, active |-> r.active, last |-> r.last]
    BY DEF Core, Table
  <2> QED BY <1>2, <2>1, <2>2 DEF Table
<1>5. \A b \in App : UsersIn(use, b) = {}
  BY ScdAssumption DEF Core, UsersIn, ScdAssumption
<1> QED
  BY <1>2, <1>3, <1>4, <1>5, FreeContext, FS_EmptySet, ScdAssumption, SMTT(30)
  DEF Core, ScdAssumption

LEMMA FoundCore ==
  ASSUME NEW t, NEW use, Core(t, use), t.active = NoApp, t.last = NoApp,
         NEW s \in Session, use[s] = NoApp, NEW a \in App, NEW c \in Card,
         NEW r, r = [t EXCEPT !.active = a,
                       !.ctx[a] = [ref |-> 1, noReuse |-> FALSE, card |-> c]]
  PROVE  Core(r, [use EXCEPT ![s] = a]) /\ r.active = a
<1> DEFINE v == [use EXCEPT ![s] = a]
           x == [ref |-> 1, noReuse |-> FALSE, card |-> c]
<1>1. t.ctx \in [App -> Context]
  BY CoreFacts
<1>2. x \in Context /\ x # Free /\ x.ref = 1
  BY FreeContext, ScdAssumption DEF Context, ScdAssumption
<1>3. r.active = a /\ r.last = NoApp /\ r.ctx = [t.ctx EXCEPT ![a] = x]
  BY DEF Core, Table
<1> HIDE DEF x
<1>4. r \in Table
  BY <1>1, <1>2, <1>3 DEF Core, Table
<1>5. \A b \in App : t.ctx[b] = Free /\ UsersIn(use, b) = {}
  BY ScdAssumption DEF Core, UsersIn, ScdAssumption
<1>6. ASSUME NEW b \in App PROVE r.ctx[b] = IF b = a THEN x ELSE Free
  <2>1. t.ctx[b] = Free
    BY <1>5
  <2> QED BY ONLY <1>1, <1>3, <2>1, a \in App, b \in App
<1>7. /\ v \in [Session -> App \cup {NoApp}]
      /\ Cardinality(UsersIn(v, a)) = 1
      /\ \A b \in App \ {a} : UsersIn(v, b) = {}
  <2>1. use \in Assignment
    BY DEF Core, Assignment
  <2>2. Cardinality(UsersIn(use, a)) = 0
    BY <1>5, FS_EmptySet
  <2>5. v = Moved(use, s, a)
    BY DEF Moved
  <2> HIDE DEF v
  <2>3. /\ v \in Assignment
        /\ Cardinality(UsersIn(v, a)) = Cardinality(UsersIn(use, a)) + 1
        /\ \A b \in App \ {a} : UsersIn(v, b) = UsersIn(use, b)
    BY ONLY <2>1, <2>5, OneMore, s \in Session, a \in App, use[s] = NoApp
  <2>4. \A b \in App : UsersIn(use, b) = {}
    BY <1>5
  <2> QED BY ONLY <2>2, <2>3, <2>4 DEF Assignment
<1>8. \A u \in Session : v[u] \in {NoApp, a}
  BY ScdAssumption DEF Core, ScdAssumption
<1>9. v[s] = a
  BY DEF Core
<1> HIDE DEF v
<1>10. \A b \in App : r.ctx[b].ref = Cardinality(UsersIn(v, b))
  BY <1>2, <1>6, <1>7, FreeContext, FS_EmptySet
<1>11. \A b \in App : r.ctx[b] # Free <=> b = a
  BY <1>2, <1>6
<1>12. Core(r, v)
  BY <1>3, <1>4, <1>7, <1>8, <1>9, <1>10, <1>11, ScdAssumption DEF Core, ScdAssumption
<1> QED
  BY <1>3, <1>12 DEF v

-----------------------------------------------------------------------------
\* The steps of the sessions and of the ticker keep the invariant.

\* A session reads a card only when no other session has an application.
LEMMA ProbeExcludes ==
  ASSUME IInv, NEW s \in Session, NEW u \in Session, pc[u] = "probe"
  PROVE  ctrl[s].app = NoApp
  BY DEF IInv, Core, Use, Places

LEMMA DroppedCore ==
  ASSUME IInv, NEW s \in Session
  PROVE  /\ Core(Dropped(s), [Use EXCEPT ![s] = NoApp])
         /\ (\E u \in Session : pc[u] = "probe") => Dropped(s) = tab
<1>1. CASE ctrl[s].app = NoApp
  <2>1. [Use EXCEPT ![s] = NoApp] = Use
    BY <1>1 DEF Use
  <2> QED BY <1>1, <2>1 DEF Dropped, IInv
<1>2. CASE ctrl[s].app # NoApp
  <2>1. Use[s] = ctrl[s].app
    BY DEF Use
  <2>2. Dropped(s) = Released(tab, Use[s]) /\ Use[s] # NoApp
    BY <1>2, <2>1 DEF Dropped
  <2>3. Core(Dropped(s), [Use EXCEPT ![s] = NoApp])
    BY <2>2, ReleasedCore DEF IInv
  <2> QED BY <1>2, <2>3, ProbeExcludes
<1> QED
  BY <1>1, <1>2

LEMMA SetRemovedFacts ==
  ASSUME IInv, NEW S, NEW v \in BOOLEAN
  PROVE  /\ SetRemoved(S, v) \in [Session -> Ctrl]
         /\ \A s \in Session : SetRemoved(S, v)[s].app = ctrl[s].app
  BY DEF SetRemoved, IInv, TypeOK, Ctrl

\* The table stays or is notified, the sessions keep their applications.
LEMMA KeepsCore ==
  ASSUME IInv, tab' \in {tab, Notified(tab)},
         ctrl' \in [Session -> Ctrl],
         \A s \in Session : ctrl'[s].app = ctrl[s].app
  PROVE  /\ Core(tab', Use')
         /\ tab'.active = tab.active /\ tab'.last \in {tab.last, NoApp}
<1>1. Use' = Use
  BY DEF Use
<1>2. Core(tab, Use)
  BY DEF IInv
<1> QED
  BY <1>1, <1>2, NotifiedCore

LEMMA StartKeeps == ASSUME IInv, NEW s \in Session, Start(s) PROVE IInv'
<1>1. /\ ctrl' = [ctrl EXCEPT ![s] = [Blank EXCEPT !.slot = TRUE]]
      /\ sessions' = sessions \cup {s} /\ s \notin sessions
      /\ UNCHANGED <<card, news, tab, locked, pc, cmd, ticker>>
  BY DEF Start
<1>2. [Blank EXCEPT !.slot = TRUE] \in Ctrl /\ [Blank EXCEPT !.slot = TRUE].app = NoApp
  BY DEF Blank, Ctrl
<1>3. ctrl' \in [Session -> Ctrl] /\ \A u \in Session : ctrl'[u].app = ctrl[u].app
  BY <1>1, <1>2 DEF IInv, TypeOK, Places
<1>4. Core(tab', Use')
  BY <1>1, <1>3, KeepsCore
<1>5. Places'
  BY <1>1, <1>3 DEF IInv, Places
<1>6. TypeOK'
  BY <1>1, <1>3 DEF IInv, TypeOK
<1> QED
  BY <1>4, <1>5, <1>6 DEF IInv

LEMMA UseKeptKeeps == ASSUME IInv, NEW s \in Session, UseKept(s) PROVE IInv'
<1>1. /\ pc' = [pc EXCEPT ![s] = "work"] /\ cmd' = [cmd EXCEPT ![s] = "use"]
      /\ ctrl[s].app # NoApp /\ s \in sessions
      /\ UNCHANGED <<card, news, tab, locked, sessions, ctrl, ticker>>
  BY DEF UseKept, Goto, Keeps, AwaitsCommand
<1>2. TypeOK'
  BY <1>1 DEF IInv, TypeOK
<1>3. Core(tab', Use')
  BY <1>1 DEF IInv, Use
<1>4. Places'
  BY <1>1 DEF IInv, Places, TypeOK
<1> QED
  BY <1>2, <1>3, <1>4 DEF IInv

\* A session has given back its application and goes on at l.
LEMMA DropStep ==
  ASSUME IInv, NEW s \in Session, AwaitsCommand(s),
         tab' = Dropped(s) \/ (tab' = Notified(Dropped(s)) /\ ReaderFree),
         ctrl' \in [Session -> Ctrl],
         \A u \in Session : ctrl'[u].app = IF u = s THEN NoApp ELSE ctrl[u].app,
         NEW l \in {"idle", "select", "renotify", "status"},
         NEW c \in {"none", "use", "serialno", "reset", "end"},
         pc' = [pc EXCEPT ![s] = l], cmd' = [cmd EXCEPT ![s] = c],
         locked' \in {locked, None},
         UNCHANGED <<card, news, sessions, ticker>>
  PROVE  IInv'
<1>1. Use' = [Use EXCEPT ![s] = NoApp]
  BY DEF Use
<1>2. Core(Dropped(s), Use')
  BY <1>1, DroppedCore
<1>3. Core(tab', Use')
  BY <1>2, NotifiedCore
<1>4. TypeOK'
  BY <1>3 DEF IInv, TypeOK, Core
<1>5. ASSUME NEW u \in Session, pc[u] = "probe"
      PROVE  tab' = tab
  BY <1>5, DroppedCore DEF ReaderFree
<1>6. Places'
  BY <1>5 DEF IInv, Places, TypeOK, AwaitsCommand
<1> QED
  BY <1>3, <1>4, <1>6 DEF IInv

LEMMA OpenCardKeeps ==
  ASSUME IInv, NEW s \in Session, NEW c \in {"use", "serialno"}, OpenCard(s, c)
  PROVE  IInv'
<1>1. /\ AwaitsCommand(s) /\ tab' = Dropped(s)
      /\ ctrl' = [ctrl EXCEPT ![s] = [@ EXCEPT !.app = NoApp, !.marked = FALSE,
                                               !.slot = TRUE]]
      /\ pc' = [pc EXCEPT ![s] = "select"] /\ cmd' = [cmd EXCEPT ![s] = c]
      /\ UNCHANGED <<card, news, locked, sessions, ticker>>
  BY DEF OpenCard, Goto
<1> DEFINE y == [ctrl[s] EXCEPT !.app = NoApp, !.marked = FALSE, !.slot = TRUE]
<1>2. ctrl \in [Session -> Ctrl] /\ ctrl[s] \in Ctrl
  BY DEF IInv, TypeOK
<1>3. y \in Ctrl /\ y.app = NoApp
  BY <1>2 DEF Ctrl
<1>4. ctrl' = [ctrl EXCEPT ![s] = y]
  BY <1>1
<1> HIDE DEF y
<1>5. ctrl' \in [Session -> Ctrl]
      /\ \A u \in Session : ctrl'[u].app = IF u = s THEN NoApp ELSE ctrl[u].app
  BY <1>2, <1>3, <1>4
<1> QED
  BY <1>1, <1>5, DropStep

LEMMA RestartKeeps == ASSUME IInv, NEW s \in Session, Restart(s) PROVE IInv'
<1>1. /\ AwaitsCommand(s) /\ tab' = Dropped(s)
      /\ ctrl' = [ctrl EXCEPT ![s].app = NoApp]
      /\ locked' \in {locked, None}
      /\ UNCHANGED <<card, news, sessions, pc, cmd, ticker>>
  BY DEF Restart, Unlocks
<1>2. pc' = [pc EXCEPT ![s] = "idle"] /\ cmd' = [cmd EXCEPT ![s] = cmd[s]]
  BY <1>1 DEF IInv, TypeOK, AwaitsCommand
<1>3. ctrl' \in [Session -> Ctrl]
      /\ \A u \in Session : ctrl'[u].app = IF u = s THEN NoApp ELSE ctrl[u].app
  BY <1>1 DEF IInv, TypeOK, Ctrl
<1>4. cmd[s] \in {"none", "use", "serialno", "reset", "end"}
  BY DEF IInv, TypeOK
<1> QED
  BY <1>1, <1>2, <1>3, <1>4, DropStep

LEMMA ResetKeeps ==
  ASSUME IInv, NEW s \in Session, NEW c \in {"reset", "serialno", "end"}, Reset(s, c)
  PROVE  IInv'
<1>1. AwaitsCommand(s) /\ UNCHANGED <<card, news, sessions, ticker>>
  BY DEF Reset
<1>2. ctrl' \in [Session -> Ctrl]
      /\ \A u \in Session : ctrl'[u].app = IF u = s THEN NoApp ELSE ctrl[u].app
  <2>1. ctrl' = [u \in Session |->
       [ctrl[u] EXCEPT
          !.app = IF u = s THEN NoApp ELSE @,
          !.marked = @ \/ (/\ c # "end" /\ ctrl[s].app # NoApp
                           /\ u \in OnSlot(ctrl[s].slot))]]
    BY DEF Reset
  <2> DEFINE m(u) == ctrl[u].marked \/ (/\ c # "end" /\ ctrl[s].app # NoApp
                                        /\ u \in OnSlot(ctrl[s].slot))
  <2>2. \A u \in Session : m(u) \in BOOLEAN
    OBVIOUS
  <2>3. ctrl' = [u \in Session |->
       [ctrl[u] EXCEPT !.app = IF u = s THEN NoApp ELSE @, !.marked = m(u)]]
    BY <2>1
  <2> HIDE DEF m
  <2>4. \A u \in Session : ctrl[u] \in Ctrl
    BY DEF IInv, TypeOK
  <2>5. ASSUME NEW u \in Session
        PROVE  ctrl'[u] = [ctrl[u] EXCEPT !.app = IF u = s THEN NoApp ELSE @,
                                          !.marked = m(u)]
    BY <2>3
  <2>6. ASSUME NEW u \in Session
        PROVE  ctrl'[u] \in Ctrl /\ ctrl'[u].app = IF u = s THEN NoApp ELSE ctrl[u].app
    <3> DEFINE y == IF u = s THEN NoApp ELSE ctrl[u].app
    <3>1. ctrl[u] \in Ctrl /\ m(u) \in BOOLEAN
      BY <2>2, <2>4
    <3>2. y \in App \cup {NoApp}
      BY <3>1 DEF Ctrl
    <3>3. ctrl'[u] = [ctrl[u] EXCEPT !.app = y, !.marked = m(u)]
      BY <2>5, <3>1 DEF Ctrl
    <3> HIDE DEF y
    <3>4. ctrl'[u] \in Ctrl /\ ctrl'[u].app = y
      BY ONLY <3>1, <3>2, <3>3 DEF Ctrl
    <3> QED BY <3>4 DEF y
  <2>7. DOMAIN ctrl' = Session /\ ctrl' = [u \in Session |-> ctrl'[u]]
    BY <2>3
  <2> QED BY <2>6, <2>7
<1>3. CASE pc' = [pc EXCEPT ![s] = "status"] /\ cmd' = [cmd EXCEPT ![s] = c]
           /\ tab' = Dropped(s) /\ locked' \in {locked, None}
  BY <1>1, <1>2, <1>3, DropStep
<1>4. CASE pc' = [pc EXCEPT ![s] = "renotify"] /\ cmd' = [cmd EXCEPT ![s] = c]
           /\ tab' = Dropped(s) /\ locked' = locked
  BY <1>1, <1>2, <1>4, DropStep
<1> QED
  BY <1>3, <1>4 DEF Reset, Goto, Unlocks

\* A command ends, or goes on, and the sessions keep their applications.
LEMMA StayStep ==
  ASSUME IInv, NEW s \in Session,
         tab' = tab \/ (tab' = Notified(tab)
                        /\ \A u \in Session : u # s => pc[u] \notin {"probe", "busy"}),
         ctrl' \in [Session -> Ctrl],
         \A u \in Session : ctrl'[u].app = ctrl[u].app,
         NEW l, NEW c \in {"none", "use", "serialno", "reset", "end"},
         s \in sessions \/ l = "idle",
         \/ l = "idle"
         \/ l = "notify"
         \/ l \in {"select", "status"} /\ ctrl[s].app = NoApp
         \/ l = "busy" /\ ReaderFree /\ ctrl[s].app # NoApp,
         pc' = [pc EXCEPT ![s] = l], cmd' = [cmd EXCEPT ![s] = c],
         news' \in BOOLEAN, locked' \in {locked, None}, sessions' = sessions,
         UNCHANGED <<card, ticker>>
  PROVE  IInv'
<1>1. /\ Core(tab', Use')
      /\ tab'.active = tab.active /\ tab'.last \in {tab.last, NoApp}
  BY KeepsCore
<1>2. TypeOK'
  BY <1>1 DEF IInv, TypeOK, Core
<1>3. Places'
  BY <1>1 DEF IInv, Places, TypeOK, ReaderFree
<1> QED
  BY <1>1, <1>2, <1>3 DEF IInv

LEMMA NotedKeeps ==
  ASSUME IInv, NEW s \in Session,
         ConnectFails(s) \/ CardNotPresent(s) \/ Notify(s) \/ Leave(s) \/ LeaveRemoved(s)
  PROVE  IInv'
<1>1. s \in sessions
  BY DEF ConnectFails, CardNotPresent, Notify, Leave, LeaveRemoved, IInv, Places
<1>2. cmd[s] \in {"none", "use", "serialno", "reset", "end"} /\ news \in BOOLEAN
      /\ ctrl \in [Session -> Ctrl]
  BY DEF IInv, TypeOK
<1> DEFINE removed == SetRemoved(OnSlot(TRUE), TRUE)
<1>0. /\ removed \in [Session -> Ctrl]
      /\ \A u \in Session : removed[u].app = ctrl[u].app
  BY SetRemovedFacts
<1>7. (CardNotPresent(s) \/ LeaveRemoved(s)) => ctrl' = removed
  BY DEF CardNotPresent, LeaveRemoved
<1> HIDE DEF removed
<1>8. ASSUME CardNotPresent(s) \/ LeaveRemoved(s)
      PROVE  ctrl' \in [Session -> Ctrl] /\ \A u \in Session : ctrl'[u].app = ctrl[u].app
  BY <1>0, <1>7, <1>8
<1>3. CASE CardNotPresent(s)
  <2>1. UNCHANGED <<card, news, locked, sessions, ticker>>
    BY <1>3 DEF CardNotPresent
  <2>2. CASE ReaderFree
    <3>1. /\ tab' = Notified(tab)
          /\ pc' = [pc EXCEPT ![s] = "idle"] /\ cmd' = [cmd EXCEPT ![s] = "none"]
      BY <1>3, <2>2 DEF CardNotPresent, Goto
    <3>2. \A u \in Session : u # s => pc[u] \notin {"probe", "busy"}
      BY <2>2 DEF ReaderFree
    <3> QED BY <1>1, <1>2, <1>3, <1>8, <2>1, <3>1, <3>2, StayStep
  <2>3. CASE ~ReaderFree
    <3>1. /\ tab' = tab
          /\ pc' = [pc EXCEPT ![s] = "notify"] /\ cmd' = [cmd EXCEPT ![s] = cmd[s]]
      BY <1>3, <2>3 DEF CardNotPresent, Goto
    <3> QED BY <1>1, <1>2, <1>3, <1>8, <2>1, <3>1, StayStep
  <2> QED BY <2>2, <2>3
<1>4. CASE Notify(s)
  BY <1>1, <1>2, <1>4, StayStep DEF Notify, Goto, ReaderFree
<1>5. CASE ConnectFails(s) \/ Leave(s)
  BY <1>1, <1>2, <1>5, StayStep DEF ConnectFails, Leave, Goto
<1>6. CASE LeaveRemoved(s)
  <2>1. \A u \in Session : u # s => pc[u] \notin {"probe", "busy"}
    BY <1>6 DEF LeaveRemoved, IInv, Places
  <2>2. /\ tab' = Notified(tab)
        /\ pc' = [pc EXCEPT ![s] = "idle"] /\ cmd' = [cmd EXCEPT ![s] = "none"]
        /\ UNCHANGED <<card, news, locked, sessions, ticker>>
    BY <1>6 DEF LeaveRemoved, Goto
  <2> QED BY <1>1, <1>2, <1>6, <1>8, <2>1, <2>2, StayStep
<1> QED
  BY <1>3, <1>4, <1>5, <1>6

LEMMA WorkKeeps == ASSUME IInv, NEW s \in Session, Work(s) PROVE IInv'
<1>1. s \in sessions /\ ctrl[s].app # NoApp
  BY DEF Work, IInv, Places
<1>2. ctrl \in [Session -> Ctrl] /\ news \in BOOLEAN
  BY DEF IInv, TypeOK
<1> QED
  BY <1>1, <1>2, StayStep DEF Work, Goto

LEMMA RenotifyKeeps == ASSUME IInv, NEW s \in Session, Renotify(s) PROVE IInv'
<1>1. s \in sessions /\ ctrl[s].app = NoApp
  BY DEF Renotify, IInv, Places
<1>2. cmd[s] \in {"none", "use", "serialno", "reset", "end"} /\ news \in BOOLEAN
      /\ ctrl \in [Session -> Ctrl]
  BY DEF IInv, TypeOK
<1> QED
  BY <1>1, <1>2, StayStep DEF Renotify, Goto, Unlocks, ReaderFree

\* A session gets an application: one at hand, or a new one.
LEMMA GainStep ==
  ASSUME IInv, NEW s \in Session, NEW a \in App,
         pc[s] \in {"select", "probe"},
         \A u \in Session : u # s => pc[u] \notin {"probe", "busy"},
         Core(tab', [Use EXCEPT ![s] = a]),
         ctrl' = [ctrl EXCEPT ![s].app = a],
         Opened(s),
         UNCHANGED <<card, news, locked, sessions, ticker>>
  PROVE  IInv'
<1>1. ctrl' \in [Session -> Ctrl]
      /\ \A u \in Session : ctrl'[u].app = IF u = s THEN a ELSE ctrl[u].app
  BY DEF IInv, TypeOK, Ctrl
<1>2. Use' = [Use EXCEPT ![s] = a]
  BY <1>1 DEF Use
<1>3. Core(tab', Use')
  BY <1>2
<1>4. PICK l \in {"work", "idle"}, c \in {"use", "none"} :
        pc' = [pc EXCEPT ![s] = l] /\ cmd' = [cmd EXCEPT ![s] = c]
  BY DEF Opened, Goto
<1>5. TypeOK'
  BY <1>1, <1>3, <1>4 DEF IInv, TypeOK, Core
<1>6. Places'
  BY <1>1, <1>4, ScdAssumption DEF IInv, Places, TypeOK, ScdAssumption
<1> QED
  BY <1>3, <1>5, <1>6 DEF IInv

LEMMA SelectKeeps ==
  ASSUME IInv, NEW s \in Session, NEW fits \in BOOLEAN, Select(s, fits)
  PROVE  IInv'
<1>1. /\ pc[s] = "select" /\ ReaderFree
      /\ UNCHANGED <<card, news, locked, sessions, ticker>>
  BY DEF Select
<1>2. Use[s] = NoApp /\ s \in sessions /\ ctrl[s].app = NoApp /\ Core(tab, Use)
  BY <1>1 DEF IInv, Places, Use
<1>3. tab.active \in App \cup {NoApp} /\ tab.last \in App \cup {NoApp}
  BY <1>2, CoreFacts
<1>4. ASSUME NEW a \in App, a = tab.active \/ (tab.active = NoApp /\ a = tab.last),
             Share(s, a)
      PROVE  IInv'
  <2>1. Core(Shared(tab, a), [Use EXCEPT ![s] = a])
    BY <1>2, <1>4, SharedCore
  <2>2. \A u \in Session : u # s => pc[u] \notin {"probe", "busy"}
    BY <1>1 DEF ReaderFree
  <2> QED BY <1>1, <1>4, <2>1, <2>2, GainStep DEF Share
<1>5. CASE Goto(s, "idle", "none") /\ UNCHANGED <<tab, ctrl>>
  <2>1. ctrl \in [Session -> Ctrl] /\ news \in BOOLEAN
    BY DEF IInv, TypeOK
  <2> QED BY <1>1, <1>2, <1>5, <2>1, StayStep DEF Goto
<1>6. CASE /\ tab.active = NoApp
           /\ tab' = [tab EXCEPT !.ctx = Freed(tab.ctx, {tab.last}), !.last = NoApp]
           /\ Goto(s, "probe", cmd[s])
           /\ UNCHANGED ctrl
  <2>1. Core(tab', Use) /\ tab'.active = NoApp /\ tab'.last = NoApp
    BY <1>2, <1>6, ForgottenCore
  <2>2. Core(tab', Use')
    BY <1>6, <2>1 DEF Use
  <2>3. TypeOK'
    BY <1>1, <1>6, <2>2 DEF IInv, TypeOK, Core, Goto
  <2>4. Places'
    BY <1>1, <1>2, <1>6, <2>1 DEF IInv, Places, TypeOK, Goto, ReaderFree
  <2> QED BY <2>2, <2>3, <2>4 DEF IInv
<1> QED
  BY <1>3, <1>4, <1>5, <1>6 DEF Select

LEMMA FoundKeeps == ASSUME IInv, NEW s \in Session, Found(s) PROVE IInv'
<1>1. /\ pc[s] = "probe" /\ card \in Card /\ Opened(s)
      /\ UNCHANGED <<card, news, locked, sessions, ticker>>
  BY DEF Found, IInv, TypeOK
<1>2. PICK a \in App :
        /\ tab' = [tab EXCEPT !.active = a,
                     !.ctx[a] = [ref |-> 1, noReuse |-> FALSE, card |-> card]]
        /\ ctrl' = [ctrl EXCEPT ![s].app = a]
  BY DEF Found
<1>3. /\ Use[s] = NoApp /\ tab.active = NoApp /\ tab.last = NoApp /\ Core(tab, Use)
      /\ \A u \in Session : u # s => pc[u] \notin {"probe", "busy"}
  BY <1>1 DEF IInv, Places, Use
<1>4. Core(tab', [Use EXCEPT ![s] = a])
  BY <1>1, <1>2, <1>3, FoundCore
<1> QED
  BY <1>1, <1>2, <1>3, <1>4, GainStep

LEMMA ResetStatusKeeps == ASSUME IInv, NEW s \in Session, ResetStatus(s) PROVE IInv'
<1> DEFINE cleared == SetRemoved(OnSlot(ctrl[s].slot), FALSE)
<1>1. /\ cleared \in [Session -> Ctrl]
      /\ \A u \in Session : cleared[u].app = ctrl[u].app
  BY SetRemovedFacts
<1>2. /\ pc[s] = "status" /\ s \in sessions /\ ctrl[s].app = NoApp
      /\ news' \in BOOLEAN /\ UNCHANGED <<card, tab, locked, ticker>>
  BY DEF ResetStatus, IInv, Places, TypeOK
<1> HIDE DEF cleared
<1>3. CASE /\ ctrl' = [cleared EXCEPT ![s].slot = FALSE]
           /\ Goto(s, "idle", "none") /\ UNCHANGED sessions
  <2>1. ctrl' \in [Session -> Ctrl] /\ \A u \in Session : ctrl'[u].app = ctrl[u].app
    BY <1>1, <1>3 DEF Ctrl
  <2> QED BY <1>2, <1>3, <2>1, StayStep DEF Goto
<1>4. CASE /\ ctrl' = [cleared EXCEPT ![s] = [@ EXCEPT !.slot = TRUE, !.marked = FALSE]]
           /\ Goto(s, "select", "serialno") /\ UNCHANGED sessions
  <2> DEFINE y == [cleared[s] EXCEPT !.slot = TRUE, !.marked = FALSE]
  <2>1. y \in Ctrl /\ y.app = ctrl[s].app
    BY <1>1 DEF Ctrl
  <2>2. ctrl' = [cleared EXCEPT ![s] = y]
    BY <1>4
  <2> HIDE DEF y
  <2>3. ctrl' \in [Session -> Ctrl] /\ \A u \in Session : ctrl'[u].app = ctrl[u].app
    BY <1>1, <2>1, <2>2
  <2> QED BY <1>2, <1>4, <2>3, StayStep DEF Goto
<1>5. CASE /\ ctrl' = [cleared EXCEPT ![s] = Blank]
           /\ Goto(s, "idle", "none") /\ sessions' = sessions \ {s}
  <2>1. Blank \in Ctrl /\ Blank.app = NoApp
    BY DEF Blank, Ctrl
  <2>2. ctrl' \in [Session -> Ctrl] /\ \A u \in Session : ctrl'[u].app = ctrl[u].app
    BY <1>1, <1>2, <1>5, <2>1
  <2>3. Core(tab', Use')
    BY <1>2, <2>2, KeepsCore
  <2>4. TypeOK'
    BY <1>2, <1>5, <2>2 DEF IInv, TypeOK, Goto
  <2>5. Places'
    BY <1>2, <1>5, <2>2 DEF IInv, Places, TypeOK, Goto
  <2> QED BY <2>3, <2>4, <2>5 DEF IInv
<1> QED
  BY <1>3, <1>4, <1>5 DEF ResetStatus, cleared

LEMMA TickerKeeps == ASSUME IInv, Tick \/ TickNotify PROVE IInv'
<1> DEFINE removed == SetRemoved(OnSlot(TRUE), TRUE)
<1>1. /\ removed \in [Session -> Ctrl]
      /\ \A s \in Session : removed[s].app = ctrl[s].app
  BY SetRemovedFacts DEF IInv, TypeOK
<1>2. ctrl' = removed \/ ctrl' = ctrl
  BY DEF Tick, TickNotify
<1>3. /\ ctrl' \in [Session -> Ctrl]
      /\ \A s \in Session : ctrl'[s].app = ctrl[s].app
  <2> HIDE DEF removed
  <2> QED BY <1>1, <1>2 DEF IInv, TypeOK
<1>4. /\ tab' = tab \/ (tab' = Notified(tab) /\ ReaderFree)
      /\ news' \in BOOLEAN /\ ticker' \in {"idle", "notify"}
      /\ UNCHANGED <<card, locked, sessions, pc, cmd>>
  BY Zenon DEF Tick, TickNotify, IInv, TypeOK
<1>5. Core(tab', Use') /\ tab'.active = tab.active /\ tab'.last \in {tab.last, NoApp}
  BY <1>3, <1>4, KeepsCore
<1>6. TypeOK'
  BY <1>3, <1>4, <1>5 DEF IInv, TypeOK, Core
<1>7. Places'
  BY <1>3, <1>4, <1>5 DEF IInv, Places
<1> QED
  BY <1>5, <1>6, <1>7 DEF IInv

LEMMA OthersKeep ==
  ASSUME IInv,
         (\E s \in Session : Lock(s) \/ Unlock(s)) \/ Change \/ UNCHANGED vars
  PROVE  IInv'
<1>1. /\ card' \in Card \cup {NoCard} /\ news' \in BOOLEAN
      /\ locked' \in Session \cup {None}
      /\ UNCHANGED <<tab, sessions, ctrl, pc, cmd, ticker>>
  BY DEF Lock, Unlock, Change, vars, IInv, TypeOK
<1>2. TypeOK'
  BY <1>1 DEF IInv, TypeOK
<1>3. Core(tab', Use')
  BY <1>1 DEF IInv, Use
<1>4. Places'
  BY <1>1 DEF IInv, Places
<1> QED
  BY <1>2, <1>3, <1>4 DEF IInv

-----------------------------------------------------------------------------
LEMMA InitIInv == Init => IInv
<1> SUFFICES ASSUME Init PROVE IInv
  OBVIOUS
<1>1. TypeOK
  BY FreeContext DEF Init, TypeOK, Table, Blank, Ctrl
<1>2. Use = [s \in Session |-> NoApp]
  BY DEF Use, Init, Blank
<1>3. \A a \in App : UsersIn(Use, a) = {}
  BY <1>2, ScdAssumption DEF UsersIn, ScdAssumption
<1>4. Core(tab, Use)
  BY <1>1, <1>2, <1>3, FreeContext, FS_EmptySet, ScdAssumption
  DEF Init, TypeOK, Core, ScdAssumption
<1>5. Places
  BY DEF Init, Places, Blank
<1> QED
  BY <1>1, <1>4, <1>5 DEF IInv

LEMMA NextKeeps == IInv /\ [Next]_vars => IInv'
<1> SUFFICES ASSUME IInv, [Next]_vars PROVE IInv'
  OBVIOUS
<1>1. ASSUME NEW s \in Session, Start(s) PROVE IInv'
  BY <1>1, StartKeeps
<1>4. ASSUME NEW s \in Session, ConnectFails(s) PROVE IInv'
  BY <1>4, NotedKeeps
<1>2. ASSUME NEW s \in Session, Command(s) PROVE IInv'
  BY <1>2, UseKeptKeeps, RestartKeeps, OthersKeep, OpenCardKeeps, ResetKeeps DEF Command
<1>3. ASSUME NEW s \in Session, Proceed(s) PROVE IInv'
  BY <1>3, NotedKeeps, SelectKeeps, FoundKeeps, WorkKeeps, RenotifyKeeps,
     ResetStatusKeeps DEF Proceed
<1> QED
  BY <1>1, <1>2, <1>3, <1>4, TickerKeeps, OthersKeep DEF Next

\* The invariant of scdaemon.
THEOREM ScdInvariant == Spec => []IInv
<1>1. Init => IInv
  BY InitIInv
<1>2. IInv /\ [Next]_vars => IInv'
  BY NextKeeps
<1> QED
  BY <1>1, <1>2, PTL DEF Spec

LEMMA IInvAppsCounted == IInv => AppsCounted
<1> SUFFICES ASSUME IInv PROVE AppsCounted
  OBVIOUS
<1>1. \A a \in App : UsersIn(Use, a) = Users(a)
  BY DEF UsersIn, Users, Use
<1> QED
  BY <1>1, CoreFacts DEF IInv, Core, AppsCounted, Use, Users

LEMMA IInvUndisturbed == IInv => LastUserUndisturbed
<1> SUFFICES ASSUME IInv, NEW s \in Session, NEW u \in Session,
                    ctrl[s].app # NoApp, tab.ctx[ctrl[s].app].ref = 1, u # s,
                    pc[u] \in {"probe", "busy"}
             PROVE  FALSE
  BY DEF LastUserUndisturbed
<1> DEFINE a == ctrl[s].app
<1>1. pc[u] = "busy"
  BY ProbeExcludes
<1>2. ctrl[u].app = a /\ a \in App
  BY <1>1 DEF IInv, Core, Use, Places
<1>3. Cardinality(UsersIn(Use, a)) = 1 /\ IsFiniteSet(UsersIn(Use, a))
  BY <1>2, UsersFinite DEF IInv, Core
<1>4. s \in UsersIn(Use, a) /\ u \in UsersIn(Use, a)
  BY <1>2 DEF UsersIn, Use
<1>5. PICK x : UsersIn(Use, a) = {x}
  BY <1>3, FS_Singleton
<1> QED
  BY <1>4, <1>5

\* The types, for any number of sessions, applications and cards.
THEOREM TypeCorrect == Spec => []TypeOK
  BY ScdInvariant, PTL DEF IInv

\* References are counted and no session uses freed memory, for any number
\* of sessions and whatever they do.
THEOREM AppsCorrect == Spec => []AppsCounted
  BY ScdInvariant, IInvAppsCounted, PTL

\* No application context is lost.
THEOREM NoLeakCorrect == Spec => []NoLeak
<1>1. IInv => NoLeak
  BY DEF IInv, Core, NoLeak
<1> QED
  BY <1>1, ScdInvariant, PTL

\* Nobody holds the reader when the last user of an application releases it.
THEOREM ReleaseCorrect == Spec => []LastUserUndisturbed
  BY ScdInvariant, IInvUndisturbed, PTL

\* What is saved for the next session may be reused.
THEOREM SavedCorrect == Spec => []SavedIsFresh
<1>1. IInv => SavedIsFresh
  BY DEF IInv, Core, SavedIsFresh
<1> QED
  BY <1>1, ScdInvariant, PTL

-----------------------------------------------------------------------------
\* The owner of the card lock: a session that is about to end has given up
\* the lock, and it takes no other command meanwhile.
Owner == LockOwnerLives /\ \A s \in Session : pc[s] = "status" => locked # s

LEMMA OwnerKept == Owner /\ IInv /\ [Next]_vars => Owner'
<1> SUFFICES ASSUME Owner, IInv, [Next]_vars PROVE Owner'
  OBVIOUS
<1>1. /\ pc \in [Session -> {"idle", "select", "probe", "work", "busy",
                             "notify", "renotify", "status"}]
      /\ None \notin Session /\ \A s \in Session : s \notin sessions => pc[s] = "idle"
      /\ locked \in sessions \cup {None} /\ \A s \in Session : pc[s] = "status" => locked # s
      /\ sessions \subseteq Session
  BY ScdAssumption DEF ScdAssumption, IInv, TypeOK, Places, Owner, LockOwnerLives
<1>2. ASSUME NEW s \in Session, NEW l, pc' = [pc EXCEPT ![s] = l],
             sessions' = sessions, locked' = locked, l # "status"
      PROVE  Owner'
  BY <1>1, <1>2 DEF Owner, LockOwnerLives
<1>3. ASSUME NEW s \in Session, NEW l, pc' = [pc EXCEPT ![s] = l],
             sessions' = sessions, Unlocks(s)
      PROVE  Owner'
  BY <1>1, <1>3 DEF Owner, LockOwnerLives, Unlocks
<1>4. ASSUME NEW s \in Session, Start(s) PROVE Owner'
  BY <1>1, <1>4 DEF Start, Owner, LockOwnerLives
<1>5. ASSUME NEW s \in Session, Command(s) PROVE Owner'
  <2>1. CASE UseKept(s)
    BY <1>2, <2>1 DEF UseKept, Goto
  <2>2. CASE \E c \in {"use", "serialno"} : OpenCard(s, c)
    BY <1>2, <2>2 DEF OpenCard, Goto
  <2>3. ASSUME NEW c \in {"reset", "serialno", "end"}, Reset(s, c) PROVE Owner'
    <3>1. CASE pc' = [pc EXCEPT ![s] = "status"] /\ Unlocks(s)
      BY <1>3, <2>3, <3>1 DEF Reset
    <3>2. CASE pc' = [pc EXCEPT ![s] = "renotify"] /\ locked' = locked
      BY <1>2, <2>3, <3>2 DEF Reset
    <3> QED BY <2>3, <3>1, <3>2 DEF Reset, Goto
  <2>4. CASE Restart(s)
    <3>1. pc' = [pc EXCEPT ![s] = pc[s]]
      BY <1>1, <2>4 DEF Restart
    <3> QED BY <1>3, <2>4, <3>1 DEF Restart
  <2>5. CASE Lock(s) \/ Unlock(s)
    BY <1>1, <2>5 DEF Lock, Unlock, AwaitsCommand, Owner, LockOwnerLives
  <2> QED BY <1>5, <2>1, <2>2, <2>3, <2>4, <2>5 DEF Command
<1>6. ASSUME NEW s \in Session, Proceed(s) PROVE Owner'
  <2>1. CASE CardNotPresent(s) \/ Notify(s) \/ Leave(s) \/ LeaveRemoved(s) \/ Work(s)
    BY <1>2, <2>1 DEF CardNotPresent, Notify, Leave, LeaveRemoved, Work, Goto
  <2>2. CASE \/ \E fits \in BOOLEAN : Select(s, fits)
             \/ Found(s)
    <3>1. PICK l \in {"idle", "work", "probe"} :
            /\ pc' = [pc EXCEPT ![s] = l] /\ UNCHANGED <<sessions, locked>>
      BY <2>2 DEF Select, Found, Share, Opened, Goto
    <3> QED BY <1>2, <3>1
  <2>3. CASE Renotify(s)
    BY <1>3, <2>3 DEF Renotify, Goto
  <2>4. CASE ResetStatus(s)
    <3>1. /\ pc[s] = "status" /\ locked' = locked
          /\ sessions' \in {sessions, sessions \ {s}}
          /\ \E l \in {"idle", "select"} : pc' = [pc EXCEPT ![s] = l]
      BY <2>4 DEF ResetStatus, Goto
    <3> QED BY <1>1, <3>1 DEF Owner, LockOwnerLives
  <2> QED BY <1>6, <2>1, <2>2, <2>3, <2>4 DEF Proceed
<1>7. CASE Tick \/ TickNotify \/ Change \/ UNCHANGED vars
  BY <1>7 DEF Tick, TickNotify, Change, vars, Owner, LockOwnerLives
<1>8. ASSUME NEW s \in Session, ConnectFails(s) PROVE Owner'
  BY <1>2, <1>8 DEF ConnectFails, Goto
<1> QED
  BY <1>4, <1>5, <1>6, <1>7, <1>8 DEF Next

\* locked_session never points to the memory of a session that has ended.
THEOREM OwnerLives == Spec => []LockOwnerLives
<1>1. Init => Owner
  BY DEF Init, Owner, LockOwnerLives
<1>2. Owner /\ IInv /\ [Next]_vars => Owner'
  BY OwnerKept
<1>3. Owner => LockOwnerLives
  BY DEF Owner
<1> QED
  BY <1>1, <1>2, <1>3, ScdInvariant, PTL DEF Spec
=============================================================================
