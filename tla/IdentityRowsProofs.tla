------------------------- MODULE IdentityRowsProofs --------------------------
(***************************************************************************)
(* Proofs about the identities of the pool: their rows (IdentityRows), for *)
(* any identities, sessions and settings, and how the pool filler mints    *)
(* them (PoolFiller), for any replicas, presses, platforms and exits.      *)
(*                                                                         *)
(* RetiredHasNoJar is not inductive.  A session writes the columns that it *)
(* changed since it read the row, so a session that has read a retired row *)
(* must have read the row without its jar, and a jar that a session has    *)
(* seen wiped must still be wiped when that session writes: nothing ever   *)
(* gives a jar back.                                                       *)
(*                                                                         *)
(* Nor is MintsApart: a minter chooses an exit in one step and commits an  *)
(* identity behind it in a later one.  FillerInv adds that whoever is at   *)
(* work holds the lock (until one runs out), and that the exit a minter    *)
(* has chosen for itself is free until it commits: nobody else mints, and  *)
(* an identity that was retired never comes back.                          *)
(***************************************************************************)
EXTENDS IdentityRows, PoolFillerMC, FiniteSetTheorems, WellFoundedInduction, TLAPS

Holding == {"record", "retire", "retire_burned", "reset"}

SeenInv ==
  \A s \in Sessions :
    /\ seen[s].state = "RETIRED" => ~seen[s].jar
    /\ ~seen[s].jar => step[s] \in Holding /\ ~row[target[s]].jar

JarInv == RetiredHasNoJar /\ SeenInv

-----------------------------------------------------------------------------
(* The types *)

\* A row is the record of its four columns.
LEMMA RowFacts ==
  ASSUME NEW r \in Row
  PROVE  /\ [state |-> r.state, cooldown |-> r.cooldown, fails |-> r.fails, jar |-> r.jar] = r
         /\ r.state \in Live \cup {"RETIRED"} /\ r.cooldown \in Int
         /\ r.fails \in Nat /\ r.jar \in BOOLEAN
  BY DEF Row

\* The capped cooldown is an integer no longer than its cap.
LEMMA CooldownFacts ==
  ASSUME NEW streak \in Nat \ {0}
  PROVE  Cooldown(streak) \in Int /\ Cooldown(streak) <= CooldownMax
<1> DEFINE k == Lesser(streak - 1, 32)
<1>1. CooldownBase \in Int /\ CooldownMax \in Int
  BY IdentityRowsAssumption
<1>2. k \in Nat
  BY DEF Lesser
<1>3. 2 ^ k \in Int
  <2> HIDE DEF k
  <2> QED
    BY <1>2
<1>4. CooldownBase * 2 ^ k \in Int
  BY <1>1, <1>3
<1> QED
  BY <1>1, <1>4 DEF Cooldown, Lesser

\* What a row may be: TypeOK of one identity.
GoodRow(r) == r \in Row /\ (r.cooldown <= CooldownMax \/ r.cooldown <= ProxyTicks)

\* A row as a session keeps it: whether there is a cooldown, not which.
SeenRow(r) == r \in Row /\ r.cooldown \in {Unset, Read}

\* A new row is a row, for the table and for a session.
LEMMA FreshFacts == GoodRow(Fresh) /\ SeenRow(Fresh)
  BY IdentityRowsAssumption DEF GoodRow, SeenRow, Fresh, Row, Live, Unset, Read

\* The numbers that stand for no cooldown and for one that was read are negative.
LEMMA NumberFacts ==
  CooldownMax \in Nat /\ ProxyTicks \in Nat /\ Unset \in Int /\ Unset < 0 /\ Read < 0
  BY IdentityRowsAssumption DEF Unset, Read

\* A row whose state and cooldown are edited.
LEMMA CoolEdit ==
  ASSUME NEW r \in Row, NEW st \in Live \cup {"RETIRED"}, NEW c \in Int,
         c <= CooldownMax \/ c <= ProxyTicks
  PROVE  GoodRow([r EXCEPT !.state = st, !.cooldown = c])
<1>1. [r EXCEPT !.state = st, !.cooldown = c] \in Row
  BY DEF Row
<1>2. [r EXCEPT !.state = st, !.cooldown = c].cooldown = c
  BY DEF Row
<1> QED
  BY <1>1, <1>2 DEF GoodRow

\* A row whose failures are counted anew as well.
LEMMA FailEdit ==
  ASSUME NEW r \in Row, NEW n \in Nat, NEW st \in Live \cup {"RETIRED"}, NEW c \in Int,
         c <= CooldownMax \/ c <= ProxyTicks
  PROVE  GoodRow([r EXCEPT !.fails = n, !.state = st, !.cooldown = c])
<1>1. [r EXCEPT !.fails = n, !.state = st, !.cooldown = c] \in Row
  BY DEF Row
<1>2. [r EXCEPT !.fails = n, !.state = st, !.cooldown = c].cooldown = c
  BY DEF Row
<1> QED
  BY <1>1, <1>2 DEF GoodRow

\* A row that is retired and wiped.
LEMMA JarEdit ==
  ASSUME NEW r, GoodRow(r)
  PROVE  GoodRow([r EXCEPT !.state = "RETIRED", !.jar = FALSE])
<1>1. [r EXCEPT !.state = "RETIRED", !.jar = FALSE] \in Row
  BY DEF GoodRow, Row
<1>2. [r EXCEPT !.state = "RETIRED", !.jar = FALSE].cooldown = r.cooldown
  BY DEF GoodRow, Row
<1> QED
  BY <1>1, <1>2 DEF GoodRow

\* The edits that promote, reset, cool and retire.
LEMMA NamedEdits ==
  ASSUME NEW r, GoodRow(r)
  PROVE  /\ GoodRow([r EXCEPT !.state = "ACTIVE", !.cooldown = Unset])
         /\ GoodRow([r EXCEPT !.fails = 0, !.state = "ACTIVE", !.cooldown = Unset])
         /\ GoodRow([r EXCEPT !.state = "COOLING", !.cooldown = ProxyTicks])
         /\ GoodRow([r EXCEPT !.state = "RETIRED", !.jar = FALSE])
<1>1. r \in Row
  BY DEF GoodRow
<1>2. "ACTIVE" \in Live \cup {"RETIRED"} /\ "COOLING" \in Live \cup {"RETIRED"}
  BY DEF Live
<1>3. Unset \in Int /\ ProxyTicks \in Int /\ 0 \in Nat
  BY NumberFacts
<1>4. Unset <= CooldownMax /\ ProxyTicks <= ProxyTicks
  BY NumberFacts
<1>5. GoodRow([r EXCEPT !.state = "ACTIVE", !.cooldown = Unset])
  BY <1>1, <1>2, <1>3, <1>4, CoolEdit
<1>6. GoodRow([r EXCEPT !.fails = 0, !.state = "ACTIVE", !.cooldown = Unset])
  BY <1>1, <1>2, <1>3, <1>4, FailEdit
<1>7. GoodRow([r EXCEPT !.state = "COOLING", !.cooldown = ProxyTicks])
  BY <1>1, <1>2, <1>3, <1>4, CoolEdit
<1>8. GoodRow([r EXCEPT !.state = "RETIRED", !.jar = FALSE])
  BY JarEdit
<1> QED
  BY <1>5, <1>6, <1>7, <1>8

\* What a session has seen could be in the table.
LEMMA SeenIsGood == ASSUME NEW r, SeenRow(r) PROVE GoodRow(r)
<1>1. CooldownMax \in Nat /\ ProxyTicks \in Nat
  BY IdentityRowsAssumption
<1> QED
  BY <1>1 DEF SeenRow, GoodRow, Unset, Read

\* What record_outcome makes of a row that a session has read.
LEMMA FoldedFacts ==
  ASSUME NEW was, SeenRow(was), NEW result \in Outcomes
  PROVE  /\ Folded(was, result) \in Row
         /\ GoodRow(Folded(was, result))
         /\ Folded(was, result).jar = was.jar
         /\ Folded(was, result).state = "RETIRED" => was.state = "RETIRED"
<1>1. was \in Row /\ was.fails + 1 \in Nat \ {0}
  BY DEF SeenRow, Row
<1>2. Cooldown(was.fails + 1) \in Int /\ Cooldown(was.fails + 1) <= CooldownMax
  BY <1>1, CooldownFacts
<1>3. CooldownMax \in Nat /\ ProxyTicks \in Nat
  BY IdentityRowsAssumption
<1>4. CASE result = "ok"
  <2>1. CASE was.state = "COOLING"
    <3>1. Folded(was, result)
            = [was EXCEPT !.fails = 0, !.state = "ACTIVE", !.cooldown = Unset]
      BY <1>4, <2>1 DEF Folded
    <3>2. GoodRow(was)
      BY SeenIsGood
    <3>3. /\ Folded(was, result).jar = was.jar
          /\ Folded(was, result).state # "RETIRED"
      BY <1>1, <3>1 DEF Row
    <3> QED
      BY <3>1, <3>2, <3>3, NamedEdits DEF GoodRow
  <2>2. CASE was.state # "COOLING"
    <3>1. Folded(was, result) = [was EXCEPT !.fails = 0]
      BY <1>4, <2>2 DEF Folded
    <3> QED
      BY <1>1, <1>3, <3>1 DEF SeenRow, GoodRow, Row, Unset, Read
  <2> QED
    BY <2>1, <2>2
<1>5. CASE result = "business_error"
  BY <1>1, <1>3, <1>5 DEF Folded, SeenRow, GoodRow, Row, Unset, Read
<1>6. CASE result = "network_error"
  BY <1>1, <1>3, <1>6 DEF Folded, SeenRow, GoodRow, Row, Unset, Read
<1>7. CASE result = "risk_control"
  BY <1>1, <1>2, <1>3, <1>7 DEF Folded, GoodRow, Row, Live
<1> QED
  BY <1>4, <1>5, <1>6, <1>7 DEF Outcomes

\* A merged row is a row.
LEMMA MergedFacts ==
  ASSUME NEW old, GoodRow(old), NEW was, NEW new, GoodRow(new)
  PROVE  GoodRow(Merged(old, was, new))
  BY DEF GoodRow, Merged, Row

TypeInv ==
  /\ row \in [Identities -> Row]
  /\ \A i \in Identities : GoodRow(row[i])
  /\ step \in [Sessions -> {"idle", "requesting", "record", "retire", "burned",
                            "retire_burned", "reset"}]
  /\ target \in [Sessions -> Identities \cup {Nobody}]
  /\ \A s \in Sessions : step[s] # "idle" => target[s] \in Identities
  /\ seen \in [Sessions -> Row]
  /\ \A s \in Sessions : SeenRow(seen[s])
  /\ outcome \in [Sessions -> Outcomes]
  /\ healthy \in BOOLEAN

\* TypeInv says what TypeOK says, with the values of a row kept together.
LEMMA TypeInvIsTypeOK == TypeInv <=> TypeOK
  BY DEF TypeInv, TypeOK, GoodRow, SeenRow

\* The types hold at the start.
LEMMA TypeInit == Init => TypeInv
<1> SUFFICES ASSUME Init PROVE TypeInv
  OBVIOUS
<1>1. \A i \in Identities : row[i] = Fresh
  BY DEF Init
<1>2. \A s \in Sessions : seen[s] = Fresh
  BY DEF Init
<1> QED
  BY <1>1, <1>2, FreshFacts DEF Init, TypeInv, GoodRow, SeenRow, Outcomes

\* A session that loads the row of i, on the way to its next step.
LEMMA LoadFacts ==
  ASSUME TypeInv, NEW s \in Sessions, NEW i \in Identities, NEW where, Load(s, i), Goto(s, where, i),
         where \in {"record", "retire", "retire_burned", "reset"},
         UNCHANGED <<row, healthy>>, outcome' \in [Sessions -> Outcomes]
  PROVE  TypeInv'
<1> DEFINE loaded == [row[i] EXCEPT !.cooldown = IF @ = Unset THEN Unset ELSE Read]
<1>1. SeenRow(loaded)
  BY SMTT(30) DEF TypeInv, SeenRow, Row, Unset, Read
<1>2. seen' = [seen EXCEPT ![s] = loaded]
  BY DEF Load
<1> HIDE DEF loaded
<1>3. seen' \in [Sessions -> Row] /\ \A x \in Sessions : SeenRow(seen'[x])
  BY <1>1, <1>2 DEF TypeInv, SeenRow
<1> QED
  BY <1>3 DEF TypeInv, Goto

\* A session that writes a good row.
LEMMA FlushFacts ==
  ASSUME TypeInv, NEW s \in Sessions, NEW new, GoodRow(new), step[s] # "idle", Flush(s, new)
  PROVE  TypeInv'
<1>1. target[s] \in Identities
  BY DEF TypeInv
<1> DEFINE merged == Merged(row[target[s]], seen[s], new)
<1>2. GoodRow(merged)
  BY <1>1, MergedFacts DEF TypeInv
<1>3. row' = [row EXCEPT ![target[s]] = merged]
  BY DEF Flush
<1> HIDE DEF merged
<1>4. row' \in [Identities -> Row] /\ \A i \in Identities : GoodRow(row'[i])
  BY <1>1, <1>2, <1>3 DEF TypeInv, GoodRow
<1>5. seen' \in [Sessions -> Row] /\ \A x \in Sessions : SeenRow(seen'[x])
  BY FreshFacts DEF TypeInv, Flush, SeenRow
<1> QED
  BY <1>4, <1>5 DEF TypeInv, Flush, Outcomes

-----------------------------------------------------------------------------
(* The actions of the bulk updates *)

\* The types, when cooled rows are promoted in bulk ...
LEMMA PromoteTypes == ASSUME TypeInv, Promote PROVE TypeInv'
<1>1. \A i \in Identities : row'[i] \in Row /\ GoodRow(row'[i])
  <2> SUFFICES ASSUME NEW i \in Identities PROVE row'[i] \in Row /\ GoodRow(row'[i])
    OBVIOUS
  <2>1. CASE Recovered(i)
    <3>1. row'[i] = [row[i] EXCEPT !.state = "ACTIVE", !.cooldown = Unset]
      BY <2>1 DEF Promote
    <3>2. GoodRow(row[i])
      BY DEF TypeInv
    <3> QED
      BY <3>1, <3>2, NamedEdits DEF GoodRow
  <2>2. CASE ~Recovered(i)
    BY <2>2 DEF TypeInv, Promote, GoodRow
  <2> QED
    BY <2>1, <2>2
<1>2. row' \in [Identities -> Row]
  BY <1>1 DEF Promote
<1> QED
  BY <1>1, <1>2 DEF TypeInv, Promote, session

\* ... when those behind a proxy are cooled in bulk ...
LEMMA CoolProxyTypes == ASSUME TypeInv, CoolProxy PROVE TypeInv'
<1>1. \A i \in Identities : row'[i] \in Row /\ GoodRow(row'[i])
  <2> SUFFICES ASSUME NEW i \in Identities PROVE row'[i] \in Row /\ GoodRow(row'[i])
    OBVIOUS
  <2>1. GoodRow(row[i])
    BY DEF TypeInv
  <2>2. row'[i] = row[i] \/ row'[i] = [row[i] EXCEPT !.state = "COOLING", !.cooldown = ProxyTicks]
    BY DEF CoolProxy
  <2> QED
    BY <2>1, <2>2, NamedEdits DEF GoodRow
<1>2. row' \in [Identities -> Row]
  BY <1>1 DEF CoolProxy
<1> QED
  BY <1>1, <1>2 DEF TypeInv, CoolProxy, session

\* ... and when time passes.
LEMMA TickTypes == ASSUME TypeInv, Tick PROVE TypeInv'
<1>1. \A i \in Identities : row'[i] \in Row /\ GoodRow(row'[i])
  <2> SUFFICES ASSUME NEW i \in Identities PROVE row'[i] \in Row /\ GoodRow(row'[i])
    OBVIOUS
  <2>1. CooldownMax \in Nat /\ ProxyTicks \in Nat
    BY IdentityRowsAssumption
  <2>2. CASE row[i].cooldown > 0
    BY <2>1, <2>2 DEF TypeInv, Tick, GoodRow, Row
  <2>3. CASE ~(row[i].cooldown > 0)
    BY <2>3 DEF TypeInv, Tick, GoodRow
  <2> QED
    BY <2>2, <2>3
<1>2. row' \in [Identities -> Row]
  BY <1>1 DEF Tick
<1> QED
  BY <1>1, <1>2 DEF TypeInv, Tick, session

\* The types are inductive: one case for each action.
LEMMA TypeStep == TypeInv /\ [Next]_vars => TypeInv'
<1> SUFFICES ASSUME TypeInv, [Next]_vars PROVE TypeInv'
  OBVIOUS
<1>1. CASE Promote \/ CoolProxy \/ Tick
  BY <1>1, PromoteTypes, CoolProxyTypes, TickTypes
<1>2. CASE Recover
  BY <1>2 DEF TypeInv, Recover, session
<1>3. ASSUME NEW s \in Sessions, RecordWrite(s) PROVE TypeInv'
  <2>1. SeenRow(seen[s]) /\ outcome[s] \in Outcomes
    BY DEF TypeInv
  <2>2. GoodRow(Folded(seen[s], outcome[s]))
    BY <2>1, FoldedFacts
  <2> QED
    BY <1>3, <2>2, FlushFacts DEF RecordWrite
<1>4. ASSUME NEW s \in Sessions, RetireWrite(s) PROVE TypeInv'
  <2> DEFINE new == [seen[s] EXCEPT !.state = "RETIRED", !.jar = FALSE]
  <2>1. SeenRow(seen[s])
    BY DEF TypeInv
  <2>2. GoodRow(new)
    BY <2>1, SeenIsGood, NamedEdits
  <2>3. Flush(s, new) /\ step[s] # "idle"
    BY <1>4 DEF RetireWrite
  <2> HIDE DEF new
  <2> QED
    BY <2>2, <2>3, FlushFacts
<1>5. ASSUME NEW s \in Sessions, ResetWrite(s) PROVE TypeInv'
  <2> DEFINE new == [seen[s] EXCEPT !.fails = 0, !.state = "ACTIVE", !.cooldown = Unset]
  <2>1. SeenRow(seen[s])
    BY DEF TypeInv
  <2>2. GoodRow(new)
    BY <2>1, SeenIsGood, NamedEdits
  <2>3. Flush(s, new) /\ step[s] # "idle"
    BY <1>5 DEF ResetWrite
  <2> HIDE DEF new
  <2> QED
    BY <2>2, <2>3, FlushFacts
<1>6. ASSUME NEW s \in Sessions, Abort(s) PROVE TypeInv'
  BY <1>6, FreshFacts DEF TypeInv, Abort, SeenRow, Outcomes
<1>7. ASSUME NEW s \in Sessions, NEW result \in Outcomes, RecordRead(s, result) PROVE TypeInv'
  <2>1. target[s] \in Identities
    BY <1>7 DEF TypeInv, RecordRead
  <2>2. outcome' \in [Sessions -> Outcomes]
    BY <1>7 DEF TypeInv, RecordRead
  <2> QED
    BY <1>7, <2>1, <2>2, LoadFacts DEF RecordRead
<1>8. ASSUME NEW s \in Sessions, NEW i \in Identities, Send(s, i) \/ BurnedSelect(s, i)
      PROVE  TypeInv'
  BY <1>8 DEF TypeInv, Send, BurnedSelect, Goto
<1>9. ASSUME NEW s \in Sessions, NEW i \in Identities, RetireRead(s, i) \/ ResetRead(s, i)
      PROVE  TypeInv'
  <2>1. outcome' = outcome /\ outcome \in [Sessions -> Outcomes]
    BY <1>9 DEF TypeInv, RetireRead, ResetRead
  <2>2. CASE ResetRead(s, i)
    BY <2>1, <2>2, LoadFacts DEF ResetRead
  <2>3. CASE RetireRead(s, i)
    <3> DEFINE where == IF step[s] = "burned" THEN "retire_burned" ELSE "retire"
    <3>1. where \in {"record", "retire", "retire_burned", "reset"}
      OBVIOUS
    <3>2. Load(s, i) /\ Goto(s, where, i) /\ UNCHANGED <<row, healthy>>
      BY <2>3 DEF RetireRead
    <3> HIDE DEF where
    <3> QED
      BY <2>1, <3>1, <3>2, LoadFacts
  <2> QED
    BY <1>9, <2>2, <2>3
<1>10. CASE UNCHANGED vars
  BY <1>10 DEF TypeInv, vars, session
<1> QED
  BY <1>1, <1>2, <1>3, <1>4, <1>5, <1>6, <1>7, <1>8, <1>9, <1>10 DEF Next, Write

(* The types hold in every state of any instance: whatever the rows mixed  *)
(* by concurrent sessions, no cooldown grows past the longest one.         *)
THEOREM TypeCorrect == Spec => []TypeOK
<1>1. Init => TypeInv
  BY TypeInit
<1>2. TypeInv /\ [Next]_vars => TypeInv'
  BY TypeStep
<1>3. TypeInv => TypeOK
  BY TypeInvIsTypeOK
<1> QED
  BY <1>1, <1>2, <1>3, PTL DEF Spec

-----------------------------------------------------------------------------
(* The jar of a retired identity *)

\* JarInv holds at the start.
LEMMA JarInit == Init => JarInv
<1> SUFFICES ASSUME Init PROVE JarInv
  OBVIOUS
<1>1. \A i \in Identities : row[i] = Fresh
  BY DEF Init
<1>2. \A s \in Sessions : seen[s] = Fresh
  BY DEF Init
<1> QED
  BY <1>1, <1>2 DEF JarInv, RetiredHasNoJar, SeenInv, Fresh

\* A session that loads a row reads a retired one without its jar.
LEMMA LoadKeepsJar ==
  ASSUME TypeInv, JarInv, NEW s \in Sessions, NEW i \in Identities, NEW where \in Holding,
         Load(s, i), Goto(s, where, i), row' = row
  PROVE  JarInv'
<1>1. /\ seen'[s].state = row[i].state
      /\ seen'[s].jar = row[i].jar
      /\ step'[s] = where
      /\ target'[s] = i
  BY DEF TypeInv, Load, Goto, Row
<1>2. \A x \in Sessions \ {s} :
        seen'[x] = seen[x] /\ step'[x] = step[x] /\ target'[x] = target[x]
  BY DEF TypeInv, Load, Goto
<1>3. SeenInv'
  BY <1>1, <1>2 DEF JarInv, RetiredHasNoJar, SeenInv
<1> QED
  BY <1>3 DEF JarInv, RetiredHasNoJar

\* A session that flushes gives no jar back, and wipes that of a row it retires.
LEMMA FlushKeepsJar ==
  ASSUME TypeInv, JarInv, NEW s \in Sessions, NEW new,
         step[s] # "idle", Flush(s, new),
         \/ new.jar = seen[s].jar /\ (new.state = "RETIRED" => seen[s].state = "RETIRED")
         \/ new.jar = FALSE
  PROVE  JarInv'
<1> DEFINE i == target[s]
<1>1. i \in Identities
  BY DEF TypeInv
<1>2. row' = [row EXCEPT ![i] = Merged(row[i], seen[s], new)]
  BY DEF Flush
<1>3. row'[i] = Merged(row[i], seen[s], new)
  BY <1>1, <1>2 DEF TypeInv
<1>4. \A j \in Identities \ {i} : row'[j] = row[j]
  BY <1>1, <1>2 DEF TypeInv
<1>5. row[i].jar \in BOOLEAN /\ seen[s].jar \in BOOLEAN
  BY <1>1 DEF TypeInv, Row
<1>6. row'[i].jar = row[i].jar \/ row'[i].jar = FALSE
  BY <1>3, <1>5 DEF Merged
<1>7. row'[i].state = "RETIRED" => ~row'[i].jar
  <2>1. /\ row[i].state = "RETIRED" => ~row[i].jar
        /\ seen[s].state = "RETIRED" => ~seen[s].jar
        /\ ~seen[s].jar => ~row[i].jar
    BY <1>1 DEF JarInv, RetiredHasNoJar, SeenInv
  <2>2. row'[i].state = (IF new.state # seen[s].state THEN new.state ELSE row[i].state)
    BY <1>3 DEF Merged
  <2>3. row'[i].jar = (IF new.jar # seen[s].jar THEN new.jar ELSE row[i].jar)
    BY <1>3 DEF Merged
  <2>4. CASE new.jar = seen[s].jar /\ (new.state = "RETIRED" => seen[s].state = "RETIRED")
    BY <2>1, <2>2, <2>3, <2>4
  <2>5. CASE new.jar = FALSE
    BY <1>5, <2>1, <2>3, <2>5
  <2> QED
    BY <2>4, <2>5
<1>8. /\ seen'[s] = Fresh
      /\ \A x \in Sessions \ {s} :
           seen'[x] = seen[x] /\ step'[x] = step[x] /\ target'[x] = target[x]
  BY DEF TypeInv, Flush
<1>9. \A j \in Identities : row[j].jar = FALSE => row'[j].jar = FALSE
  BY <1>4, <1>6
<1>10. RetiredHasNoJar'
  BY <1>4, <1>7 DEF JarInv, RetiredHasNoJar
<1>11. SeenInv'
  <2> SUFFICES ASSUME NEW x \in Sessions
      PROVE (/\ seen[x].state = "RETIRED" => ~seen[x].jar
             /\ ~seen[x].jar => step[x] \in Holding /\ ~row[target[x]].jar)'
    BY DEF SeenInv
  <2>1. CASE x = s
    BY <1>8, <2>1 DEF Fresh
  <2>2. CASE x # s
    <3>1. ~seen[x].jar => target[x] \in Identities /\ row[target[x]].jar = FALSE
      BY DEF JarInv, SeenInv, TypeInv, Holding, Row
    <3> QED
      BY <1>8, <1>9, <2>2, <3>1 DEF JarInv, SeenInv
  <2> QED
    BY <2>1, <2>2
<1> QED
  BY <1>10, <1>11 DEF JarInv

\* A bulk update neither retires a row nor gives a jar back.
LEMMA BulkKeepsJar ==
  ASSUME TypeInv, JarInv, Promote \/ CoolProxy \/ Tick
  PROVE  JarInv'
<1>1. \A i \in Identities :
        /\ row'[i].jar = row[i].jar
        /\ row'[i].state = "RETIRED" => row[i].state = "RETIRED"
  <2> SUFFICES ASSUME NEW i \in Identities
      PROVE /\ row'[i].jar = row[i].jar
            /\ row'[i].state = "RETIRED" => row[i].state = "RETIRED"
    OBVIOUS
  <2>1. row[i] \in Row
    BY DEF TypeInv
  <2>2. CASE Promote
    BY <2>1, <2>2 DEF Promote, Row
  <2>3. CASE CoolProxy
    BY <2>1, <2>3 DEF CoolProxy, Row
  <2>4. CASE Tick
    BY <2>1, <2>4 DEF Tick, Row
  <2> QED
    BY <2>2, <2>3, <2>4
<1>2. UNCHANGED <<step, target, seen>>
  BY DEF Promote, CoolProxy, Tick, session
<1>3. \A s \in Sessions : ~seen[s].jar => target[s] \in Identities
  BY DEF JarInv, SeenInv, TypeInv, Holding
<1> QED
  BY <1>1, <1>2, <1>3 DEF JarInv, RetiredHasNoJar, SeenInv

\* JarInv is inductive: one case for each action.
LEMMA JarStep == TypeInv /\ JarInv /\ [Next]_vars => JarInv'
<1> SUFFICES ASSUME TypeInv, JarInv, [Next]_vars PROVE JarInv'
  OBVIOUS
<1>1. CASE Promote \/ CoolProxy \/ Tick
  BY <1>1, BulkKeepsJar
<1>2. CASE Recover
  BY <1>2 DEF JarInv, RetiredHasNoJar, SeenInv, Recover, session
<1>3. ASSUME NEW s \in Sessions, RecordWrite(s) PROVE JarInv'
  <2>1. SeenRow(seen[s]) /\ outcome[s] \in Outcomes
    BY DEF TypeInv
  <2>2. /\ Folded(seen[s], outcome[s]).jar = seen[s].jar
        /\ Folded(seen[s], outcome[s]).state = "RETIRED" => seen[s].state = "RETIRED"
    BY <2>1, FoldedFacts
  <2> QED
    BY <1>3, <2>2, FlushKeepsJar DEF RecordWrite
<1>4. ASSUME NEW s \in Sessions, RetireWrite(s) PROVE JarInv'
  <2> DEFINE new == [seen[s] EXCEPT !.state = "RETIRED", !.jar = FALSE]
  <2>1. new.jar = FALSE
    BY DEF TypeInv, Row
  <2>2. Flush(s, new) /\ step[s] # "idle"
    BY <1>4 DEF RetireWrite
  <2> HIDE DEF new
  <2> QED
    BY <2>1, <2>2, FlushKeepsJar
<1>5. ASSUME NEW s \in Sessions, ResetWrite(s) PROVE JarInv'
  <2> DEFINE new == [seen[s] EXCEPT !.fails = 0, !.state = "ACTIVE", !.cooldown = Unset]
  <2>1. new.jar = seen[s].jar /\ new.state # "RETIRED"
    BY DEF TypeInv, Row
  <2>2. Flush(s, new) /\ step[s] # "idle"
    BY <1>5 DEF ResetWrite
  <2> HIDE DEF new
  <2> QED
    BY <2>1, <2>2, FlushKeepsJar
<1>6. ASSUME NEW s \in Sessions, Abort(s) PROVE JarInv'
  <2>1. seen'[s] = Fresh /\ row' = row
    BY <1>6 DEF Abort, TypeInv
  <2>2. \A x \in Sessions \ {s} :
          seen'[x] = seen[x] /\ step'[x] = step[x] /\ target'[x] = target[x]
    BY <1>6 DEF Abort, TypeInv
  <2> QED
    BY <2>1, <2>2 DEF JarInv, RetiredHasNoJar, SeenInv, Fresh
<1>7. ASSUME NEW s \in Sessions, NEW result \in Outcomes, RecordRead(s, result) PROVE JarInv'
  <2>1. target[s] \in Identities
    BY <1>7 DEF TypeInv, RecordRead
  <2> QED
    BY <1>7, <2>1, LoadKeepsJar DEF RecordRead, Holding
<1>8. ASSUME NEW s \in Sessions, NEW i \in Identities, Send(s, i) \/ BurnedSelect(s, i)
      PROVE  JarInv'
  <2>1. step[s] = "idle" /\ seen' = seen /\ row' = row
    BY <1>8 DEF Send, BurnedSelect
  <2>2. seen[s].jar
    BY <2>1 DEF JarInv, SeenInv, Holding
  <2>3. \A x \in Sessions \ {s} : step'[x] = step[x] /\ target'[x] = target[x]
    BY <1>8 DEF Send, BurnedSelect, Goto, TypeInv
  <2> QED
    BY <2>1, <2>2, <2>3 DEF JarInv, RetiredHasNoJar, SeenInv
<1>9. ASSUME NEW s \in Sessions, NEW i \in Identities, RetireRead(s, i) \/ ResetRead(s, i)
      PROVE  JarInv'
  <2>1. CASE ResetRead(s, i)
    BY <2>1, LoadKeepsJar DEF ResetRead, Holding
  <2>2. CASE RetireRead(s, i)
    <3> DEFINE where == IF step[s] = "burned" THEN "retire_burned" ELSE "retire"
    <3>1. where \in Holding
      BY DEF Holding
    <3>2. Load(s, i) /\ Goto(s, where, i) /\ row' = row
      BY <2>2 DEF RetireRead
    <3> HIDE DEF where
    <3> QED
      BY <3>1, <3>2, LoadKeepsJar
  <2> QED
    BY <1>9, <2>1, <2>2
<1>10. CASE UNCHANGED vars
  BY <1>10 DEF JarInv, RetiredHasNoJar, SeenInv, vars, session
<1> QED
  BY <1>1, <1>2, <1>3, <1>4, <1>5, <1>6, <1>7, <1>8, <1>9, <1>10 DEF Next, Write

(* A retired identity has no credential left, for any number of sessions   *)
(* that read and write its row across one another (pool.py:580-582).       *)
THEOREM RetiredHasNoJarCorrect == Spec => []RetiredHasNoJar
<1>1. Init => TypeInv /\ JarInv
  BY TypeInit, JarInit
<1>2. TypeInv /\ JarInv /\ [Next]_vars => (TypeInv /\ JarInv)'
  BY TypeStep, JarStep
<1>3. JarInv => RetiredHasNoJar
  BY DEF JarInv
<1> QED
  BY <1>1, <1>2, <1>3, PTL DEF Spec

-----------------------------------------------------------------------------
(* The pool filler *)

\* What is assumed of the constants, in the form the steps use.
LEMMA FillerFacts ==
  /\ Platforms \subseteq Nat /\ Ids \subseteq Nat /\ IsFiniteSet(Ids)
  /\ Home \in [Presses -> Replicas] /\ Presses \cap Replicas = {}
  /\ Null \notin Replicas /\ Null \notin Presses /\ Null \notin P!Exits
  /\ BackoffInitial \in Nat \ {0} /\ BackoffMax \in Nat \ {0}
BY PoolFillerMCAssumption
   DEF PoolFillerMCAssumption, P!ConstantsAreSound, P!Exits, P!IsFiniteSet, IsFiniteSet

\* Numbers of identities are numbers, and some of them is the least.
LEMMA CountsAreNumbers ==
  ASSUME NEW ids \in SUBSET Ids
  PROVE  P!Cardinality(ids) \in Nat
<1>1. IsFiniteSet(ids)
  BY FillerFacts, FS_Subset
<1>2. P!Cardinality(ids) = Cardinality(ids)
  BY DEF P!Cardinality, Cardinality, P!IsFiniteSet, IsFiniteSet
<1> QED
  BY <1>1, <1>2, FS_CardinalityType

\* Of some numbers, one is the least.
LEMMA SomeIsLeast ==
  ASSUME NEW numbers, numbers \subseteq Nat, numbers # {}
  PROVE  \E k \in numbers : \A m \in numbers : k <= m
<1>1. PICK k \in numbers : \A m \in numbers : ~(<<m, k>> \in OpToRel(<, Nat))
  BY NatLessThanWellFounded, WFMin, Zenon
<1>2. \A m \in numbers : ~(m < k)
  BY <1>1 DEF OpToRel
<1> QED
  BY <1>2

\* The level of a pool is a number.
LEMMA LevelsAreNumbers == ASSUME NEW p PROVE P!Level(p) \in Nat
<1>1. P!Of(p, {"usable"}) \in SUBSET Ids /\ P!Of(p, {"usable", "failing"}) \in SUBSET Ids
  BY DEF P!Of
<1>2. P!Usable(p) \in Nat /\ P!Live(p) \in Nat
  BY <1>1, CountsAreNumbers DEF P!Usable, P!Live
<1> QED
  BY <1>2 DEF P!Level

\* The neediest platform is a platform.
LEMMA NeediestIsPlatform ==
  ASSUME NEW candidates \in SUBSET Platforms, candidates # {},
         NEW neediest,
         neediest = {p \in candidates : \A q \in candidates : P!Level(p) <= P!Level(q)}
  PROVE  (CHOOSE p \in neediest : \A q \in neediest : p <= q) \in Platforms
<1> DEFINE levels == {P!Level(p) : p \in candidates}
<1>1. levels \subseteq Nat /\ levels # {}
  BY LevelsAreNumbers
<1>2. PICK k \in levels : \A m \in levels : k <= m
  <2> HIDE DEF levels
  <2> QED
    BY <1>1, SomeIsLeast
<1>3. PICK p \in candidates : k = P!Level(p)
  BY <1>2
<1>4. p \in neediest
  BY <1>2, <1>3
<1>5. neediest # {} /\ neediest \subseteq Platforms /\ neediest \subseteq Nat
  BY <1>4, FillerFacts
<1>6. \E n \in neediest : \A q \in neediest : n <= q
  BY <1>5, SomeIsLeast
<1> QED
  BY <1>5, <1>6

\* A back-off is within its limit, however many failures there were.
LEMMA BackoffIsBounded == ASSUME NEW n PROVE P!Backoff(n) \in 0..BackoffMax
BY FillerFacts DEF P!Backoff

\* What minters have named, from the type of the sweep or of the press to the mint.
TargetsAreNamed ==
  \A m \in P!Minters :
    /\ pPc[m] \in {"local", "remote", "pick", "mint", "unlock"} => pTarget[m] \in Platforms
    /\ pPc[m] = "mint" => pExit[m] \in P!Exits

\* Whoever is at work has the lock, unless it has run out under somebody.
LockIsHeld == pOverrun \/ \A m \in P!Minters : P!AtWork(m) => pMintLock = m

\* The states of an identity that keeps its exit.
Standing == {"usable", "failing", "degraded"}

\* The exit a minter has chosen for itself is still free when it mints.
ExitIsFree ==
  pOverrun \/ Proxies = {} \/ \A m \in P!Minters, i \in Ids :
    /\ pPc[m] = "mint" /\ pNamed[m] = Null
    /\ pIdentity[i].state \in Standing /\ pIdentity[i].platform = pTarget[m]
    => pIdentity[i].exit # pExit[m]

FillerInv == P!TypeOK /\ TargetsAreNamed /\ LockIsHeld /\ ExitIsFree /\ P!ExitNotShared

PoolRow ==
  {P!NoIdentity} \cup
  [platform : Platforms, exit : P!Exits,
   state : {"usable", "failing", "degraded", "retired"}, named : BOOLEAN]

\* Every minter is at home in a replica.
LEMMA HomeIsReplica == ASSUME NEW m \in P!Minters PROVE P!HomeOf(m) \in Replicas
BY FillerFacts DEF P!Minters, P!HomeOf

\* The types are inductive.
LEMMA FillerTypesStep ==
  P!TypeOK /\ TargetsAreNamed /\ [P!Next]_pVars => P!TypeOK' /\ TargetsAreNamed'
<1> SUFFICES ASSUME P!TypeOK, TargetsAreNamed, [P!Next]_pVars
             PROVE  P!TypeOK' /\ TargetsAreNamed'
  OBVIOUS
<1> USE FillerFacts
<1>0. 0 \in 0..BackoffMax
  OBVIOUS
<1>1. ASSUME NEW r \in Replicas, P!Survey(r) PROVE P!TypeOK' /\ TargetsAreNamed'
  <2>1. r \in P!Minters
    BY DEF P!Minters
  <2>2. pFilling' \in [Replicas -> SUBSET Platforms]
    BY <1>1 DEF P!Survey, P!Filling, P!TypeOK
  <2>3. CASE P!Eligible(r) = {}
    BY <1>1, <2>2, <2>3 DEF P!Survey, P!TypeOK, TargetsAreNamed, P!locks, P!bounds
  <2>4. CASE P!Eligible(r) # {}
    <3>1. P!Eligible(r) \in SUBSET Platforms
      BY DEF P!Eligible, P!Filling
    <3>2. PICK p \in Platforms : pTarget' = [pTarget EXCEPT ![r] = p]
      <4> DEFINE neediest ==
            {p \in P!Eligible(r) : \A q \in P!Eligible(r) : P!Level(p) <= P!Level(q)}
      <4>1. pTarget' = [pTarget EXCEPT ![r] = CHOOSE p \in neediest : \A q \in neediest : p <= q]
        BY <1>1, <2>4 DEF P!Survey
      <4>2. (CHOOSE p \in neediest : \A q \in neediest : p <= q) \in Platforms
        BY <2>4, <3>1, NeediestIsPlatform
      <4> QED
        BY <4>1, <4>2
    <3>3. pPc' = [pPc EXCEPT ![r] = "local"]
      BY <1>1, <2>4 DEF P!Survey, P!Goto
    <3>4. pTarget' \in [P!Minters -> Platforms \cup {Null}]
      BY <2>1, <3>2 DEF P!TypeOK
    <3>5. P!TypeOK'
      BY <1>1, <2>1, <2>2, <3>3, <3>4 DEF P!Survey, P!TypeOK, P!locks, P!bounds
    <3>6. pExit' = pExit
      BY <1>1 DEF P!Survey
    <3>7. TargetsAreNamed'
      BY <2>1, <3>2, <3>3, <3>6 DEF P!TypeOK, TargetsAreNamed
    <3> QED
      BY <3>5, <3>7
  <2> QED
    BY <2>3, <2>4
<1>2. ASSUME NEW r \in Replicas, P!Restart(r) PROVE P!TypeOK' /\ TargetsAreNamed'
  <2>1. pPc' \in [P!Minters -> {"idle", "local", "remote", "pick", "mint", "unlock", "done"}]
    BY <1>2 DEF P!Restart, P!TypeOK, P!Rest
  <2>2. /\ pFilling' \in [Replicas -> SUBSET Platforms]
        /\ pFailures' \in [Replicas -> [P!Routes -> Nat]]
        /\ pResting' \in [Replicas -> [P!Routes -> 0..BackoffMax]]
        /\ pLocal' \in [Replicas -> P!Minters \cup {Null}]
        /\ pFaults' \in Nat
    BY <1>0, <1>2 DEF P!Restart, P!TypeOK, P!Fault
  <2>3. P!TypeOK'
    BY <1>2, <2>1, <2>2 DEF P!Restart, P!TypeOK
  <2>4. ASSUME NEW m \in P!Minters
        PROVE  pPc'[m] = pPc[m] \/ pPc'[m] \in {"idle", "done"}
    BY <1>2 DEF P!Restart, P!Rest
  <2>5. pTarget' = pTarget /\ pExit' = pExit
    BY <1>2 DEF P!Restart
  <2>6. TargetsAreNamed'
    BY <2>4, <2>5 DEF TargetsAreNamed
  <2> QED
    BY <2>3, <2>6
<1>3. ASSUME NEW b \in Presses, P!GiveUp(b) PROVE P!TypeOK' /\ TargetsAreNamed'
  <2>1. b \in P!Minters /\ P!HomeOf(b) \in Replicas
    BY HomeIsReplica DEF P!Minters
  <2> QED
    BY <1>3, <2>1
    DEF P!GiveUp, P!Goto, P!LeaveLocal, P!TypeOK, TargetsAreNamed, P!memory, P!bounds
<1>4. ASSUME NEW b \in Presses, NEW p \in Platforms, NEW x \in P!Exits \cup {Null}, P!Press(b, p, x)
      PROVE  P!TypeOK' /\ TargetsAreNamed'
  <2>1. b \in P!Minters
    BY DEF P!Minters
  <2> QED
    BY <1>4, <2>1 DEF P!Press, P!Goto, P!TypeOK, TargetsAreNamed, P!memory, P!locks, P!bounds
<1>5. ASSUME NEW m \in P!Minters, P!TakeLocal(m) PROVE P!TypeOK' /\ TargetsAreNamed'
  <2>1. /\ pPc[m] = "local"
        /\ pPc' = [pPc EXCEPT ![m] = "remote"] \/ pPc' = [pPc EXCEPT ![m] = "idle"]
        /\ pTarget' = pTarget /\ pExit' = pExit
    BY <1>5 DEF P!TakeLocal, P!Goto
  <2>2. pLocal' \in [Replicas -> P!Minters \cup {Null}]
    BY <1>5, HomeIsReplica DEF P!TakeLocal, P!TypeOK
  <2>3. P!TypeOK'
    BY <1>5, <2>1, <2>2 DEF P!TakeLocal, P!TypeOK, P!memory, P!bounds
  <2>4. TargetsAreNamed'
    BY <2>1 DEF P!TypeOK, TargetsAreNamed
  <2> QED
    BY <2>3, <2>4
<1>6. ASSUME NEW m \in P!Minters, P!TakeRemote(m) PROVE P!TypeOK' /\ TargetsAreNamed'
  <2>1. /\ pPc[m] = "remote"
        /\ pPc' = [pPc EXCEPT ![m] = "pick"] \/ pPc' = [pPc EXCEPT ![m] = "idle"]
        /\ pTarget' = pTarget /\ pExit' = pExit
    BY <1>6 DEF P!TakeRemote, P!Goto
  <2>2. pLocal' \in [Replicas -> P!Minters \cup {Null}] /\ pMintLock' \in P!Minters \cup {Null}
    BY <1>6, HomeIsReplica DEF P!TakeRemote, P!LeaveLocal, P!TypeOK
  <2>3. P!TypeOK'
    BY <1>6, <2>1, <2>2 DEF P!TakeRemote, P!TypeOK, P!memory, P!bounds
  <2>4. TargetsAreNamed'
    BY <2>1 DEF P!TypeOK, TargetsAreNamed
  <2> QED
    BY <2>3, <2>4
<1>7. ASSUME NEW m \in P!Minters, P!Pick(m) PROVE P!TypeOK' /\ TargetsAreNamed'
  <2>1. ASSUME NEW x \in (IF pNamed[m] # Null THEN {pNamed[m]} ELSE P!FreeExits(pTarget[m]))
        PROVE  x \in P!Exits
    BY <2>1 DEF P!FreeExits, P!Exits, P!TypeOK
  <2>2. \/ /\ pPc' = [pPc EXCEPT ![m] = "mint"]
           /\ \E x \in P!Exits : pExit' = [pExit EXCEPT ![m] = x]
        \/ pPc' = [pPc EXCEPT ![m] = "unlock"] /\ pExit' = pExit
    BY <1>7, <2>1 DEF P!Pick, P!Goto
  <2>3. pPc[m] = "pick" /\ pTarget' = pTarget
    BY <1>7 DEF P!Pick
  <2>4. P!TypeOK'
    <3>1. pExit' \in [P!Minters -> P!Exits \cup {Null}]
      BY <2>2 DEF P!TypeOK
    <3>2. pPc' \in [P!Minters -> {"idle", "local", "remote", "pick", "mint", "unlock", "done"}]
      BY <2>2 DEF P!TypeOK
    <3> QED
      BY <1>7, <3>1, <3>2 DEF P!Pick, P!TypeOK, P!memory, P!locks, P!bounds
  <2>5. TargetsAreNamed'
    BY <2>2, <2>3 DEF P!TypeOK, TargetsAreNamed
  <2> QED
    BY <2>4, <2>5
<1>8. ASSUME NEW m \in P!Minters, P!Minted(m) PROVE P!TypeOK' /\ TargetsAreNamed'
  <2> DEFINE unused == {i \in Ids : pIdentity[i].state = "none"}
             new == [platform |-> pTarget[m], exit |-> pExit[m], state |-> "usable",
                     named |-> pNamed[m] # Null]
  <2>1. pPc[m] = "mint" /\ pTarget[m] \in Platforms /\ pExit[m] \in P!Exits
    BY <1>8 DEF P!Minted, TargetsAreNamed
  <2>2. new \in PoolRow
    BY <2>1 DEF PoolRow
  <2>3. pIdentity \in [Ids -> PoolRow]
    BY DEF P!TypeOK, PoolRow
  <2>4. pIdentity' \in [Ids -> PoolRow]
    <3>1. pIdentity' = [pIdentity EXCEPT ![CHOOSE i \in unused : \A j \in unused : i <= j] = new]
      BY <1>8 DEF P!Minted
    <3> HIDE DEF new, unused
    <3> QED
      BY <2>2, <2>3, <3>1
  <2>5. Route[pTarget[m]] \in P!Routes /\ P!HomeOf(m) \in Replicas
    BY <2>1, HomeIsReplica DEF P!Routes
  <2>6. /\ pFailures' \in [Replicas -> [P!Routes -> Nat]]
        /\ pResting' \in [Replicas -> [P!Routes -> 0..BackoffMax]]
    BY <1>0, <1>8, <2>5 DEF P!Minted, P!TypeOK
  <2>7. pShown' \in [Platforms -> 0..BackoffMax]
    BY <1>0, <1>8 DEF P!Minted, P!TypeOK
  <2>8. pPc' = [pPc EXCEPT ![m] = "unlock"]
    BY <1>8 DEF P!Minted, P!Goto
  <2>9. P!TypeOK'
    BY <1>8, <2>4, <2>6, <2>7, <2>8 DEF P!Minted, P!TypeOK, P!locks, P!bounds, PoolRow
  <2>10. TargetsAreNamed'
    BY <1>8, <2>1, <2>8 DEF P!Minted, P!TypeOK, TargetsAreNamed
  <2> QED
    BY <2>9, <2>10
<1>9. ASSUME NEW m \in P!Minters, P!Unlock(m) PROVE P!TypeOK' /\ TargetsAreNamed'
  <2>1. pPc' = [pPc EXCEPT ![m] = P!Rest(m)] /\ P!Rest(m) \in {"idle", "done"}
    BY <1>9 DEF P!Unlock, P!Goto, P!Rest
  <2>2. pLocal' \in [Replicas -> P!Minters \cup {Null}] /\ pMintLock' \in P!Minters \cup {Null}
    BY <1>9, HomeIsReplica DEF P!Unlock, P!LeaveLocal, P!TypeOK
  <2>3. P!TypeOK'
    BY <1>9, <2>1, <2>2 DEF P!Unlock, P!TypeOK, P!memory, P!bounds
  <2>4. TargetsAreNamed'
    BY <1>9, <2>1 DEF P!Unlock, P!TypeOK, TargetsAreNamed
  <2> QED
    BY <2>3, <2>4
<1>10. ASSUME NEW m \in P!Minters, P!RemoteFails(m) PROVE P!TypeOK' /\ TargetsAreNamed'
  <2>1. pPc' = [pPc EXCEPT ![m] = P!Rest(m)] /\ P!Rest(m) \in {"idle", "done"}
    BY <1>10 DEF P!RemoteFails, P!Goto, P!Rest
  <2>2. pLocal' \in [Replicas -> P!Minters \cup {Null}] /\ pFaults' \in Nat
    BY <1>10, HomeIsReplica DEF P!RemoteFails, P!LeaveLocal, P!TypeOK, P!Fault
  <2>3. P!TypeOK'
    BY <1>10, <2>1, <2>2 DEF P!RemoteFails, P!TypeOK, P!memory
  <2>4. TargetsAreNamed'
    BY <1>10, <2>1 DEF P!RemoteFails, P!TypeOK, TargetsAreNamed
  <2> QED
    BY <2>3, <2>4
<1>11. ASSUME NEW m \in P!Minters, P!MintFails(m) PROVE P!TypeOK' /\ TargetsAreNamed'
  <2>1. pPc[m] = "mint" /\ pTarget[m] \in Platforms
    BY <1>11 DEF P!MintFails, TargetsAreNamed
  <2>2. pPc' = [pPc EXCEPT ![m] = "unlock"] /\ pFaults' \in Nat
    BY <1>11 DEF P!MintFails, P!Goto, P!Fault, P!TypeOK
  <2>3. /\ pFailures' \in [Replicas -> [P!Routes -> Nat]]
        /\ pResting' \in [Replicas -> [P!Routes -> 0..BackoffMax]]
        /\ pShown' \in [Platforms -> 0..BackoffMax]
    <3>1. CASE m \in Presses
      BY <1>11, <3>1 DEF P!MintFails, P!TypeOK
    <3>2. CASE m \notin Presses
      <4> DEFINE n == pFailures[m][Route[pTarget[m]]] + 1
      <4>1. m \in Replicas /\ Route[pTarget[m]] \in P!Routes
        BY <2>1, <3>2 DEF P!Minters, P!Routes
      <4>2. n \in Nat /\ P!Backoff(n) \in 0..BackoffMax
        BY <4>1, BackoffIsBounded DEF P!TypeOK
      <4>3. /\ pFailures' = [pFailures EXCEPT ![m][Route[pTarget[m]]] = n]
            /\ pResting' = [pResting EXCEPT ![m][Route[pTarget[m]]] = P!Backoff(n)]
            /\ pShown' = [q \in Platforms |-> IF Route[q] = Route[pTarget[m]]
                                                THEN P!Backoff(n) ELSE pShown[q]]
        BY <1>11, <3>2 DEF P!MintFails
      <4> HIDE DEF n
      <4> QED
        BY <4>1, <4>2, <4>3 DEF P!TypeOK
    <3> QED
      BY <3>1, <3>2
  <2>4. P!TypeOK'
    BY <1>11, <2>2, <2>3 DEF P!MintFails, P!TypeOK, P!locks
  <2>5. TargetsAreNamed'
    BY <1>11, <2>1, <2>2 DEF P!MintFails, P!TypeOK, TargetsAreNamed
  <2> QED
    BY <2>4, <2>5
<1>12. ASSUME NEW i \in Ids, NEW state \in {"usable", "failing", "degraded", "retired"},
              P!Trouble(i, state)
       PROVE  P!TypeOK' /\ TargetsAreNamed'
  <2>1. pIdentity \in [Ids -> PoolRow] /\ pIdentity[i].state # "none"
    BY <1>12 DEF P!TypeOK, P!Trouble, PoolRow
  <2>2. pIdentity[i] \in PoolRow /\ pIdentity[i] # P!NoIdentity
    BY <2>1 DEF P!NoIdentity
  <2>3. [pIdentity[i] EXCEPT !.state = state] \in PoolRow
    BY <2>2 DEF PoolRow
  <2>4. pIdentity' = [pIdentity EXCEPT ![i] = [pIdentity[i] EXCEPT !.state = state]]
    BY <1>12 DEF P!Trouble
  <2>5. pIdentity' \in [Ids -> PoolRow]
    BY <2>1, <2>3, <2>4
  <2>6. P!TypeOK'
    BY <1>12, <2>5 DEF P!Trouble, P!TypeOK, P!memory, P!locks, P!minters, PoolRow
  <2>7. TargetsAreNamed'
    BY <1>12 DEF P!Trouble, P!minters, TargetsAreNamed
  <2> QED
    BY <2>6, <2>7
<1>13. ASSUME P!ExpireLeft \/ P!ExpireHeld PROVE P!TypeOK' /\ TargetsAreNamed'
  <2>1. /\ UNCHANGED <<pIdentity, P!memory, pShown, pLocal, P!minters, pTroubles, pFaults>>
        /\ pMintLock' = Null
    BY <1>13 DEF P!ExpireLeft, P!ExpireHeld, P!bounds
  <2>2. pExpiries' \in Nat /\ pOverrun' \in BOOLEAN
    <3>1. CASE P!ExpireLeft
      BY <3>1 DEF P!ExpireLeft, P!TypeOK, P!bounds
    <3>2. CASE P!ExpireHeld
      BY <3>2 DEF P!ExpireHeld, P!TypeOK
    <3> QED
      BY <1>13, <3>1, <3>2
  <2>3. P!TypeOK'
    BY <2>1, <2>2 DEF P!TypeOK, P!memory, P!minters
  <2>4. TargetsAreNamed'
    BY <2>1 DEF P!minters, TargetsAreNamed
  <2> QED
    BY <2>3, <2>4
<1>14. ASSUME P!Tick PROVE P!TypeOK' /\ TargetsAreNamed'
  <2>1. /\ pResting' \in [Replicas -> [P!Routes -> 0..BackoffMax]]
        /\ pShown' \in [Platforms -> 0..BackoffMax]
    BY <1>14 DEF P!Tick, P!Greater, P!TypeOK
  <2>2. P!TypeOK'
    BY <1>14, <2>1 DEF P!Tick, P!TypeOK, P!locks, P!minters, P!bounds
  <2>3. TargetsAreNamed'
    BY <1>14 DEF P!Tick, P!minters, TargetsAreNamed
  <2> QED
    BY <2>2, <2>3
<1>15. CASE UNCHANGED pVars
  BY <1>15 DEF pVars, P!TypeOK, TargetsAreNamed
<1> QED
  BY <1>1, <1>2, <1>3, <1>4, <1>5, <1>6, <1>7, <1>8, <1>9, <1>10, <1>11, <1>12, <1>13, <1>14, <1>15
  DEF P!Next, P!Mints

\* What most steps leave alone of what the locks and the exits are about.
LEMMA LockStep ==
  P!TypeOK /\ LockIsHeld /\ [P!Next]_pVars => LockIsHeld'
<1> SUFFICES ASSUME P!TypeOK, LockIsHeld, [P!Next]_pVars PROVE LockIsHeld'
  OBVIOUS
<1> USE FillerFacts
<1> DEFINE Idle == {"idle", "local", "remote", "done"}
<1>1. ASSUME pMintLock' = pMintLock, pOverrun' = pOverrun,
             \A m \in P!Minters : pPc'[m] = pPc[m] \/ pPc'[m] \in Idle
      PROVE  LockIsHeld'
  BY <1>1 DEF LockIsHeld, P!AtWork
<1>2. ASSUME NEW m \in P!Minters, NEW where, pPc' = [pPc EXCEPT ![m] = where],
             where \in Idle \/ P!AtWork(m),
             pMintLock' = pMintLock, pOverrun' = pOverrun
      PROVE  LockIsHeld'
  BY <1>2 DEF LockIsHeld, P!AtWork, P!TypeOK
<1>3. ASSUME NEW m \in P!Minters, P!TakeRemote(m) PROVE LockIsHeld'
  <2>1. CASE pMintLock = Null
    <3>1. pMintLock' = m /\ pPc' = [pPc EXCEPT ![m] = "pick"] /\ pOverrun' = pOverrun
      BY <1>3, <2>1 DEF P!TakeRemote, P!Goto, P!bounds
    <3>2. pOverrun \/ \A n \in P!Minters : ~P!AtWork(n)
      BY <2>1 DEF LockIsHeld, P!Minters
    <3> QED
      BY <3>1, <3>2 DEF LockIsHeld, P!AtWork, P!TypeOK
  <2>2. CASE pMintLock # Null
    BY <1>2, <1>3, <2>2 DEF P!TakeRemote, P!Goto, P!bounds
  <2> QED
    BY <2>1, <2>2
<1>4. ASSUME NEW m \in P!Minters, P!Unlock(m) PROVE LockIsHeld'
  <2>1. P!AtWork(m) /\ P!Rest(m) \in Idle
    BY <1>4 DEF P!Unlock, P!AtWork, P!Rest
  <2>2. pOverrun \/ \A n \in P!Minters : n # m => ~P!AtWork(n)
    BY <2>1 DEF LockIsHeld
  <2>3. pPc' = [pPc EXCEPT ![m] = P!Rest(m)] /\ pOverrun' = pOverrun
    BY <1>4 DEF P!Unlock, P!Goto, P!bounds
  <2> QED
    BY <2>1, <2>2, <2>3 DEF LockIsHeld, P!AtWork, P!TypeOK
<1>5. CASE P!ExpireLeft
  <2>1. pOverrun \/ \A n \in P!Minters : ~P!AtWork(n)
    BY <1>5 DEF LockIsHeld, P!ExpireLeft
  <2>2. pPc' = pPc /\ pOverrun' = pOverrun
    BY <1>5 DEF P!ExpireLeft, P!minters, P!bounds
  <2> QED
    BY <2>1, <2>2 DEF LockIsHeld, P!AtWork
<1>6. CASE P!ExpireHeld
  BY <1>6 DEF P!ExpireHeld, LockIsHeld
<1>7. ASSUME NEW r \in Replicas, P!Survey(r) PROVE LockIsHeld'
  <2>1. r \in P!Minters
    BY DEF P!Minters
  <2>2. pPc' = pPc \/ pPc' = [pPc EXCEPT ![r] = "local"]
    BY <1>7 DEF P!Survey, P!Goto
  <2>3. pMintLock' = pMintLock /\ pOverrun' = pOverrun
    BY <1>7 DEF P!Survey, P!locks, P!bounds
  <2> QED
    BY <1>1, <1>2, <2>1, <2>2, <2>3
<1>8. ASSUME NEW r \in Replicas, P!Restart(r) PROVE LockIsHeld'
  BY <1>1, <1>8 DEF P!Restart, P!Rest
<1>9. ASSUME NEW b \in Presses,
             P!GiveUp(b) \/ \E p \in Platforms, x \in P!Exits \cup {Null} : P!Press(b, p, x)
      PROVE  LockIsHeld'
  <2>1. b \in P!Minters
    BY DEF P!Minters
  <2>2. pPc' = [pPc EXCEPT ![b] = "local"] \/ pPc' = [pPc EXCEPT ![b] = "done"]
    BY <1>9 DEF P!GiveUp, P!Press, P!Goto
  <2>3. pMintLock' = pMintLock /\ pOverrun' = pOverrun
    BY <1>9 DEF P!GiveUp, P!Press, P!locks, P!bounds
  <2> QED
    BY <1>2, <2>1, <2>2, <2>3
<1>10. ASSUME NEW m \in P!Minters, P!TakeLocal(m) PROVE LockIsHeld'
  <2>1. pPc' = [pPc EXCEPT ![m] = "remote"] \/ pPc' = [pPc EXCEPT ![m] = "idle"]
    BY <1>10 DEF P!TakeLocal, P!Goto
  <2>2. pMintLock' = pMintLock /\ pOverrun' = pOverrun
    BY <1>10 DEF P!TakeLocal, P!bounds
  <2> QED
    BY <1>2, <2>1, <2>2
<1>11. ASSUME NEW m \in P!Minters, P!RemoteFails(m) PROVE LockIsHeld'
  BY <1>2, <1>11 DEF P!RemoteFails, P!Goto, P!Rest
<1>12. ASSUME NEW m \in P!Minters, P!Pick(m) \/ P!Minted(m) \/ P!MintFails(m) PROVE LockIsHeld'
  <2>1. P!AtWork(m)
    BY <1>12 DEF P!Pick, P!Minted, P!MintFails, P!AtWork
  <2>2. pPc' = [pPc EXCEPT ![m] = "mint"] \/ pPc' = [pPc EXCEPT ![m] = "unlock"]
    BY <1>12 DEF P!Pick, P!Minted, P!MintFails, P!Goto
  <2>3. pMintLock' = pMintLock /\ pOverrun' = pOverrun
    BY <1>12 DEF P!Pick, P!Minted, P!MintFails, P!locks, P!bounds
  <2> QED
    BY <1>2, <2>1, <2>2, <2>3
<1>13. ASSUME P!Tick \/ \E i \in Ids, state \in {"usable", "failing", "degraded", "retired"} :
                          P!Trouble(i, state)
       PROVE  LockIsHeld'
  <2>1. pPc' = pPc /\ pMintLock' = pMintLock /\ pOverrun' = pOverrun
    BY <1>13 DEF P!Tick, P!Trouble, P!minters, P!locks, P!bounds
  <2> QED
    BY <1>1, <2>1
<1>14. CASE UNCHANGED pVars
  BY <1>1, <1>14 DEF pVars
<1> QED
  BY <1>3, <1>4, <1>5, <1>6, <1>7, <1>8, <1>9, <1>10, <1>11, <1>12, <1>13, <1>14
  DEF P!Next, P!Mints

\* No two minters are between the lock and its release.
LEMMA OneAtWork ==
  ASSUME LockIsHeld, ~pOverrun, NEW m \in P!Minters, NEW n \in P!Minters,
         P!AtWork(m), P!AtWork(n)
  PROVE  m = n
BY DEF LockIsHeld

\* What a step does to the identities: it leaves them alone, mints one, or changes the
\* state of one, which never brings it back.
LEMMA IdentityStep ==
  ASSUME P!TypeOK, [P!Next]_pVars, NEW i \in Ids
  PROVE  \/ /\ pIdentity'[i].platform = pIdentity[i].platform
            /\ pIdentity'[i].exit = pIdentity[i].exit
            /\ pIdentity'[i].named = pIdentity[i].named
            /\ pIdentity'[i].state \in Standing => pIdentity[i].state \in Standing
         \/ \E m \in P!Minters : P!Minted(m)
<1>1. CASE pIdentity' = pIdentity
  BY <1>1
<1>2. ASSUME NEW k \in Ids, NEW state \in {"usable", "failing", "degraded", "retired"},
             P!Trouble(k, state)
      PROVE  /\ pIdentity'[i].platform = pIdentity[i].platform
             /\ pIdentity'[i].exit = pIdentity[i].exit
             /\ pIdentity'[i].named = pIdentity[i].named
             /\ pIdentity'[i].state \in Standing => pIdentity[i].state \in Standing
  <2>1. pIdentity \in [Ids -> PoolRow] /\ pIdentity[k].state # "none"
    BY <1>2 DEF P!TypeOK, P!Trouble, PoolRow
  <2>2. pIdentity[k] \in [platform : Platforms, exit : P!Exits,
                          state : {"usable", "failing", "degraded", "retired"}, named : BOOLEAN]
    BY <2>1 DEF P!NoIdentity, PoolRow
  <2>3. pIdentity' = [pIdentity EXCEPT ![k] = [pIdentity[k] EXCEPT !.state = state]]
    BY <1>2 DEF P!Trouble
  <2>4. state \in Standing => pIdentity[k].state \in Standing
    BY <1>2 DEF P!Trouble, Standing
  <2>5. CASE k = i
    BY <2>1, <2>2, <2>3, <2>4, <2>5
  <2>6. CASE k # i
    BY <2>1, <2>3, <2>6
  <2> QED
    BY <2>5, <2>6
<1>3. ASSUME NEW m \in P!Minters, P!Mints(m) \/ P!RemoteFails(m) \/ P!MintFails(m), ~P!Minted(m)
      PROVE  pIdentity' = pIdentity
  BY <1>3
  DEF P!Mints, P!TakeLocal, P!TakeRemote, P!Pick, P!Unlock, P!RemoteFails, P!MintFails
<1>4. ASSUME NEW r \in Replicas, P!Survey(r) \/ P!Restart(r) PROVE pIdentity' = pIdentity
  BY <1>4 DEF P!Survey, P!Restart
<1>5. ASSUME NEW b \in Presses,
             P!GiveUp(b) \/ \E p \in Platforms, x \in P!Exits \cup {Null} : P!Press(b, p, x)
      PROVE  pIdentity' = pIdentity
  BY <1>5 DEF P!GiveUp, P!Press
<1>6. CASE P!ExpireLeft \/ P!ExpireHeld \/ P!Tick \/ UNCHANGED pVars
  BY <1>1, <1>6 DEF P!ExpireLeft, P!ExpireHeld, P!Tick, pVars
<1> QED
  BY <1>1, <1>2, <1>3, <1>4, <1>5, <1>6 DEF P!Next

\* A lock that has run out under somebody is not forgotten.
LEMMA OverrunStays == ASSUME [P!Next]_pVars, ~pOverrun' PROVE ~pOverrun
BY DEF P!Next, P!Mints, P!Survey, P!Restart, P!GiveUp, P!Press, P!TakeLocal, P!TakeRemote, P!Pick,
       P!Minted, P!Unlock, P!RemoteFails, P!MintFails, P!Trouble, P!ExpireLeft, P!ExpireHeld,
       P!Tick, P!bounds, pVars

\* A free exit is one that no identity of the platform keeps.
LEMMA FreeIsFree ==
  ASSUME Proxies # {}, NEW p, NEW x \in P!FreeExits(p), NEW i \in Ids,
         pIdentity[i].state \in Standing, pIdentity[i].platform = p
  PROVE  pIdentity[i].exit # x
<1>1. x \notin P!Bound(p)
  BY DEF P!FreeExits
<1>2. pIdentity[i].exit \in P!Bound(p)
  BY DEF P!Bound, P!Of, Standing
<1> QED
  BY <1>1, <1>2

\* The exit of a minter stays free until it has minted: nobody else mints meanwhile.
LEMMA ExitStep ==
  P!TypeOK /\ LockIsHeld /\ ExitIsFree /\ [P!Next]_pVars => ExitIsFree'
<1> SUFFICES ASSUME P!TypeOK, LockIsHeld, ExitIsFree, [P!Next]_pVars,
                    ~pOverrun', Proxies # {},
                    NEW n \in P!Minters, pPc'[n] = "mint", pNamed'[n] = Null,
                    NEW i \in Ids, pIdentity'[i].state \in Standing,
                    pIdentity'[i].platform = pTarget'[n]
             PROVE  pIdentity'[i].exit # pExit'[n]
  BY DEF ExitIsFree
<1> DEFINE Same == /\ pPc[n] = "mint" /\ pNamed'[n] = pNamed[n]
                   /\ pTarget'[n] = pTarget[n] /\ pExit'[n] = pExit[n]
<1>0. ~pOverrun
  BY OverrunStays
<1>1. CASE Same /\ ~\E m \in P!Minters : P!Minted(m)
  BY <1>0, <1>1, IdentityStep DEF ExitIsFree
<1>2. ASSUME NEW m \in P!Minters, P!Minted(m) PROVE FALSE
  <2>1. pPc[m] = "mint" /\ pPc' = [pPc EXCEPT ![m] = "unlock"]
    BY <1>2 DEF P!Minted, P!Goto
  <2>2. m # n /\ pPc[n] = "mint"
    BY <2>1 DEF P!TypeOK
  <2> QED
    BY <1>0, <2>1, <2>2, OneAtWork DEF P!AtWork
<1>3. ASSUME NEW m \in P!Minters, P!Pick(m) PROVE pIdentity'[i].exit # pExit'[n]
  <2>1. /\ pPc[m] = "pick" /\ pIdentity' = pIdentity
        /\ pTarget' = pTarget /\ pNamed' = pNamed
    BY <1>3 DEF P!Pick
  <2>2. CASE m = n
    <3>1. PICK x \in P!FreeExits(pTarget[n]) : pExit' = [pExit EXCEPT ![n] = x]
      BY <1>3, <2>1, <2>2 DEF P!Pick, P!Goto, P!TypeOK
    <3>2. pExit'[n] = x
      BY <3>1 DEF P!TypeOK
    <3> QED
      BY <2>1, <3>1, <3>2, FreeIsFree
  <2>3. CASE m # n
    <3>1. pPc[n] = "mint"
      BY <1>3, <2>3 DEF P!Pick, P!Goto, P!TypeOK
    <3> QED
      BY <1>0, <2>1, <2>3, <3>1, OneAtWork DEF P!AtWork
  <2> QED
    BY <2>2, <2>3
<1>4. ASSUME NEW m \in P!Minters,
             P!TakeLocal(m) \/ P!TakeRemote(m) \/ P!Unlock(m) \/ P!RemoteFails(m) \/ P!MintFails(m)
      PROVE  Same
  <2>1. pTarget' = pTarget /\ pNamed' = pNamed /\ pExit' = pExit
    BY <1>4 DEF P!TakeLocal, P!TakeRemote, P!Unlock, P!RemoteFails, P!MintFails
  <2>2. \E where \in {"idle", "remote", "pick", "unlock", "done"} :
           pPc' = [pPc EXCEPT ![m] = where]
    BY <1>4
    DEF P!TakeLocal, P!TakeRemote, P!Unlock, P!RemoteFails, P!MintFails, P!Goto, P!Rest
  <2>3. pPc[n] = "mint"
    BY <2>2 DEF P!TypeOK
  <2> QED
    BY <2>1, <2>3
<1>5. ASSUME NEW r \in Replicas, P!Survey(r) PROVE Same
  <2>1. pNamed' = pNamed /\ pExit' = pExit
    BY <1>5 DEF P!Survey
  <2>2. \/ pPc' = pPc /\ pTarget' = pTarget
        \/ /\ pPc' = [pPc EXCEPT ![r] = "local"]
           /\ \E p : pTarget' = [pTarget EXCEPT ![r] = p]
    BY <1>5 DEF P!Survey, P!Goto
  <2>3. pPc[n] = "mint" /\ pTarget'[n] = pTarget[n]
    BY <2>2 DEF P!TypeOK
  <2> QED
    BY <2>1, <2>3
<1>6. ASSUME NEW r \in Replicas, P!Restart(r) PROVE Same
  <2>1. pTarget' = pTarget /\ pNamed' = pNamed /\ pExit' = pExit
    BY <1>6 DEF P!Restart
  <2>2. pPc'[n] = pPc[n] \/ pPc'[n] \in {"idle", "done"}
    BY <1>6 DEF P!Restart, P!Rest
  <2> QED
    BY <2>1, <2>2
<1>7. ASSUME NEW b \in Presses, P!GiveUp(b) PROVE Same
  BY <1>7 DEF P!GiveUp, P!Goto, P!TypeOK
<1>8. ASSUME NEW b \in Presses, NEW p \in Platforms, NEW x \in P!Exits \cup {Null}, P!Press(b, p, x)
      PROVE  Same
  <2>1. /\ pPc' = [pPc EXCEPT ![b] = "local"] /\ pTarget' = [pTarget EXCEPT ![b] = p]
        /\ pNamed' = [pNamed EXCEPT ![b] = x] /\ pExit' = pExit
    BY <1>8 DEF P!Press, P!Goto
  <2>2. n # b
    BY <2>1 DEF P!TypeOK
  <2> QED
    BY <2>1, <2>2 DEF P!TypeOK
<1>9. ASSUME \/ P!ExpireLeft \/ P!ExpireHeld \/ P!Tick \/ UNCHANGED pVars
             \/ \E k \in Ids, state \in {"usable", "failing", "degraded", "retired"} :
                  P!Trouble(k, state)
      PROVE  Same
  BY <1>9 DEF P!ExpireLeft, P!ExpireHeld, P!Tick, P!Trouble, P!minters, pVars
<1> QED
  BY <1>1, <1>2, <1>3, <1>4, <1>5, <1>6, <1>7, <1>8, <1>9 DEF P!Next, P!Mints

\* No two identities of a platform are behind one exit.
LEMMA ApartStep ==
  P!TypeOK /\ TargetsAreNamed /\ ExitIsFree /\ P!ExitNotShared /\ [P!Next]_pVars
    => P!ExitNotShared'
<1> SUFFICES ASSUME P!TypeOK, TargetsAreNamed, ExitIsFree, P!ExitNotShared, [P!Next]_pVars,
                    ~pOverrun', Proxies # {},
                    NEW i \in Ids, NEW j \in Ids, i # j,
                    pIdentity'[i].state \notin {"none", "retired"},
                    pIdentity'[j].state \notin {"none", "retired"},
                    pIdentity'[i].platform = pIdentity'[j].platform,
                    pIdentity'[i].exit = pIdentity'[j].exit
             PROVE  pIdentity'[i].named \/ pIdentity'[j].named
  BY DEF P!ExitNotShared
<1>0. ~pOverrun
  BY OverrunStays
<1>1. CASE ~\E m \in P!Minters : P!Minted(m)
  <2>1. P!TypeOK'
    BY FillerTypesStep
  <2>2. pIdentity'[i].state \in Standing /\ pIdentity'[j].state \in Standing
    BY <2>1 DEF P!TypeOK, P!NoIdentity, Standing
  <2>3. /\ pIdentity[i].state \notin {"none", "retired"}
        /\ pIdentity[j].state \notin {"none", "retired"}
    BY <1>1, <2>2, IdentityStep DEF Standing
  <2> QED
    BY <1>0, <1>1, <2>3, IdentityStep DEF P!ExitNotShared
<1>2. ASSUME NEW m \in P!Minters, P!Minted(m)
      PROVE  pIdentity'[i].named \/ pIdentity'[j].named
  <2> DEFINE unused == {k \in Ids : pIdentity[k].state = "none"}
             k0 == CHOOSE k \in unused : \A l \in unused : k <= l
             new == [platform |-> pTarget[m], exit |-> pExit[m], state |-> "usable",
                     named |-> pNamed[m] # Null]
  <2>1. pIdentity' = [pIdentity EXCEPT ![k0] = new] /\ pPc[m] = "mint"
    BY <1>2 DEF P!Minted
  <2>2. pIdentity \in [Ids -> PoolRow]
    BY DEF P!TypeOK, PoolRow
  <2>3. ASSUME NEW l \in Ids, pIdentity[l].state \notin {"none", "retired"},
               pIdentity[l].platform = pTarget[m], pIdentity[l].exit = pExit[m]
        PROVE  pNamed[m] # Null
    <3>1. pIdentity[l].state \in Standing
      BY <2>2, <2>3 DEF PoolRow, P!NoIdentity, Standing
    <3> QED
      BY <1>0, <2>1, <2>3, <3>1 DEF ExitIsFree
  <2>4. CASE i # k0 /\ j # k0
    BY <1>0, <2>1, <2>2, <2>4 DEF P!ExitNotShared
  <2>5. CASE i = k0
    <3>1. pIdentity'[i] = new /\ pIdentity'[j] = pIdentity[j]
      BY <2>1, <2>2, <2>5
    <3>2. pIdentity'[i].platform = pTarget[m] /\ pIdentity'[i].exit = pExit[m]
      BY <3>1
    <3>3. pNamed[m] # Null
      BY <2>3, <3>1, <3>2
    <3>4. new.named = TRUE
      BY <3>3
    <3> QED
      BY <3>1, <3>4
  <2>6. CASE j = k0
    <3>1. pIdentity'[j] = new /\ pIdentity'[i] = pIdentity[i]
      BY <2>1, <2>2, <2>6
    <3>2. pIdentity'[j].platform = pTarget[m] /\ pIdentity'[j].exit = pExit[m]
      BY <3>1
    <3>3. pNamed[m] # Null
      BY <2>3, <3>1, <3>2
    <3>4. new.named = TRUE
      BY <3>3
    <3> QED
      BY <3>1, <3>4
  <2> QED
    BY <2>4, <2>5, <2>6
<1> QED
  BY <1>1, <1>2

\* FillerInv holds at the start.
LEMMA FillerInvInit == P!Init => FillerInv
<1> SUFFICES ASSUME P!Init PROVE FillerInv
  OBVIOUS
<1>1. 0 \in 0..BackoffMax
  BY FillerFacts
<1>2. P!TypeOK
  BY <1>1 DEF P!Init, P!TypeOK
<1>3. TargetsAreNamed /\ LockIsHeld /\ ExitIsFree
  BY DEF P!Init, TargetsAreNamed, LockIsHeld, P!AtWork, ExitIsFree
<1>4. P!ExitNotShared
  BY DEF P!Init, P!ExitNotShared, P!NoIdentity
<1> QED
  BY <1>2, <1>3, <1>4 DEF FillerInv

\* Every variable of the pool filler has its type; one minter at a time holds the lock or
\* works under it, as long as no mint outlives it; and no two identities of a platform are
\* bound to one exit, unless an operator named it or there are no proxies.
THEOREM MintsApartCorrect == P!Spec => []MintsApart
<1>1. FillerInv /\ [P!Next]_(P!vars) => FillerInv'
  <2>1. UNCHANGED P!vars => UNCHANGED pVars
    BY DEF P!vars, P!memory, P!locks, P!minters, P!bounds, pVars
  <2> QED
    BY <2>1, FillerTypesStep, LockStep, ExitStep, ApartStep DEF FillerInv
<1>2. FillerInv => MintsApart
  <2>1. LockIsHeld => P!OneMintAtATime
    BY OneAtWork DEF P!OneMintAtATime, P!AtWork
  <2> QED
    BY <2>1 DEF FillerInv, MintsApart
<1> QED
  BY <1>1, <1>2, FillerInvInit, PTL DEF P!Spec
=============================================================================
