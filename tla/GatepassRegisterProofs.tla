---------------------- MODULE GatepassRegisterProofs -----------------------
(***************************************************************************)
(* For any number of passes, dates and clerks: the numbers of a date are   *)
(* dense.  DenseNumbers is not inductive alone: a clerk writes a number    *)
(* counted earlier.  CountedLow says that such a number is at most one     *)
(* above the passes there are now, because passes are never deleted; the   *)
(* unique index leaves only the number one above.                          *)
(***************************************************************************)
EXTENDS GatepassRegister, FiniteSetTheorems, SequenceTheorems, TLAPS

\* The passes of a date are finitely many: they were issued one by one.
FinitelyMany == \A d \in Day : IsFiniteSet(IssuedOn(d))

\* What a clerk has counted is a number already given, or the next one.
CountedLow == \A k \in Clerk, d \in Day :
                 writing[k] = d => counted[k] \in 1 .. Cardinality(IssuedOn(d)) + 1

Inv == TypeOK /\ FinitelyMany /\ CountedLow /\ DenseNumbers

-----------------------------------------------------------------------------
\* The register starts empty.
LEMMA InitInv == Init => Inv
<1> SUFFICES ASSUME Init PROVE Inv
  OBVIOUS
<1>1. TypeOK
  BY DEF Init, TypeOK
<1>2. \A d \in Day : IssuedOn(d) = {}
  BY NoneAssumption DEF Init, IssuedOn
<1>3. FinitelyMany
  BY <1>2, FS_EmptySet DEF FinitelyMany
<1>4. CountedLow
  BY NoneAssumption DEF Init, CountedLow
<1>5. \A d \in Day : Cardinality(IssuedOn(d)) = 0
  BY <1>2, FS_EmptySet
<1>6. DenseNumbers
  BY <1>2, <1>5 DEF DenseNumbers
<1>7. QED
  BY <1>1, <1>3, <1>4, <1>6 DEF Inv

\* A count of the committed passes.
LEMMA CountStep ==
  ASSUME Inv, NEW k \in Clerk, NEW d \in Day, Count(k, d)
  PROVE  Inv'
<1> USE DEF register
<1>1. IsFiniteSet(IssuedOn(d)) /\ Cardinality(IssuedOn(d)) \in Nat
  BY FS_CardinalityType DEF Inv, FinitelyMany
<1>2. TypeOK'
  BY <1>1 DEF Inv, TypeOK, Count
<1>3. ASSUME NEW e \in Day
      PROVE  /\ IsFiniteSet(IssuedOn(e)')
             /\ {number'[x] : x \in IssuedOn(e)'} = 1 .. Cardinality(IssuedOn(e)')
             /\ \A x \in Clerk : writing'[x] = e =>
                   counted'[x] \in 1 .. Cardinality(IssuedOn(e)') + 1
  <2>1. IssuedOn(e)' = IssuedOn(e) /\ number' = number
    BY DEF IssuedOn, Count
  <2>2. IsFiniteSet(IssuedOn(e)) /\ {number[x] : x \in IssuedOn(e)} = 1 .. Cardinality(IssuedOn(e))
    BY DEF Inv, FinitelyMany, DenseNumbers
  <2>3. {number'[x] : x \in IssuedOn(e)'} = 1 .. Cardinality(IssuedOn(e)')
    BY <2>1, <2>2
  <2>4. ASSUME NEW x \in Clerk, writing'[x] = e
        PROVE  counted'[x] \in 1 .. Cardinality(IssuedOn(e)) + 1
    <3>1. CASE x = k
      <4>1. e = d /\ counted'[x] = Cardinality(IssuedOn(d)) + 1
        BY <2>4, <3>1 DEF Inv, TypeOK, Count
      <4>2. QED
        BY <4>1, <1>1
    <3>2. CASE x # k
      <4>1. writing[x] = e /\ counted'[x] = counted[x]
        BY <2>4, <3>2 DEF Inv, TypeOK, Count
      <4>2. QED
        BY <4>1 DEF Inv, CountedLow
    <3>3. QED
      BY <3>1, <3>2
  <2>5. QED
    BY <2>1, <2>2, <2>3, <2>4
<1>4. FinitelyMany' /\ DenseNumbers' /\ CountedLow'
  BY <1>3 DEF FinitelyMany, DenseNumbers, CountedLow
<1>5. QED
  BY <1>2, <1>4 DEF Inv

\* The index lets only the next number through.
LEMMA InsertStep ==
  ASSUME Inv, NEW k \in Clerk, Insert(k)
  PROVE  Inv'
<1>1. PICK g \in Gatepass : /\ ~Issued(g)
                            /\ day' = [day EXCEPT ![g] = writing[k]]
                            /\ number' = [number EXCEPT ![g] = counted[k]]
  BY DEF Insert
<1>2. PICK d \in Day : d = writing[k]
  BY DEF Inv, TypeOK, Insert
<1>3. PICK n \in Nat : n = Cardinality(IssuedOn(d))
  BY FS_CardinalityType DEF Inv, FinitelyMany
<1>4. TypeOK'
  BY <1>1, <1>2 DEF Inv, TypeOK, Insert, Done
<1>5. counted[k] = n + 1
  <2>1. counted[k] \in 1 .. n + 1
    BY <1>2, <1>3, NoneAssumption DEF Inv, CountedLow
  <2>2. {number[x] : x \in IssuedOn(d)} = 1 .. n
    BY <1>3 DEF Inv, DenseNumbers
  <2>3. counted[k] \notin {number[x] : x \in IssuedOn(d)}
    BY <1>2 DEF Insert
  <2>4. QED
    BY <2>1, <2>2, <2>3
<1>6. g \notin IssuedOn(d) /\ IssuedOn(d)' = IssuedOn(d) \cup {g}
  BY <1>1, <1>2, NoneAssumption DEF Inv, TypeOK, IssuedOn, Issued
<1>7. \A e \in Day \ {d} : IssuedOn(e)' = IssuedOn(e) /\ g \notin IssuedOn(e)
  BY <1>1, <1>2, NoneAssumption DEF Inv, TypeOK, IssuedOn, Issued
<1>8. IsFiniteSet(IssuedOn(d)') /\ Cardinality(IssuedOn(d)') = n + 1
  BY <1>3, <1>6, FS_AddElement DEF Inv, FinitelyMany
<1>9. FinitelyMany'
  <2> SUFFICES ASSUME NEW e \in Day PROVE IsFiniteSet(IssuedOn(e)')
    BY DEF FinitelyMany
  <2>1. QED
    BY <1>7, <1>8 DEF Inv, FinitelyMany
<1>10. CountedLow'
  <2> SUFFICES ASSUME NEW x \in Clerk, NEW e \in Day, writing'[x] = e
               PROVE  counted'[x] \in 1 .. Cardinality(IssuedOn(e)') + 1
    BY DEF CountedLow
  <2>1. writing[x] = e /\ counted'[x] = counted[x]
    BY NoneAssumption DEF Inv, TypeOK, Insert, Done
  <2>2. counted[x] \in 1 .. Cardinality(IssuedOn(e)) + 1
    BY <2>1 DEF Inv, CountedLow
  <2>3. CASE e = d
    BY <2>1, <2>2, <2>3, <1>3, <1>8
  <2>4. CASE e # d
    BY <2>1, <2>2, <2>4, <1>7
  <2>5. QED
    BY <2>3, <2>4
<1>11. DenseNumbers'
  <2> SUFFICES ASSUME NEW e \in Day
               PROVE  {number'[x] : x \in IssuedOn(e)'} = 1 .. Cardinality(IssuedOn(e)')
    BY DEF DenseNumbers
  <2>1. \A x \in Gatepass \ {g} : number'[x] = number[x]
    BY <1>1 DEF Inv, TypeOK
  <2>2. {number[x] : x \in IssuedOn(e)} = 1 .. Cardinality(IssuedOn(e))
    BY DEF Inv, DenseNumbers
  <2>3. IssuedOn(e) \subseteq Gatepass
    BY DEF IssuedOn
  <2>4. CASE e = d
    <3>1. number'[g] = n + 1
      BY <1>1, <1>5 DEF Inv, TypeOK
    <3>2. {number'[x] : x \in IssuedOn(d)'} = {number[x] : x \in IssuedOn(d)} \cup {n + 1}
      BY <1>6, <2>1, <2>3, <2>4, <3>1
    <3>3. (1 .. n) \cup {n + 1} = 1 .. n + 1
      OBVIOUS
    <3>4. QED
      BY <1>3, <1>8, <2>2, <2>4, <3>2, <3>3
  <2>5. CASE e # d
    <3>1. IssuedOn(e)' = IssuedOn(e) /\ g \notin IssuedOn(e)
      BY <1>7, <2>5
    <3>2. {number'[x] : x \in IssuedOn(e)} = {number[x] : x \in IssuedOn(e)}
      BY <2>1, <2>3, <3>1
    <3>3. QED
      BY <2>2, <3>1, <3>2
  <2>6. QED
    BY <2>4, <2>5
<1>12. QED
  BY <1>4, <1>9, <1>10, <1>11 DEF Inv

\* Failed transactions and sign-offs touch no number.
LEMMA OtherStep ==
  ASSUME Inv,
         \/ \E k \in Clerk : Abort(k)
         \/ \E g \in Gatepass : \/ Decide(g, "approved") \/ Decide(g, "rejected")
                                \/ Complete(g) \/ Upload(g)
  PROVE  Inv'
<1> USE DEF register
<1>1. TypeOK'
  BY DEF Inv, TypeOK, Abort, Decide, Complete, Upload, Done
<1>2. day' = day /\ number' = number
  BY DEF Abort, Decide, Complete, Upload
<1>3. ASSUME NEW e \in Day
      PROVE  /\ IsFiniteSet(IssuedOn(e)')
             /\ {number'[x] : x \in IssuedOn(e)'} = 1 .. Cardinality(IssuedOn(e)')
             /\ \A x \in Clerk : writing'[x] = e =>
                   counted'[x] \in 1 .. Cardinality(IssuedOn(e)') + 1
  <2>1. IssuedOn(e)' = IssuedOn(e)
    BY <1>2 DEF IssuedOn
  <2>2. \A x \in Clerk : writing'[x] = e => writing[x] = e /\ counted'[x] = counted[x]
    BY NoneAssumption DEF Inv, TypeOK, Abort, Decide, Complete, Upload, Done
  <2>3. QED
    BY <1>2, <2>1, <2>2 DEF Inv, FinitelyMany, DenseNumbers, CountedLow
<1>4. FinitelyMany' /\ DenseNumbers' /\ CountedLow'
  BY <1>3 DEF FinitelyMany, DenseNumbers, CountedLow
<1>5. QED
  BY <1>1, <1>4 DEF Inv

\* Inv holds in every state of every behavior of the specification.
THEOREM Invariance == Spec => []Inv
<1>1. Inv /\ [Next]_vars => Inv'
  <2> SUFFICES ASSUME Inv, [Next]_vars PROVE Inv'
    OBVIOUS
  <2>1. CASE UNCHANGED vars
    BY <2>1 DEF vars, register, Inv, TypeOK, FinitelyMany, CountedLow, DenseNumbers, IssuedOn
  <2>2. CASE Next
    <3>1. ASSUME NEW k \in Clerk, NEW d \in Day, Count(k, d) PROVE Inv'
      BY <3>1, CountStep
    <3>2. ASSUME NEW k \in Clerk, Insert(k) PROVE Inv'
      BY <3>2, InsertStep
    <3>3. QED
      BY <2>2, <3>1, <3>2, OtherStep DEF Next
  <2>3. QED
    BY <2>1, <2>2
<1>2. QED
  BY InitInv, <1>1, PTL DEF Spec

-----------------------------------------------------------------------------
\* The columns of the register keep their types.
THEOREM TypeCorrect == Spec => []TypeOK
<1>1. Inv => TypeOK
  BY DEF Inv
<1>2. QED
  BY Invariance, <1>1, PTL

\* However many clerks number passes at once, and however many of their
\* transactions fail, the passes of every date are numbered 1, 2, ... densely.
THEOREM NumbersAreDense == Spec => []DenseNumbers
<1>1. Inv => DenseNumbers
  BY DEF Inv
<1>2. QED
  BY Invariance, <1>1, PTL

\* Every pass shows the signatures that its status tells of, in whatever order
\* it was decided, completed and uploaded: a later sign-off only adds marks, and
\* only a decision, which promises none, takes a status back.
THEOREM SignaturesFitStatus == Spec => []SignedOff
<1>1. Init => SignedOff
  BY DEF Init, SignedOff
<1>2. TypeOK /\ SignedOff /\ [Next]_vars => SignedOff'
  <2> SUFFICES ASSUME TypeOK, SignedOff, [Next]_vars PROVE SignedOff'
    OBVIOUS
  <2>1. CASE UNCHANGED <<status, marks>>
    BY <2>1 DEF SignedOff
  <2>2. ASSUME NEW g \in Gatepass, NEW s \in {"approved", "rejected"}, Decide(g, s)
        PROVE  SignedOff'
    BY <2>2 DEF TypeOK, SignedOff, Decide
  <2>3. ASSUME NEW g \in Gatepass, Complete(g) PROVE SignedOff'
    <3>1. \A x \in Gatepass : status'[x] = IF x = g THEN "completed" ELSE status[x]
      BY <2>3 DEF TypeOK, Complete
    <3>2. \A x \in Gatepass : marks'[x] = IF x = g THEN marks[g] \cup {"receiver", "security"}
                                                   ELSE marks[x]
      BY <2>3 DEF TypeOK, Complete
    <3>3. QED
      BY <3>1, <3>2 DEF SignedOff
  <2>4. ASSUME NEW g \in Gatepass, Upload(g) PROVE SignedOff'
    <3>1. \A x \in Gatepass : status'[x] = IF x = g THEN "closed" ELSE status[x]
      BY <2>4 DEF TypeOK, Upload
    <3>2. \A x \in Gatepass : marks'[x] = IF x = g THEN marks[g] \cup {"receiver", "scan"}
                                                   ELSE marks[x]
      BY <2>4 DEF TypeOK, Upload
    <3>3. QED
      BY <3>1, <3>2 DEF SignedOff
  <2>5. QED
    BY <2>1, <2>2, <2>3, <2>4 DEF Next, Insert, Abort, Count, register, vars
<1>3. QED
  BY <1>1, <1>2, TypeCorrect, PTL DEF Spec

-----------------------------------------------------------------------------
(* GatepassRegister implements GatepassBook. *)

\* No number is given twice on a date.
Distinct == \A d \in Day : \A g, h \in IssuedOn(d) : number[g] = number[h] => g = h

BookInv == Inv /\ Distinct

\* Every step of the register either inserts one pass, or leaves dates and
\* numbers alone.
LEMMA DistinctStep == ASSUME BookInv, [Next]_vars PROVE Distinct'
<1> USE DEF BookInv
<1>1. CASE UNCHANGED <<day, number>>
  BY <1>1 DEF Distinct, IssuedOn
<1>2. ASSUME NEW k \in Clerk, Insert(k) PROVE Distinct'
  <2>1. PICK g \in Gatepass : /\ ~Issued(g)
                              /\ day' = [day EXCEPT ![g] = writing[k]]
                              /\ number' = [number EXCEPT ![g] = counted[k]]
    BY <1>2 DEF Insert
  <2>2. \A x \in Gatepass : /\ day'[x] = IF x = g THEN writing[k] ELSE day[x]
                            /\ number'[x] = IF x = g THEN counted[k] ELSE number[x]
    BY <2>1 DEF Inv, TypeOK
  <2>3. \A x \in Gatepass : day[x] = writing[k] => number[x] # counted[k]
    BY <1>2 DEF Insert, IssuedOn
  <2>4. QED
    BY <2>2, <2>3 DEF Distinct, IssuedOn
<1>3. QED
  BY <1>1, <1>2 DEF Next, Count, Abort, Decide, Complete, Upload, register, vars

\* The place of a pass on the page of its date is its number.
LEMMA PageLines ==
  ASSUME BookInv, NEW d \in Day
  PROVE  /\ \A n \in 1 .. Cardinality(IssuedOn(d)) :
              Page(d)[n] \in IssuedOn(d) /\ number[Page(d)[n]] = n
         /\ \A g \in IssuedOn(d) : /\ number[g] \in 1 .. Cardinality(IssuedOn(d))
                                   /\ Page(d)[number[g]] = g
         /\ DOMAIN Page(d) = 1 .. Cardinality(IssuedOn(d))
         /\ Page(d) \in Seq(Gatepass) /\ Len(Page(d)) = Cardinality(IssuedOn(d))
<1>1. PICK n \in Nat : n = Cardinality(IssuedOn(d))
  BY FS_CardinalityType DEF BookInv, Inv, FinitelyMany
<1>2. {number[g] : g \in IssuedOn(d)} = 1 .. n
  BY <1>1 DEF BookInv, Inv, DenseNumbers
<1>3. \A i \in 1 .. n : \E g \in IssuedOn(d) : number[g] = i
  BY <1>2
<1>4. \A i \in 1 .. n : Page(d)[i] \in IssuedOn(d) /\ number[Page(d)[i]] = i
  <2> SUFFICES ASSUME NEW i \in 1 .. n
               PROVE  Page(d)[i] \in IssuedOn(d) /\ number[Page(d)[i]] = i
    OBVIOUS
  <2>1. Page(d)[i] = CHOOSE g \in IssuedOn(d) : number[g] = i
    BY <1>1, <1>3 DEF Page
  <2>2. QED
    BY <1>3, <2>1
<1>5. \A g \in IssuedOn(d) : number[g] \in 1 .. n
  BY <1>2
<1>6. \A g \in IssuedOn(d) : Page(d)[number[g]] = g
  BY <1>4, <1>5 DEF BookInv, Distinct
<1>7. DOMAIN Page(d) = 1 .. n
  BY <1>1 DEF Page
<1>8. Page(d) = [i \in 1 .. n |-> Page(d)[i]]
  BY <1>1 DEF Page
<1>9. \A i \in 1 .. n : Page(d)[i] \in Gatepass
  BY <1>4 DEF IssuedOn
<1>10. Page(d) \in [1 .. n -> Gatepass]
  BY <1>8, <1>9
<1>11. Page(d) \in Seq(Gatepass) /\ Len(Page(d)) = n
  BY <1>1, <1>10
<1>12. QED
  BY <1>1, <1>4, <1>5, <1>6, <1>7, <1>11

\* A pass has a line in the book when its id is in use.
LEMMA EnteredIssued ==
  ASSUME BookInv, NEW g \in Gatepass
  PROVE  Book!Entered(g) <=> Issued(g)
<1>1. Book!Entered(g) <=> \E d \in Day : \E n \in DOMAIN Page(d) : Page(d)[n] = g
  BY DEF Book!Entered
<1>2. ASSUME NEW d \in Day, NEW n \in DOMAIN Page(d), Page(d)[n] = g
      PROVE  Issued(g)
  <2>1. g \in IssuedOn(d)
    BY <1>2, PageLines
  <2>2. QED
    BY <2>1, NoneAssumption DEF IssuedOn, Issued
<1>3. ASSUME Issued(g)
      PROVE  \E d \in Day : \E n \in DOMAIN Page(d) : Page(d)[n] = g
  <2>1. PICK d \in Day : g \in IssuedOn(d)
    BY <1>3 DEF BookInv, Inv, TypeOK, IssuedOn, Issued
  <2>2. QED
    BY <2>1, PageLines
<1>4. QED
  BY <1>1, <1>2, <1>3

\* An insert writes the line at the end of the page: the index refuses every
\* number but the next.
LEMMA BookInsert == ASSUME BookInv, NEW k \in Clerk, Insert(k) PROVE Book!Next
<1> USE DEF BookInv
<1>1. PICK g \in Gatepass : /\ ~Issued(g)
                            /\ day' = [day EXCEPT ![g] = writing[k]]
                            /\ number' = [number EXCEPT ![g] = counted[k]]
  BY DEF Insert
<1>2. PICK d \in Day : d = writing[k]
  BY DEF Inv, TypeOK, Insert
<1>3. PICK n \in Nat : n = Cardinality(IssuedOn(d))
  BY FS_CardinalityType DEF Inv, FinitelyMany
<1>4. counted[k] = n + 1
  <2>1. counted[k] \in 1 .. n + 1
    BY <1>2, <1>3, NoneAssumption DEF Inv, CountedLow
  <2>2. {number[x] : x \in IssuedOn(d)} = 1 .. n
    BY <1>3 DEF Inv, DenseNumbers
  <2>3. counted[k] \notin {number[x] : x \in IssuedOn(d)}
    BY <1>2 DEF Insert
  <2>4. QED
    BY <2>1, <2>2, <2>3
<1>5. /\ g \notin IssuedOn(d) /\ IssuedOn(d)' = IssuedOn(d) \cup {g}
      /\ \A e \in Day \ {d} : IssuedOn(e)' = IssuedOn(e) /\ g \notin IssuedOn(e)
  BY <1>1, <1>2, NoneAssumption DEF Inv, TypeOK, IssuedOn, Issued
<1>6. Cardinality(IssuedOn(d)') = n + 1
  BY <1>3, <1>5, FS_AddElement DEF Inv, FinitelyMany
<1>7. /\ number'[g] = n + 1
      /\ \A x \in Gatepass \ {g} : number'[x] = number[x]
  BY <1>1, <1>4 DEF Inv, TypeOK
<1>8. Page(d)' = Append(Page(d), g)
  <2> DEFINE line(i) == IF \E x \in IssuedOn(d) : number[x] = i
                          THEN CHOOSE x \in IssuedOn(d) : number[x] = i ELSE None
             line2(i) == IF \E x \in IssuedOn(d)' : number'[x] = i
                           THEN CHOOSE x \in IssuedOn(d)' : number'[x] = i ELSE None
  <2>1. Page(d) = [i \in 1 .. n |-> line(i)]
    BY <1>3 DEF Page
  <2>2. Page(d)' = [i \in 1 .. n + 1 |-> line2(i)]
    BY <1>6 DEF Page
  <2>3. line2(n + 1) = g
    <3>1. \A x \in IssuedOn(d) : number'[x] = number[x] /\ number[x] # n + 1
      <4>1. \A x \in IssuedOn(d) : number[x] \in 1 .. n
        BY <1>3, PageLines
      <4>2. \A x \in IssuedOn(d) : x \in Gatepass \ {g}
        BY <1>5 DEF IssuedOn
      <4>3. QED
        BY <1>7, <4>1, <4>2
    <3>2. \A x \in IssuedOn(d)' : number'[x] = n + 1 <=> x = g
      BY <1>5, <1>7, <3>1
    <3>3. g \in IssuedOn(d)'
      BY <1>5
    <3>4. QED
      BY <3>2, <3>3
  <2>4. \A i \in 1 .. n : line2(i) = Page(d)[i]
    <3> SUFFICES ASSUME NEW i \in 1 .. n PROVE line2(i) = Page(d)[i]
      OBVIOUS
    <3>1. PICK h \in IssuedOn(d) : h = Page(d)[i] /\ number[h] = i
      BY <1>3, PageLines
    <3>2. h \in IssuedOn(d)' /\ number'[h] = i
      BY <1>5, <1>7, <3>1 DEF IssuedOn
    <3>3. \A x \in IssuedOn(d)' : number'[x] = i => x = h
      BY <1>5, <1>7, <3>1 DEF Distinct, IssuedOn
    <3>4. line2(i) = h
      BY <3>2, <3>3
    <3>5. QED
      BY <3>1, <3>4
  <2> HIDE DEF line, line2
  <2>5. Page(d) \in Seq(Gatepass) /\ Len(Page(d)) = n
    BY <1>3, PageLines
  <2>6. \A i \in 1 .. n + 1 : line2(i) = IF i = n + 1 THEN g ELSE Page(d)[i]
    BY <2>3, <2>4
  <2>7. Page(d)' \in Seq(Gatepass) /\ Len(Page(d)') = n + 1
    <3>1. \A i \in 1 .. n + 1 : line2(i) \in Gatepass
      BY <2>5, <2>6, ElementOfSeq
    <3>2. Page(d)' \in [1 .. n + 1 -> Gatepass]
      BY <2>2, <3>1
    <3>3. QED
      BY <3>2
  <2>8. /\ Append(Page(d), g) \in Seq(Gatepass) /\ Len(Append(Page(d), g)) = n + 1
        /\ \A i \in 1 .. n + 1 : Append(Page(d), g)[i] = IF i = n + 1 THEN g ELSE Page(d)[i]
    BY <2>5, AppendProperties
  <2>9. \A i \in 1 .. n + 1 : Page(d)'[i] = Append(Page(d), g)[i]
    BY <2>2, <2>6, <2>8
  <2>10. QED
    BY <2>7, <2>8, <2>9, SeqEqual
<1>9. \A e \in Day \ {d} : Page(e)' = Page(e)
  <2> SUFFICES ASSUME NEW e \in Day \ {d} PROVE Page(e)' = Page(e)
    OBVIOUS
  <2>1. IssuedOn(e)' = IssuedOn(e) /\ \A x \in IssuedOn(e) : number'[x] = number[x]
    BY <1>5, <1>7 DEF IssuedOn
  <2> DEFINE line(i) == IF \E x \in IssuedOn(e) : number[x] = i
                          THEN CHOOSE x \in IssuedOn(e) : number[x] = i ELSE None
             line2(i) == IF \E x \in IssuedOn(e)' : number'[x] = i
                           THEN CHOOSE x \in IssuedOn(e)' : number'[x] = i ELSE None
  <2>2. \A i : line2(i) = line(i)
    BY <2>1
  <2>3. Page(e) = [i \in 1 .. Cardinality(IssuedOn(e)) |-> line(i)]
    BY DEF Page
  <2>4. Page(e)' = [i \in 1 .. Cardinality(IssuedOn(e)) |-> line2(i)]
    BY <2>1 DEF Page
  <2> HIDE DEF line, line2
  <2>5. QED
    BY <2>2, <2>3, <2>4
<1>10. [e \in Day |-> Page(e)]' = [[e \in Day |-> Page(e)] EXCEPT ![d] = Append(Page(d), g)]
  BY <1>8, <1>9
<1>11. ~Book!Entered(g)
  BY <1>1, EnteredIssued
<1>12. Book!Enter(g, d)
  BY <1>10, <1>11 DEF Book!Enter, Insert
<1>13. QED
  BY <1>12 DEF Book!Next

\* A step that leaves dates and numbers alone leaves the pages alone.
LEMMA PagesStay ==
  ASSUME UNCHANGED <<day, number>>
  PROVE  [d \in Day |-> Page(d)]' = [d \in Day |-> Page(d)]
BY DEF Page, IssuedOn

\* Every commit that inserts is an entry, every sign-off a signature; counts,
\* failed transactions and decisions do not show.
LEMMA BookStep == BookInv /\ [Next]_vars => [Book!Next]_(Book!vars)
<1> SUFFICES ASSUME BookInv, [Next]_vars
             PROVE  Book!Next \/ UNCHANGED <<[d \in Day |-> Page(d)], marks>>
  BY DEF Book!vars
<1>1. CASE UNCHANGED <<day, number, marks>>
  BY <1>1, PagesStay
<1>2. ASSUME NEW k \in Clerk, Insert(k) PROVE Book!Next
  BY <1>2, BookInsert
<1>3. ASSUME NEW g \in Gatepass, Complete(g) \/ Upload(g) PROVE Book!Next
  <2>1. PICK mark \in {"security", "scan"} :
          marks' = [marks EXCEPT ![g] = @ \cup {"receiver", mark}]
    BY <1>3 DEF Complete, Upload
  <2>2. Book!Entered(g) /\ UNCHANGED <<day, number>>
    BY <1>3, EnteredIssued DEF Complete, Upload
  <2>3. Book!Sign(g, mark)
    BY <2>1, <2>2, PagesStay DEF Book!Sign
  <2>4. QED
    BY <2>3 DEF Book!Next
<1>4. QED
  BY <1>1, <1>2, <1>3 DEF Next, Count, Abort, Decide, register, vars

LEMMA BookInit == Init => Book!Init /\ Distinct
<1> SUFFICES ASSUME Init PROVE Book!Init /\ Distinct
  OBVIOUS
<1>1. \A d \in Day : IssuedOn(d) = {}
  BY NoneAssumption DEF Init, IssuedOn
<1>2. \A d \in Day : Cardinality(IssuedOn(d)) = 0
  BY <1>1, FS_EmptySet
<1>3. \A d \in Day : Page(d) = <<>>
  BY <1>2 DEF Page
<1>4. QED
  BY <1>1, <1>3 DEF Init, Book!Init, Distinct

\* Counting and inserting in two steps, with any number of clerks between them and
\* any of them failing, implements a book in which a pass is entered at once.
THEOREM Implementation == Spec => ImplementsBook
<1>1. Init => Distinct
  BY BookInit
<1>2. Inv /\ Distinct /\ [Next]_vars => Distinct' /\ [Book!Next]_(Book!vars)
  BY DistinctStep, BookStep DEF BookInv
<1>3. Init => Book!Init
  BY BookInit
<1>4. QED
  BY Invariance, <1>1, <1>2, <1>3, PTL DEF Spec, ImplementsBook, Book!Spec
=============================================================================
