--------------------------- MODULE TrustDbProofs ---------------------------
(***************************************************************************)
(* What TrustDb promises for every set of keys, buckets and ownertrusts,   *)
(* every size of the cache and of a list, and every number of records.     *)
(*                                                                         *)
(* First the types, and that the cache knows what is not in the file.  The *)
(* latter needs that the file has no holes and that nobody writes behind   *)
(* its end, so that a record that is appended to it is not one the cache   *)
(* has an old copy of.                                                     *)
(*                                                                         *)
(* Then that each process finds the trusts that were asked for (ViewRight) *)
(* and that the file has them, up to what is being written (FileRight).    *)
(* Both speak of a search through a table and lists that are only right    *)
(* once all that an operation writes is there, in whatever order that      *)
(* happens, so the invariant speaks of the goal: the database as it will   *)
(* be when the operation is done.  The goal is sound: its buckets do not   *)
(* share records, its lists have an end, no key comes twice; its trusts    *)
(* are the ones that were asked for; and each record in the cache and in   *)
(* the file is one that the goal may have had there before (Older), with   *)
(* the same lists in every bucket where nothing was inserted (Same) and    *)
(* without any trust that nobody asked for.  A step towards the goal keeps *)
(* it; a new operation has a goal of which the last one is a past; and     *)
(* when the process ends the file becomes the goal.                        *)
(***************************************************************************)
EXTENDS TrustDb, TLAPS, FiniteSetTheorems, WellFoundedInduction

\* The file's records are the first ones; what is or will be in the cache is
\* among them, or the next one.
Filled(f, z) == \A n \in Rec : f[n] # Missing <=> n < z
Near(c, t, z) ==
  /\ \A n \in Rec : c[n] # Missing => n <= z
  /\ \A i \in DOMAIN t : t[i][1] <= z

\* What is in the cache and not dirty is in the file.
Kept(f, c, d) == \A n \in Rec : c[n] # Missing /\ n \notin d => c[n] = f[n]

IInv ==
  /\ TypeOK
  /\ Size \in 0 .. MaxRec + 1 /\ Filled(file, Size) /\ Near(cache, todo, Size)
  /\ Kept(file, cache, dirty) /\ (dirty # {} => isDirty)

-----------------------------------------------------------------------------
\* The fields of a record, by its type
LEMMA RecordFields ==
  ASSUME NEW r \in Record
  PROVE  /\ r # Missing
         /\ r.type = "ver" => r.table \in Rec
         /\ r.type = "htbl" => r.item \in [Bucket -> Rec]
         /\ r.type = "hlst" => r.rnum \in SUBSET Rec /\ r.next \in Rec
<1> USE DEF Missing, Unused, Version, Table, List, TrustRec
<1>1. CASE r = Unused BY <1>1
<1>2. CASE r \in {Version(n) : n \in Rec} BY <1>2
<1>3. CASE r \in {Table(f) : f \in [Bucket -> Rec]} BY <1>3
<1>4. CASE r \in {List(s, n) : s \in SUBSET Rec, n \in Rec} BY <1>4
<1>5. CASE r \in {TrustRec(k, v) : k \in Key, v \in Trust} BY <1>5
<1> QED BY <1>1, <1>2, <1>3, <1>4, <1>5 DEF Record

LEMMA RecordMade ==
  /\ Unused \in Record
  /\ \A n \in Rec : Version(n) \in Record
  /\ \A f \in [Bucket -> Rec] : Table(f) \in Record
  /\ \A s \in SUBSET Rec, n \in Rec : List(s, n) \in Record
  /\ \A k \in Key, v \in Trust : TrustRec(k, v) \in Record
BY DEF Record

LEMMA NotMissing == Missing \notin Record
BY RecordFields

\* The first z records are z.
LEMMA SizeIs ==
  ASSUME NEW f, NEW z \in 0 .. MaxRec + 1, Filled(f, z)
  PROVE  Cardinality({n \in Rec : f[n] # Missing}) = z
<1>1. MaxRec \in Nat BY TrustAssumption
<1>2. {n \in Rec : f[n] # Missing} = 0 .. (z - 1) BY <1>1 DEF Filled, Rec
<1>3. z \in Int /\ 0 \in Int /\ z - 1 \in Int /\ z >= 0 BY <1>1
<1> DEFINE y == z - 1
<1>4. y \in Int BY <1>3
<1> HIDE DEF y
<1>5. Cardinality(0 .. y) = IF 0 > y THEN 0 ELSE y - 0 + 1 BY <1>3, <1>4, FS_Interval
<1>6. (IF 0 > y THEN 0 ELSE y - 0 + 1) = z BY <1>3 DEF y
<1>7. {n \in Rec : f[n] # Missing} = 0 .. y BY <1>2 DEF y
<1> QED BY <1>5, <1>6, <1>7

LEMMA SizeNext ==
  ASSUME NEW z \in 0 .. MaxRec + 1, Filled(file', z)
  PROVE  Size' = z
BY SizeIs DEF Size

LEMMA InRec ==
  MaxRec \in Nat /\ Rec \subseteq Nat /\ 0 \in Rec /\ \A n \in Nat : n <= MaxRec => n \in Rec
BY TrustAssumption DEF Rec

-----------------------------------------------------------------------------
\* What a process sees: records, none of them behind the file's end but the
\* next one
Database(db) == db \in [Rec -> Record \cup {Missing}]
Present(db) == {n \in Rec : db[n] # Missing}

LEMMA ViewTypes ==
  ASSUME IInv
  PROVE  /\ Database(View)
         /\ \A n \in Present(View) : n <= Size
<1>1. Database(View) BY DEF IInv, TypeOK, View, Database
<1>2. ASSUME NEW n \in Present(View) PROVE n <= Size
  BY <1>2, InRec DEF IInv, View, Present, Near, Filled
<1> QED BY <1>1, <1>2

LEMMA TableTypes ==
  ASSUME NEW db, Database(db)
  PROVE  /\ TableOf(db) \in Rec
         /\ HasTable(db) => TableOf(db) \in Present(db)
                            /\ db[TableOf(db)].item \in [Bucket -> Rec]
<1>1. TableOf(db) \in Rec
  BY RecordFields, InRec DEF TableOf, Database, Missing
<1>2. ASSUME HasTable(db) PROVE db[TableOf(db)] \in Record
  BY <1>1, <1>2 DEF HasTable, Database, Missing
<1> QED BY <1>1, <1>2, RecordFields DEF HasTable, Present

\* A record to write
LEMMA Pair ==
  ASSUME NEW n, NEW r \in Record, NEW S, n \in S, S \subseteq Rec
  PROVE  <<<<n, r>>>> \in Seq(S \X Record)
OBVIOUS

LEMMA TwoPairs ==
  ASSUME NEW n, NEW r \in Record, NEW m, NEW q \in Record, NEW S, n \in S, m \in S
  PROVE  <<<<n, r>>, <<m, q>>>> \in Seq(S \X Record)
OBVIOUS

LEMMA SetItemType ==
  ASSUME NEW db, Database(db), HasTable(db), NEW b \in Bucket, NEW n \in Rec
  PROVE  SetItem(db, b, n) \in Present(db) \X Record
<1>1. [db[TableOf(db)].item EXCEPT ![b] = n] \in [Bucket -> Rec] BY TableTypes
<1> QED BY <1>1, TableTypes, RecordMade DEF SetItem

\* Only records that are there and the new one are written.
LEMMA InsertsType ==
  ASSUME NEW db, Database(db), NEW b \in Bucket, NEW n \in Rec, NEW new \in Rec
  PROVE  Inserts(db, b, n, new) \in Seq((Present(db) \cup {new}) \X Record)
<1> DEFINE item == Item(db, b)
           last == Last(db)[item]
           S == Present(db) \cup {new}
<1>1. CASE ~ HasTable(db) BY <1>1 DEF Inserts
<1>2. CASE HasTable(db) /\ item = 0
  <2>1. Inserts(db, b, n, new) = <<SetItem(db, b, n)>> BY <1>2 DEF Inserts
  <2>2. SetItem(db, b, n) \in S \X Record BY <1>2, SetItemType
  <2> QED BY <2>1, <2>2
<1>3. CASE HasTable(db) /\ item # 0 /\ db[item].type = "trust"
  <2>1. item \in Rec BY <1>3, TableTypes DEF Item
  <2>2. List({item, n}, 0) \in Record BY <2>1, RecordMade, InRec
  <2>3. SetItem(db, b, new) \in S \X Record BY <1>3, SetItemType
  <2>4. Inserts(db, b, n, new) = <<<<new, List({item, n}, 0)>>, SetItem(db, b, new)>>
    BY <1>3 DEF Inserts
  <2>5. <<new, List({item, n}, 0)>> \in S \X Record BY <2>2
  <2> QED BY <2>3, <2>4, <2>5
<1>4. CASE /\ HasTable(db) /\ item # 0 /\ db[item].type # "trust"
           /\ {item, last} \subseteq Lists(db)
  <2> DEFINE r == db[last]
  <2>1. last \in Present(db) /\ r \in Record
    BY <1>4 DEF Lists, Present, Database, Missing
  <2>2. r.rnum \in SUBSET Rec /\ r.next \in Rec
    BY <1>4, <2>1, RecordFields DEF Lists
  <2>3. CASE Cardinality(r.rnum) < Slots
    <3>1. Inserts(db, b, n, new) = <<<<last, List(r.rnum \cup {n}, r.next)>>>>
      BY <1>4, <2>3 DEF Inserts
    <3>2. List(r.rnum \cup {n}, r.next) \in Record BY <2>2, RecordMade
    <3> QED BY <3>1, <3>2, <2>1
  <2>4. CASE ~ (Cardinality(r.rnum) < Slots)
    <3>1. Inserts(db, b, n, new) = <<<<last, List(r.rnum, new)>>, <<new, List({n}, 0)>>>>
      BY <1>4, <2>4 DEF Inserts
    <3>2. List(r.rnum, new) \in Record /\ List({n}, 0) \in Record
      BY <2>2, RecordMade, InRec
    <3> QED BY <3>1, <3>2, <2>1
  <2> QED BY <2>3, <2>4
<1>5. CASE /\ HasTable(db) /\ item # 0 /\ db[item].type # "trust"
           /\ ~ {item, last} \subseteq Lists(db)
  BY <1>5 DEF Inserts
<1> QED BY <1>1, <1>2, <1>3, <1>4, <1>5

-----------------------------------------------------------------------------
THEOREM InitInv == Init => IInv
<1> SUFFICES ASSUME Init PROVE IInv OBVIOUS
<1>1. Filled(file, 0) BY InRec DEF Init, Filled
<1>2. Size = 0 BY <1>1, SizeIs, InRec DEF Size
<1>3. TypeOK
  <2>1. file \in [Rec -> Record \cup {Missing}] /\ cache \in [Rec -> Record \cup {Missing}]
    BY DEF Init
  <2>2. map \in [Key -> Trust \cup {NoTrust}] /\ asked \in [Key -> SUBSET (Trust \cup {NoTrust})]
    BY DEF Init
  <2>3. todo \in Seq(Rec \X Record) /\ pc = "down" /\ todo = <<>> BY DEF Init
  <2>4. dirty = {} /\ touched = {} /\ damaged = {} BY DEF Init
  <2>5. exists = FALSE /\ isDirty = FALSE /\ torn = FALSE BY DEF Init
  <2> QED BY <2>1, <2>2, <2>3, <2>4, <2>5 DEF TypeOK
<1>4. Near(cache, todo, 0) BY DEF Init, Near
<1>5. Kept(file, cache, dirty) /\ (dirty # {} => isDirty) BY DEF Init, Kept
<1> QED BY <1>1, <1>2, <1>3, <1>4, <1>5, InRec DEF IInv

\* The operations, each with what it leaves to be written
LEMMA CreateInv == IInv /\ Create => IInv'
<1> SUFFICES ASSUME IInv, Create PROVE IInv' OBVIOUS
<1>1. todo' = <<<<0, Version(0)>>>> /\ <<0, Version(0)>> \in Rec \X Record
  BY InRec, RecordMade DEF Create
<1>2. Size' = Size BY DEF Create, Size
<1>3. TypeOK' BY <1>1 DEF IInv, TypeOK, Create, memory, history
<1>4. Near(cache', todo', Size) BY <1>1 DEF IInv, Near, Create, memory
<1> QED BY <1>2, <1>3, <1>4 DEF IInv, Create, memory

LEMMA OpenInv == IInv /\ OpenDb => IInv'
<1> SUFFICES ASSUME IInv, OpenDb PROVE IInv' OBVIOUS
<1>1. Size' = Size BY DEF OpenDb, Size
<1>2. TypeOK' BY DEF IInv, TypeOK, OpenDb, memory, history
<1> QED BY <1>1, <1>2 DEF IInv, OpenDb, memory

LEMMA CreateTableInv == IInv /\ CreateTable => IInv'
<1> SUFFICES ASSUME IInv, CreateTable PROVE IInv' OBVIOUS
<1>1. Size \in Rec BY InRec DEF IInv, CreateTable
<1>2. [b \in Bucket |-> 0] \in [Bucket -> Rec] BY InRec
<1> DEFINE f == [b \in Bucket |-> 0]
           t == <<<<Size, Table(f)>>, <<0, Version(Size)>>>>
<1> HIDE DEF f
<1>3. /\ todo' = t
      /\ <<Size, Table(f)>> \in Rec \X Record /\ <<0, Version(Size)>> \in Rec \X Record
  BY <1>1, <1>2, InRec, RecordMade DEF CreateTable, f
<1>4. Size' = Size BY DEF CreateTable, Size
<1>5. TypeOK' BY <1>3 DEF IInv, TypeOK, CreateTable, memory
<1>6. Near(cache', todo', Size) BY <1>1, <1>3, InRec DEF IInv, Near, CreateTable, memory
<1> QED BY <1>4, <1>5, <1>6 DEF IInv, CreateTable, memory

LEMMA ChangeInv ==
  ASSUME IInv, NEW k \in Key, NEW v \in Trust, Change(k, v)
  PROVE  IInv'
<1>1. PICK n \in Rec : View[n].type = "trust" /\ todo' = <<<<n, TrustRec(k, v)>>>>
  BY DEF Change
<1>2. n <= Size BY <1>1, ViewTypes DEF Present, Missing
<1>3. <<n, TrustRec(k, v)>> \in Rec \X Record BY RecordMade
<1>4. Size' = Size BY DEF Change, Size
<1>5. map' \in [Key -> Trust \cup {NoTrust}] /\ asked' \in [Key -> SUBSET (Trust \cup {NoTrust})]
  BY DEF IInv, TypeOK, Change, Ask
<1>6. TypeOK' BY <1>1, <1>3, <1>5 DEF IInv, TypeOK, Change, memory
<1>7. Near(cache', todo', Size) BY <1>1, <1>2 DEF IInv, Near, Change, memory
<1> QED BY <1>4, <1>6, <1>7 DEF IInv, Change, memory

\* tdbio_new_recnum, one time or more
LEMMA AppendedFilled ==
  ASSUME IInv, NEW z \in Nat, Size < z, z <= MaxRec + 1,
         file' = Appended(Size .. (z - 1))
  PROVE  /\ file' \in [Rec -> Record \cup {Missing}]
         /\ Size' = z /\ z \in 0 .. MaxRec + 1 /\ Filled(file', z)
         /\ Kept(file', cache, dirty)
<1>1. Size \in Nat /\ z \in 0 .. MaxRec + 1 BY InRec DEF IInv
<1>2. Filled(file', z)
  BY <1>1, InRec, NotMissing, RecordMade DEF IInv, Filled, Appended
<1>3. Size' = z BY <1>1, <1>2, SizeNext
<1>4. file' \in [Rec -> Record \cup {Missing}]
  BY RecordMade DEF IInv, TypeOK, Appended
<1>5. ASSUME NEW n \in Rec, cache[n] # Missing, n \notin dirty
      PROVE  cache[n] = file'[n]
  <2>1. cache[n] = file[n] /\ n < Size BY <1>5 DEF IInv, Kept, Filled
  <2> QED BY <1>1, <2>1, InRec DEF Appended
<1> QED BY <1>1, <1>2, <1>3, <1>4, <1>5 DEF Kept

LEMMA InsertInv ==
  ASSUME IInv, NEW k \in Key, NEW v \in Trust, Insert(k, v)
  PROVE  IInv'
<1> DEFINE t == Insertion(k)
<1>1. Size \in Rec /\ Size + 1 \in Rec /\ Size \in Nat /\ Size < MaxRec
  BY InRec DEF IInv, Insert
<1>2. BucketOf[k] \in Bucket BY TrustAssumption
<1>3. t \in Seq((Present(View) \cup {Size + 1}) \X Record)
  BY <1>1, <1>2, ViewTypes, InsertsType DEF Insertion
<1>4. <<<<Size, TrustRec(k, v)>>>> \in Seq({Size} \X Record) BY RecordMade
<1>5. todo' = <<<<Size, TrustRec(k, v)>>>> \o t BY DEF Insert
<1> DEFINE S == Present(View) \cup {Size, Size + 1}
<1>6. S \subseteq Rec /\ \A n \in S : n <= Size + 1
  BY <1>1, ViewTypes, InRec DEF Present
<1>7. todo' \in Seq(S \X Record)
  <2>1. t \in Seq(S \X Record) BY <1>3
  <2>2. <<<<Size, TrustRec(k, v)>>>> \in Seq(S \X Record) BY <1>4
  <2> HIDE DEF t, S
  <2> QED BY <2>1, <2>2, <1>5
<1>8. \A i \in DOMAIN todo' : todo'[i] \in S \X Record BY <1>7
<1>9. PICK z \in {Size + 1, Size + 2} : file' = Appended(Size .. (z - 1))
  <2> DEFINE T == {n \in {Size + 1} : \E i \in DOMAIN todo' : todo'[i][1] = n}
  <2>1. file' = Appended({Size} \cup T) BY DEF Insert
  <2>2. T = {} \/ T = {Size + 1} OBVIOUS
  <2> HIDE DEF T
  <2>3. {Size} = Size .. ((Size + 1) - 1) /\ {Size, Size + 1} = Size .. ((Size + 2) - 1)
    BY <1>1
  <2> QED BY <2>1, <2>2, <2>3
<1>10. /\ file' \in [Rec -> Record \cup {Missing}]
       /\ Size' = z /\ z \in 0 .. MaxRec + 1 /\ Filled(file', z)
       /\ Kept(file', cache, dirty)
  BY <1>1, <1>9, InRec, AppendedFilled
<1>11. todo' # <<>> BY <1>5, <1>3
<1>12. map' \in [Key -> Trust \cup {NoTrust}] /\ asked' \in [Key -> SUBSET (Trust \cup {NoTrust})]
  BY DEF IInv, TypeOK, Insert, Ask
<1>13. touched' \subseteq Bucket BY <1>2 DEF IInv, TypeOK, Insert
<1>14. todo' \in Seq(Rec \X Record) BY <1>6, <1>7
<1>15. TypeOK'
  BY <1>6, <1>8, <1>10, <1>11, <1>12, <1>13, <1>14 DEF IInv, TypeOK, Insert, memory
<1>16. Near(cache', todo', Size')
  <2>1. ASSUME NEW n \in Rec, cache'[n] # Missing PROVE n <= Size'
    BY <1>1, <1>9, <1>10, <2>1, InRec DEF IInv, Near, Insert, memory
  <2>2. \A n \in S : n <= Size'
    <3>1. S \subseteq Nat BY <1>6, InRec
    <3>2. z \in Nat /\ Size + 1 <= z BY <1>1, <1>9
    <3>3. Size' = z BY <1>10
    <3> HIDE DEF S
    <3> QED BY <1>1, <1>6, <3>1, <3>2, <3>3
  <2>3. \A i \in DOMAIN todo' : todo'[i][1] <= Size' BY <1>8, <2>2
  <2> QED BY <2>1, <2>3 DEF Near
<1> QED BY <1>10, <1>15, <1>16 DEF IInv, Insert, memory

\* The end of a process, with or without a record that was appended before
LEMMA StopType ==
  ASSUME TypeOK, Stop, file' \in [Rec -> Record \cup {Missing}]
  PROVE  TypeOK'
<1>1. map' \in [Key -> Trust \cup {NoTrust}]
  <2>1. ASSUME NEW k \in Key
        PROVE  (IF Lookup(file, k) \in asked[k] THEN Lookup(file, k) ELSE map[k])
                 \in Trust \cup {NoTrust}
    BY DEF TypeOK
  <2> QED BY <2>1 DEF Stop
<1>2. asked' \in [Key -> SUBSET (Trust \cup {NoTrust})]
  <2>1. ASSUME NEW k \in Key
        PROVE  (IF Lookup(file, k) \in asked[k] THEN {map'[k]} ELSE asked[k])
                 \in SUBSET (Trust \cup {NoTrust})
    BY <1>1 DEF TypeOK
  <2> QED BY <2>1 DEF Stop
<1>3. todo' \in Seq(Rec \X Record) /\ pc' = "down" /\ todo' = <<>> BY DEF Stop
<1>4. cache' \in [Rec -> Record \cup {Missing}] /\ dirty' = {} BY DEF Stop
<1>5. touched' \subseteq Bucket /\ damaged' \subseteq Bucket BY DEF TypeOK, Stop
<1>6. exists' \in BOOLEAN /\ isDirty' \in BOOLEAN /\ torn' \in BOOLEAN BY DEF TypeOK, Stop
<1> QED BY <1>1, <1>2, <1>3, <1>4, <1>5, <1>6 DEF TypeOK

LEMMA StopInv ==
  ASSUME IInv, Stop, file' \in [Rec -> Record \cup {Missing}],
         Size' \in 0 .. MaxRec + 1, Filled(file', Size')
  PROVE  IInv'
<1>1. TypeOK' BY StopType DEF IInv
<1>2. Near(cache', todo', Size') BY DEF Stop, Near
<1>3. Kept(file', cache', dirty') /\ dirty' = {} BY DEF Stop, Kept
<1> QED BY <1>1, <1>2, <1>3 DEF IInv

LEMMA EndsInv == IInv /\ Ends => IInv'
<1> SUFFICES ASSUME IInv, Ends PROVE IInv' OBVIOUS
<1>1. file' = file /\ Size' = Size BY DEF Ends, Size
<1> QED BY <1>1, StopInv DEF IInv, TypeOK, Ends

LEMMA InvalidInv == ASSUME IInv, NEW k \in Key, Invalid(k) PROVE IInv'
<1>1. CASE UNCHANGED file
  <2>1. Size' = Size BY <1>1 DEF Size
  <2> QED BY <1>1, <2>1, StopInv DEF IInv, TypeOK, Invalid
<1>2. CASE Size <= MaxRec /\ file' = Appended({Size})
  <2> DEFINE z == Size + 1
  <2>1. z \in Nat /\ {Size} = Size .. (z - 1) /\ Size < z /\ z <= MaxRec + 1
    BY <1>2, InRec DEF IInv
  <2>2. file' = Appended(Size .. (z - 1)) BY <1>2, <2>1
  <2> HIDE DEF z
  <2>3. /\ file' \in [Rec -> Record \cup {Missing}]
        /\ Size' \in 0 .. MaxRec + 1 /\ Filled(file', Size')
    BY <2>1, <2>2, AppendedFilled
  <2> QED BY <2>3, StopInv DEF Invalid
<1> QED BY <1>1, <1>2 DEF Invalid

-----------------------------------------------------------------------------
\* The cache: the record that is put there, and what makes room for it
LEMMA StoreInv ==
  ASSUME IInv, pc = "put", NEW m, Store(m),
         dirty' \subseteq {n \in Rec : cache'[n] # Missing},
         isDirty' \in BOOLEAN, dirty' # {} => isDirty', dirty \subseteq dirty',
         todo[1][1] \notin dirty' => cache[todo[1][1]] = todo[1][2]
  PROVE  IInv'
<1> DEFINE e == todo[1]
<1>1. todo # <<>> /\ todo \in Seq(Rec \X Record) BY DEF IInv, TypeOK
<1>2. 1 \in DOMAIN todo /\ e \in Rec \X Record BY <1>1
<1>3. e[1] \in Rec /\ e[2] \in Record /\ e[1] <= Size BY <1>2 DEF IInv, Near
<1>4. cache' = [n \in Rec |-> IF n = e[1] THEN e[2] ELSE IF n \in m THEN Missing ELSE cache[n]]
  BY DEF Store
<1>5. todo' = Tail(todo) /\ UNCHANGED <<exists, file, history>> BY DEF Store
<1> HIDE DEF e
<1>6. cache' \in [Rec -> Record \cup {Missing}] BY <1>3, <1>4 DEF IInv, TypeOK
<1>7. /\ todo' \in Seq(Rec \X Record) /\ Len(todo') = Len(todo) - 1
      /\ \A i \in DOMAIN todo' : i + 1 \in DOMAIN todo /\ todo'[i] = todo[i + 1]
  BY <1>1, <1>5
<1>8. pc' \in {"down", "run", "put", "sync"} /\ (pc' = "put" <=> todo' # <<>>)
  <2>1. todo' # <<>> <=> Len(todo) > 1 BY <1>1, <1>7
  <2> QED BY <2>1 DEF Store
<1>9. Size' = Size BY <1>5 DEF Size
<1>10. TypeOK' BY <1>5, <1>6, <1>7, <1>8 DEF IInv, TypeOK, history
<1>11. Near(cache', todo', Size)
  <2>1. ASSUME NEW n \in Rec, cache'[n] # Missing PROVE n <= Size
    BY <1>3, <1>4, <2>1 DEF IInv, Near
  <2>2. \A i \in DOMAIN todo' : todo'[i][1] <= Size BY <1>7 DEF IInv, Near
  <2> QED BY <2>1, <2>2 DEF Near
<1>12. Kept(file, cache', dirty')
  <2> SUFFICES ASSUME NEW n \in Rec, cache'[n] # Missing, n \notin dirty'
               PROVE  cache'[n] = file[n]
    BY DEF Kept
  <2>1. CASE n = e[1]
    <3>1. cache[n] = e[2] BY <2>1 DEF e
    <3>2. cache[n] = file[n] BY <1>3, <3>1, RecordFields DEF IInv, Kept
    <3> QED BY <1>4, <2>1, <3>1, <3>2
  <2>2. CASE n # e[1] BY <1>4, <2>2 DEF IInv, Kept
  <2> QED BY <2>1, <2>2
<1> QED BY <1>5, <1>9, <1>10, <1>11, <1>12 DEF IInv

LEMMA NextItem == ASSUME IInv, pc = "put" PROVE todo[1][1] \in Rec /\ todo[1][2] \in Record
<1>1. todo # <<>> /\ todo \in Seq(Rec \X Record) BY DEF IInv, TypeOK
<1> QED BY <1>1

LEMMA PutCachedInv == IInv /\ PutCached => IInv'
<1> SUFFICES ASSUME IInv, PutCached PROVE IInv' OBVIOUS
<1> DEFINE e == todo[1]
<1>1. e[1] \in Rec /\ e[2] \in Record /\ e[2] # Missing BY NextItem, RecordFields DEF PutCached
<1>2. dirty' = (IF cache[e[1]] = e[2] THEN dirty ELSE dirty \cup {e[1]}) BY DEF PutCached
<1>3. isDirty' = (isDirty \/ cache[e[1]] # e[2]) BY DEF PutCached
<1>4. \A n \in Rec : cache'[n] = IF n = e[1] THEN e[2] ELSE cache[n] BY DEF PutCached, Store
<1> HIDE DEF e
<1>5. dirty' \subseteq {n \in Rec : cache'[n] # Missing} /\ dirty \subseteq dirty'
  BY <1>1, <1>2, <1>4 DEF IInv, TypeOK
<1>6. dirty' # {} => isDirty' BY <1>2, <1>3 DEF IInv
<1>7. isDirty' \in BOOLEAN BY <1>3 DEF IInv, TypeOK
<1>8. e[1] \notin dirty' => cache[e[1]] = e[2] BY <1>2
<1> QED BY <1>5, <1>6, <1>7, <1>8, StoreInv DEF PutCached, e

LEMMA PutNewInv == IInv /\ PutNew => IInv'
<1> SUFFICES ASSUME IInv, PutNew PROVE IInv' OBVIOUS
<1> DEFINE e == todo[1]
<1>1. e[1] \in Rec /\ e[2] \in Record /\ e[2] # Missing BY NextItem, RecordFields DEF PutNew
<1>2. dirty' = dirty \cup {e[1]} /\ isDirty' = TRUE BY DEF PutNew
<1>3. PICK m : Store(m) /\ m \cap dirty = {}
  <2>1. CASE Store({}) BY <2>1
  <2>2. CASE \E n \in Cached \ dirty : Store({n})
    <3>1. PICK n \in Cached \ dirty : Store({n}) BY <2>2
    <3>2. {n} \cap dirty = {} OBVIOUS
    <3> QED BY <3>1, <3>2
  <2> QED BY <2>1, <2>2 DEF PutNew
<1>4. \A n \in Rec : cache'[n] = IF n = e[1] THEN e[2] ELSE IF n \in m THEN Missing ELSE cache[n]
  BY <1>3 DEF Store
<1> HIDE DEF e
<1>5. dirty' \subseteq {n \in Rec : cache'[n] # Missing}
  BY <1>1, <1>2, <1>3, <1>4 DEF IInv, TypeOK
<1> QED BY <1>2, <1>3, <1>5, StoreInv DEF PutNew, e

\* A record that is written is in the file or the next one there.
LEMMA WriteItemFilled ==
  ASSUME IInv, NEW n \in dirty, WriteItem(n)
  PROVE  /\ n \in Rec /\ file' = [file EXCEPT ![n] = cache[n]] /\ dirty' = dirty \ {n}
         /\ file' \in [Rec -> Record \cup {Missing}]
         /\ Size' \in 0 .. MaxRec + 1 /\ Filled(file', Size') /\ Size <= Size'
         /\ Kept(file', cache, dirty') /\ torn' = TRUE
<1>1. n \in Rec /\ n <= Size /\ cache[n] \in Record /\ cache[n] # Missing
  BY DEF IInv, TypeOK, Near
<1>2. file' = [file EXCEPT ![n] = cache[n]] /\ dirty' = dirty \ {n} /\ torn' = TRUE BY DEF WriteItem
<1>3. file' \in [Rec -> Record \cup {Missing}] BY <1>1, <1>2 DEF IInv, TypeOK
<1>4. \A m \in Rec : file'[m] = IF m = n THEN cache[n] ELSE file[m] BY <1>2 DEF IInv, TypeOK
<1> DEFINE z == IF n = Size THEN Size + 1 ELSE Size
<1>5. z \in 0 .. MaxRec + 1 /\ Size <= z /\ Size \in Nat
  <2>1. Size \in 0 .. MaxRec + 1 /\ MaxRec \in Nat /\ n \in 0 .. MaxRec
    BY <1>1, InRec DEF IInv, Rec
  <2> QED BY <2>1
<1>6. Filled(file', z) BY <1>1, <1>4, InRec DEF IInv, Filled
<1>7. Size' = z BY <1>5, <1>6, SizeNext
<1>8. Kept(file', cache, dirty') BY <1>2, <1>4 DEF IInv, Kept
<1> QED BY <1>1, <1>2, <1>3, <1>5, <1>6, <1>7, <1>8

LEMMA LeqTrans ==
  ASSUME NEW a \in Nat, NEW b \in Nat, NEW c \in Nat, a <= b, b <= c
  PROVE  a <= c
OBVIOUS

LEMMA NearLater ==
  ASSUME IInv, Size' \in 0 .. MaxRec + 1, Size <= Size'
  PROVE  Near(cache, todo, Size')
<1>1. ASSUME NEW n \in Rec, cache[n] # Missing PROVE n <= Size'
  BY <1>1, InRec DEF IInv, Near
<1>2. ASSUME NEW i \in DOMAIN todo PROVE todo[i][1] <= Size'
  <2>1. todo[i] \in Rec \X Record BY <1>2 DEF IInv, TypeOK
  <2>2. todo[i][1] \in Rec /\ todo[i][1] <= Size BY <1>2, <2>1 DEF IInv, Near
  <2>3. todo[i][1] \in Nat BY <2>2, InRec
  <2>4. Size \in Nat /\ Size' \in Nat BY InRec DEF IInv
  <2> DEFINE n == todo[i][1]
  <2> HIDE DEF n
  <2> QED BY <2>2, <2>3, <2>4, LeqTrans DEF n
<1> QED BY <1>1, <1>2 DEF Near

LEMMA FlushInv == IInv /\ Flush => IInv'
<1> SUFFICES ASSUME IInv, Flush PROVE IInv' OBVIOUS
<1>1. PICK n \in dirty : WriteItem(n) /\ cache' = [cache EXCEPT ![n] = Missing] BY DEF Flush
<1>2. /\ n \in Rec /\ file' \in [Rec -> Record \cup {Missing}] /\ dirty' = dirty \ {n}
      /\ Size' \in 0 .. MaxRec + 1 /\ Filled(file', Size') /\ Size <= Size'
      /\ Kept(file', cache, dirty') /\ torn' = TRUE
  BY <1>1, WriteItemFilled
<1>3. cache' \in [Rec -> Record \cup {Missing}] BY <1>1, <1>2 DEF IInv, TypeOK
<1>4. \A m \in Rec : cache'[m] = IF m = n THEN Missing ELSE cache[m]
  BY <1>1 DEF IInv, TypeOK
<1>5. TypeOK' BY <1>2, <1>3, <1>4 DEF IInv, TypeOK, Flush
<1>6. Near(cache', todo', Size') BY <1>2, <1>4, NearLater DEF Near, Flush
<1>7. Kept(file', cache', dirty') BY <1>2, <1>4 DEF Kept
<1>8. dirty' # {} => isDirty' BY <1>2 DEF IInv, Flush
<1> QED BY <1>2, <1>5, <1>6, <1>7, <1>8 DEF IInv

LEMMA SyncWriteInv == IInv /\ SyncWrite => IInv'
<1> SUFFICES ASSUME IInv, SyncWrite PROVE IInv' OBVIOUS
<1>1. PICK n \in dirty : WriteItem(n) BY DEF SyncWrite
<1>2. /\ file' \in [Rec -> Record \cup {Missing}] /\ dirty' = dirty \ {n}
      /\ Size' \in 0 .. MaxRec + 1 /\ Filled(file', Size') /\ Size <= Size'
      /\ Kept(file', cache, dirty') /\ torn' = TRUE
  BY <1>1, WriteItemFilled
<1>3. TypeOK' BY <1>2 DEF IInv, TypeOK, SyncWrite
<1>4. Near(cache', todo', Size') BY <1>2, NearLater DEF SyncWrite
<1>5. Kept(file', cache', dirty') BY <1>2 DEF SyncWrite
<1>6. dirty' # {} => isDirty' BY <1>2 DEF IInv, SyncWrite
<1> QED BY <1>2, <1>3, <1>4, <1>5, <1>6 DEF IInv

LEMMA SyncInv == IInv /\ Sync => IInv'
<1> SUFFICES ASSUME IInv, Sync PROVE IInv' OBVIOUS
<1>1. Size' = Size BY DEF Sync, Size
<1>2. TypeOK' BY DEF IInv, TypeOK, Sync, memory, history
<1> QED BY <1>1, <1>2 DEF IInv, Sync, memory

LEMMA SyncDoneInv == IInv /\ SyncDone => IInv'
<1> SUFFICES ASSUME IInv, SyncDone PROVE IInv' OBVIOUS
<1>1. Size' = Size BY DEF SyncDone, Size
<1>2. asked' \in [Key -> SUBSET (Trust \cup {NoTrust})] BY DEF IInv, TypeOK, SyncDone
<1>3. TypeOK' BY <1>2 DEF IInv, TypeOK, SyncDone
<1> QED BY <1>1, <1>3 DEF IInv, SyncDone

-----------------------------------------------------------------------------
THEOREM StepInv == IInv /\ [Next]_vars => IInv'
<1> SUFFICES ASSUME IInv, [Next]_vars PROVE IInv' OBVIOUS
<1>1. CASE UNCHANGED vars
  <2>1. UNCHANGED <<exists, file, cache, dirty, isDirty, todo, pc,
                   map, asked, touched, torn, damaged>>
    BY <1>1 DEF vars, memory, history
  <2>2. Size' = Size BY <2>1 DEF Size
  <2> QED BY <2>1, <2>2 DEF IInv, TypeOK
<1>2. CASE Create \/ OpenDb \/ CreateTable BY <1>2, CreateInv, OpenInv, CreateTableInv
<1>3. ASSUME NEW k \in Key, Invalid(k) PROVE IInv' BY <1>3, InvalidInv
<1>4. ASSUME NEW k \in Key, NEW v \in Trust, Change(k, v) \/ Insert(k, v) PROVE IInv'
  BY <1>4, ChangeInv, InsertInv
<1>5. CASE PutCached \/ PutNew \/ Flush BY <1>5, PutCachedInv, PutNewInv, FlushInv
<1>6. CASE Sync \/ SyncWrite \/ SyncDone \/ Ends
  BY <1>6, SyncInv, SyncWriteInv, SyncDoneInv, EndsInv
<1> QED BY <1>1, <1>2, <1>3, <1>4, <1>5, <1>6 DEF Next

\* The trust database is well typed at every moment, and so are the records
\* that an operation has still to write (g10/tdbio.c).
THEOREM TrustTypeOK == Spec => []TypeOK
<1>1. IInv => TypeOK BY DEF IInv
<1> QED BY <1>1, InitInv, StepInv, PTL DEF Spec

\* A process that discards a clean record of its cache, or ends when the cache
\* is not dirty, loses nothing: what is clean is in the file, and cache_is_dirty
\* is set as long as anything is not (put_record_into_cache, tdbio_sync).
THEOREM TrustCacheKnown == Spec => []CacheKnown
<1>1. IInv => CacheKnown BY DEF IInv, Kept, CacheKnown, Cached
<1> QED BY <1>1, InitInv, StepInv, PTL DEF Spec

\* The file has no holes: a process that appends a record gives it a number
\* that nothing in its cache has (tdbio_new_recnum).
NoHoles == \A m, n \in Rec : file[m] # Missing /\ n < m => file[n] # Missing
THEOREM TrustNoHoles == Spec => []NoHoles
<1>1. IInv => NoHoles BY InRec DEF IInv, Filled, NoHoles
<1> QED BY <1>1, InitInv, StepInv, PTL DEF Spec

-----------------------------------------------------------------------------
\* A set of record numbers has a greatest one.
LEMMA NatWF == IsWellFoundedOn({ss \in Nat \X Nat : ss[1] < ss[2]}, Nat)
BY NatLessThanWellFounded DEF OpToRel

LEMMA Greatest ==
  ASSUME NEW S, S \subseteq Rec, S # {}
  PROVE  \E x \in S : \A y \in S : y <= x
<1> DEFINE R == {ss \in Nat \X Nat : ss[1] < ss[2]}
           T == {MaxRec - x : x \in S}
<1>1. IsWellFoundedOn(R, Nat) BY NatWF
<1>2. MaxRec \in Nat /\ \A x \in S : x \in 0 .. MaxRec BY TrustAssumption DEF Rec
<1>3. T \subseteq Nat /\ T # {}
  <2>1. \A x \in S : MaxRec - x \in Nat BY <1>2
  <2> QED BY <2>1
<1> HIDE DEF R, T
<1>4. PICK t \in T : \A y \in T : ~ (<<y, t>> \in R) BY <1>1, <1>3, WFMin
<1>5. \A y \in T : t <= y
  <2> TAKE y \in T
  <2>1. y \in Nat /\ t \in Nat /\ ~ (<<y, t>> \in R) BY <1>3, <1>4
  <2>2. ~ (y < t) BY <2>1 DEF R
  <2> QED BY <2>1, <2>2
<1>6. PICK x \in S : t = MaxRec - x BY <1>4 DEF T
<1>7. \A y \in S : y <= x
  <2> TAKE y \in S
  <2>1. t <= MaxRec - y BY <1>5 DEF T
  <2> QED BY <1>2, <1>6, <2>1
<1> QED BY <1>7

\* A value that is passed back along nx, from the records of stop
Walks(g, stop, nx, val) ==
  /\ g = [n \in Rec |-> g[n]]
  /\ \A n \in stop : g[n] = val[n]
  /\ \A n \in Rec \ stop : g[n] = g[nx[n]]

\* A function that is passed back from the end of each way through the records
\* exists, even if some ways have no end.
LEMMA WalkExists ==
  ASSUME NEW stop \in SUBSET Rec, NEW nx \in [Rec -> Rec], NEW val
  PROVE  \E g : Walks(g, stop, nx, val)
<1> DEFINE Cl(S) == \A x \in S : x \notin stop => nx[x] \in S
           Trail(n) == {m \in Rec : \A S \in SUBSET Rec : n \in S /\ Cl(S) => m \in S}
           E(n) == Trail(n) \cap stop
           g == [n \in Rec |-> IF E(n) = {} THEN 0 ELSE val[CHOOSE e \in E(n) : TRUE]]
<1>1. ASSUME NEW n \in stop PROVE E(n) = {n}
  <2>1. {n} \in SUBSET Rec /\ Cl({n}) BY <1>1
  <2>2. Trail(n) \subseteq {n} BY <2>1
  <2>3. n \in Trail(n) BY <1>1
  <2> QED BY <1>1, <2>2, <2>3
<1>2. ASSUME NEW n \in Rec \ stop PROVE E(n) = E(nx[n])
  <2>1. Trail(nx[n]) \subseteq Trail(n) BY <1>2
  <2>2. Trail(n) \subseteq {n} \cup Trail(nx[n])
    <3> DEFINE S == {n} \cup Trail(nx[n])
    <3>1. S \in SUBSET Rec /\ n \in S OBVIOUS
    <3>2. nx[n] \in Trail(nx[n]) BY <1>2
    <3>3. ASSUME NEW x \in Trail(nx[n]), x \notin stop PROVE nx[x] \in Trail(nx[n])
      BY <3>3
    <3>4. Cl(S) BY <3>2, <3>3
    <3> QED BY <3>1, <3>4
  <2> QED BY <2>1, <2>2
<1>3. \A n \in Rec : g[n] = IF n \in stop THEN val[n] ELSE g[nx[n]]
  <2> TAKE n \in Rec
  <2>1. CASE n \in stop
    <3>1. E(n) = {n} BY <1>1, <2>1
    <3> HIDE DEF E
    <3>2. g[n] = val[CHOOSE e \in {n} : TRUE] BY <3>1
    <3> QED BY <2>1, <3>2
  <2>2. CASE n \notin stop
    <3>1. E(n) = E(nx[n]) /\ nx[n] \in Rec BY <1>2, <2>2
    <3> HIDE DEF E
    <3> QED BY <2>2, <3>1
  <2> QED BY <2>1, <2>2
<1>4. g = [n \in Rec |-> g[n]] OBVIOUS
<1> HIDE DEF g
<1>5. Walks(g, stop, nx, val) BY <1>3, <1>4 DEF Walks
<1> QED BY <1>5

-----------------------------------------------------------------------------
\* Which records follow in a list, and what can be reached that way
Follows(db, n) == IF n \in Lists(db) /\ db[n].next # 0 THEN {db[n].next} ELSE {}
Closed(db, S) == \A n \in S : Follows(db, n) \subseteq S
Reach(db, s) == {n \in Rec : \A S \in SUBSET Rec : s \in S /\ Closed(db, S) => n \in S}
Holds(db, n, k) == db[n].type = "trust" /\ db[n].key = k

\* The members and the successor of a list record are record numbers.
LEMMA ListTypes ==
  ASSUME NEW db, Database(db), NEW n \in Lists(db)
  PROVE  n \in Rec /\ db[n].rnum \in SUBSET Rec /\ db[n].next \in Rec
<1>1. n \in Rec /\ db[n] \in Record BY DEF Lists, Database, Missing
<1> QED BY <1>1, RecordFields DEF Lists

\* Reach is closed, and the least such set.
LEMMA ReachClosed ==
  ASSUME NEW db, Database(db), NEW s \in Rec
  PROVE  s \in Reach(db, s) /\ Closed(db, Reach(db, s)) /\ Reach(db, s) \subseteq Rec
<1>1. ASSUME NEW n \in Reach(db, s) PROVE Follows(db, n) \subseteq Reach(db, s)
  <2>1. Follows(db, n) \subseteq Rec BY ListTypes DEF Follows
  <2> QED BY <2>1 DEF Reach, Closed
<1> QED BY <1>1 DEF Reach, Closed

LEMMA ReachLeast ==
  ASSUME NEW db, NEW s, NEW S, S \subseteq Rec, s \in S, Closed(db, S)
  PROVE  Reach(db, s) \subseteq S
BY DEF Reach

\* The two walks along a list do what their definitions say.
LEMMA LastWalks ==
  ASSUME NEW db, Database(db)
  PROVE  \A n \in Rec : Last(db)[n] = IF Follows(db, n) = {} THEN n ELSE Last(db)[db[n].next]
<1> DEFINE stop == {n \in Rec : Follows(db, n) = {}}
           nx == [n \in Rec |-> IF n \in stop THEN n ELSE db[n].next]
           val == [n \in Rec |-> n]
           Body(g) == [n \in Rec |-> IF n \in Lists(db) /\ db[n].next # 0 THEN g[db[n].next] ELSE n]
<1>1. nx \in [Rec -> Rec] BY ListTypes DEF Follows
<1>2. PICK g : Walks(g, stop, nx, val)
  <2> HIDE DEF nx, stop, val
  <2>1. stop \in SUBSET Rec BY DEF stop
  <2> QED BY <1>1, <2>1, WalkExists
<1>3. g = Body(g)
  <2>1. \A n \in Rec : g[n] = Body(g)[n]
    BY <1>2 DEF Follows, Walks
  <2> QED BY <1>2, <2>1 DEF Walks
<1>4. Last(db) = CHOOSE f : f = Body(f) BY DEF Last
<1> HIDE DEF Body
<1>5. Last(db) = Body(Last(db)) BY <1>3, <1>4
<1> USE DEF Body
<1> QED BY <1>5 DEF Follows

\* The trust records of a key, and those of them in one list record
Of(db, k) == {m \in Rec : Holds(db, m, k)}
Hit(db, k, n) == db[n].rnum \cap Of(db, k)

LEMMA ListedWalks ==
  ASSUME NEW db, Database(db), NEW k
  PROVE  \A n \in Rec :
           Listed(db, k)[n] =
             IF n \notin Lists(db) THEN Failed
             ELSE IF Hit(db, k, n) # {} THEN CHOOSE m \in Hit(db, k, n) : TRUE
             ELSE IF db[n].next # 0 THEN Listed(db, k)[db[n].next] ELSE 0
<1> DEFINE found == [n \in Rec |-> CHOOSE m \in Hit(db, k, n) : TRUE]
           stop == {n \in Rec : Follows(db, n) = {} \/ Hit(db, k, n) # {}}
           nx == [n \in Rec |-> IF n \in stop THEN n ELSE db[n].next]
           val == [n \in Rec |-> IF n \notin Lists(db) THEN Failed
                                 ELSE IF Hit(db, k, n) # {} THEN found[n] ELSE 0]
           Body(g) == [n \in Rec |->
             IF db[n].type # "hlst" THEN Failed
             ELSE IF Hit(db, k, n) # {} THEN CHOOSE m \in Hit(db, k, n) : TRUE
             ELSE IF db[n].next # 0 THEN g[db[n].next] ELSE 0]
           Step(f, n) == IF n \notin Lists(db) THEN Failed
                         ELSE IF Hit(db, k, n) # {} THEN found[n]
                         ELSE IF db[n].next # 0 THEN f[db[n].next] ELSE 0
<1>1. nx \in [Rec -> Rec] BY ListTypes DEF Follows
<1>2. PICK g : Walks(g, stop, nx, val)
  <2> HIDE DEF nx, stop, val
  <2>1. stop \in SUBSET Rec BY DEF stop
  <2> QED BY <1>1, <2>1, WalkExists
<1>3. \A f : \A n \in Rec : Body(f)[n] = Step(f, n)
  BY DEF Lists
<1>4. g = Body(g)
  <2> HIDE DEF found
  <2>1. \A n \in stop : val[n] = Step(g, n)
    BY DEF Follows
  <2>11. \A n \in Rec \ stop : g[nx[n]] = Step(g, n)
    BY DEF Follows
  <2>12. stop \in SUBSET Rec OBVIOUS
  <2>2. Body(g) = [n \in Rec |-> Body(g)[n]] OBVIOUS
  <2> HIDE DEF Body, Step, stop, val, nx
  <2>3. \A n \in Rec : g[n] = Body(g)[n] BY <1>2, <1>3, <2>1, <2>11, <2>12 DEF Walks
  <2> QED BY <1>2, <2>2, <2>3 DEF Walks
<1>5. Listed(db, k) = CHOOSE f : f = Body(f) BY DEF Listed, Hit, Of, Holds
<1> HIDE DEF Body
<1>6. Listed(db, k) = Body(Listed(db, k)) BY <1>4, <1>5
<1>7. \A n \in Rec : Listed(db, k)[n] = Step(Listed(db, k), n) BY <1>3, <1>6
<1> QED BY <1>7

-----------------------------------------------------------------------------
\* The list of a bucket, the trust records that it has, and both
Chain(db, b) == IF HasTable(db) /\ Item(db, b) # 0 THEN Reach(db, Item(db, b)) ELSE {}
Members(db, b) ==
  {n \in Rec : \/ \E m \in Chain(db, b) \cap Lists(db) : n \in db[m].rnum
               \/ n \in Chain(db, b) /\ n = Item(db, b) /\ db[n].type = "trust"}
Linked(db, b) == Chain(db, b) \cup Members(db, b)

\* No record is in two buckets, or in another one than that of its key; none
\* comes twice, or twice for a key.  But it may be that some were never written.
SoundIn(db, b) ==
  /\ \A n \in Chain(db, b) : \/ db[n].type \in {"hlst", "unused"}
                             \/ n = Item(db, b) /\ db[n].type = "trust"
  /\ \A n \in Members(db, b) :
       /\ db[n].type \in {"trust", "unused"}
       /\ db[n].type = "trust" => BucketOf[db[n].key] = b
  /\ \A m, n \in Members(db, b) :
       db[m].type = "trust" /\ db[n].type = "trust" /\ db[m].key = db[n].key => m = n
Rooted(db) ==
  /\ db[0].type \in {"missing", "unused", "ver"}
  /\ TableOf(db) # 0 => db[TableOf(db)].type \in {"missing", "unused", "htbl"}
Upward(db) == \A n \in Lists(db) : db[n].next = 0 \/ n < db[n].next
Disjoint(db) == \A b, c \in Bucket : b # c => Linked(db, b) \cap Linked(db, c) = {}
Sound(db) == Rooted(db) /\ Upward(db) /\ Disjoint(db) /\ \A b \in Bucket : SoundIn(db, b)

\* There is a table, and all was written.
Whole(db, b) ==
  /\ TableOf(db) # 0 => HasTable(db)
  /\ \A n \in Linked(db, b) : db[n].type # "unused"

\* What the search does, by what it comes upon
LEMMA FindIs ==
  ASSUME NEW db, Database(db), Rooted(db), NEW k \in Key
  PROVE  LET item == Item(db, BucketOf[k])
         IN /\ HasTable(db) => TableOf(db) # 0 /\ item \in Rec
            /\ TableOf(db) = 0 => Find(db, k) = 0
            /\ TableOf(db) # 0 /\ ~ HasTable(db) => Find(db, k) \in {0, Failed}
            /\ HasTable(db) /\ item \in Lists(db) => Find(db, k) = Listed(db, k)[item]
            /\ HasTable(db) /\ db[item].type = "trust" =>
                 Find(db, k) = IF db[item].key = k THEN item ELSE 0
            /\ HasTable(db) /\ db[item].type \notin {"hlst", "trust"} => Find(db, k) = 0
<1> DEFINE t == TableOf(db)
           item == Item(db, BucketOf[k])
<1>1. HasTable(db) => t # 0 BY DEF HasTable, Rooted
<1>2. HasTable(db) => item \in Rec
  BY TableTypes, TrustAssumption DEF Item
<1>3. HasTable(db) => db[t] # Missing BY DEF HasTable, Missing
<1>4. Find(db, k) =
        CASE t = 0 \/ db[t] = Missing -> 0
          [] t # 0 /\ db[t] # Missing /\ ~ HasTable(db) -> Failed
          [] HasTable(db) /\ db[item].type = "hlst" -> Listed(db, k)[item]
          [] HasTable(db) /\ db[item].type = "trust" -> IF db[item].key = k THEN item ELSE 0
          [] OTHER -> 0
  BY DEF Find
<1>5. HasTable(db) => (item \in Lists(db) <=> db[item].type = "hlst") BY <1>2 DEF Lists
<1> HIDE DEF t, item
<1>6. CASE t = 0 BY <1>1, <1>4, <1>6 DEF t, item
<1>7. CASE t # 0 /\ ~ HasTable(db) BY <1>4, <1>7 DEF t, item
<1>8. CASE HasTable(db) /\ db[item].type = "hlst" BY <1>1, <1>2, <1>3, <1>4, <1>5, <1>8 DEF t, item
<1>9. CASE HasTable(db) /\ db[item].type = "trust" BY <1>1, <1>2, <1>3, <1>4, <1>5, <1>9 DEF t, item
<1>10. CASE HasTable(db) /\ db[item].type \notin {"hlst", "trust"}
  BY <1>1, <1>2, <1>3, <1>4, <1>5, <1>10 DEF t, item
<1> QED BY <1>6, <1>7, <1>8, <1>9, <1>10

\* In a list that has an end, what is not listed is not found.
LEMMA ReachEnds ==
  ASSUME NEW db, Database(db), Upward(db), NEW s \in Rec
  PROVE  \E t \in Reach(db, s) : Follows(db, t) = {}
<1>1. PICK t \in Reach(db, s) : \A x \in Reach(db, s) : x <= t BY ReachClosed, Greatest
<1>2. ASSUME t \in Lists(db), db[t].next # 0 PROVE FALSE
  <2>1. db[t].next \in Reach(db, s) BY <1>2, ReachClosed DEF Closed, Follows
  <2>2. t < db[t].next /\ db[t].next <= t BY <1>1, <1>2, <2>1 DEF Upward
  <2>3. t \in Nat /\ db[t].next \in Nat BY <1>2, ListTypes, InRec
  <2> DEFINE y == db[t].next
  <2> HIDE DEF y
  <2>4. \A i, j \in Nat : ~ (i < j /\ j <= i) OBVIOUS
  <2> QED BY <2>2, <2>3, <2>4 DEF y
<1> QED BY <1>1, <1>2 DEF Follows

\* A record without a successor is alone.
LEMMA ReachOnly ==
  ASSUME NEW db, NEW s \in Rec, Follows(db, s) = {}
  PROVE  Reach(db, s) \subseteq {s}
<1>1. Closed(db, {s}) BY DEF Closed
<1>2. {s} \subseteq Rec /\ s \in {s} OBVIOUS
<1> QED BY <1>1, <1>2, ReachLeast

\* What one record of a list has, and no other, is what the search returns.
LEMMA Reached ==
  ASSUME NEW db, Database(db), NEW k, NEW s \in Rec,
         NEW m \in Reach(db, s) \cap Lists(db), NEW n \in Hit(db, k, m),
         \A x \in Reach(db, s) \cap Lists(db) : Hit(db, k, x) \subseteq {n}
  PROVE  Listed(db, k)[s] = n
<1> DEFINE w == Listed(db, k)
           S == {x \in Reach(db, s) : w[x] = w[s]}
<1> SUFFICES ASSUME w[s] # n PROVE FALSE OBVIOUS
<1>1. S \subseteq Rec /\ s \in S BY ReachClosed
<1>2. ASSUME NEW x \in S \cap Lists(db) PROVE Hit(db, k, x) = {}
  <2> SUFFICES ASSUME Hit(db, k, x) # {} PROVE FALSE OBVIOUS
  <2>1. Hit(db, k, x) = {n} OBVIOUS
  <2>2. x \in Rec /\ w[x] = CHOOSE y \in Hit(db, k, x) : TRUE BY <1>1, <1>2, ListedWalks
  <2>3. w[x] = n BY <2>1, <2>2
  <2> QED BY <2>3
<1>3. ASSUME NEW x \in S \cap Lists(db), db[x].next # 0 PROVE db[x].next \in S
  <2>1. x \in Rec /\ w[x] = w[db[x].next] BY <1>1, <1>2, <1>3, ListedWalks
  <2>2. db[x].next \in Reach(db, s) BY <1>3, ReachClosed DEF Closed, Follows
  <2> QED BY <2>1, <2>2
<1>4. Closed(db, S) BY <1>3 DEF Closed, Follows
<1>5. m \in S
  <2> HIDE DEF S
  <2> QED BY <1>1, <1>4, ReachLeast
<1> QED BY <1>2, <1>5

\* Where no record has it, the search finds nothing, or fails at an empty record.
LEMMA NotReached ==
  ASSUME NEW db, Database(db), Upward(db), NEW k, NEW s \in Rec,
         \A x \in Reach(db, s) \cap Lists(db) : Hit(db, k, x) = {}
  PROVE  /\ Listed(db, k)[s] \in {0, Failed}
         /\ Reach(db, s) \subseteq Lists(db) => Listed(db, k)[s] = 0
<1> DEFINE w == Listed(db, k)
           S == {x \in Reach(db, s) : w[x] = w[s]}
<1>1. S \subseteq Rec /\ s \in S BY ReachClosed
<1>2. ASSUME NEW x \in S \cap Lists(db), db[x].next # 0 PROVE db[x].next \in S
  <2>1. x \in Rec /\ w[x] = w[db[x].next] BY <1>1, <1>2, ListedWalks
  <2>2. db[x].next \in Reach(db, s) BY <1>2, ReachClosed DEF Closed, Follows
  <2> QED BY <2>1, <2>2
<1>3. Closed(db, S) BY <1>2 DEF Closed, Follows
<1>4. PICK t \in Reach(db, s) : Follows(db, t) = {} BY ReachEnds
<1>5. w[t] = w[s]
  <2>1. Reach(db, s) \subseteq S
    <3> HIDE DEF S
    <3> QED BY <1>1, <1>3, ReachLeast
  <2> QED BY <1>4, <2>1
<1>6. t \in Rec BY ReachClosed
<1>7. CASE t \notin Lists(db) BY <1>5, <1>6, <1>7, ListedWalks
<1>8. CASE t \in Lists(db)
  <2>1. db[t].next = 0 BY <1>4, <1>8 DEF Follows
  <2>2. w[t] = 0 BY <1>6, <1>8, <2>1, ListedWalks
  <2> QED BY <1>5, <2>2
<1> QED BY <1>7, <1>8

-----------------------------------------------------------------------------
\* A bucket has something only if there is a table with an entry for it.
LEMMA ChainIs ==
  ASSUME NEW db, Database(db), NEW b \in Bucket
  PROVE  /\ Chain(db, b) \subseteq Rec /\ Members(db, b) \subseteq Rec
         /\ Chain(db, b) # {} => HasTable(db) /\ Item(db, b) \in Rec \ {0}
         /\ HasTable(db) /\ Item(db, b) # 0 => Item(db, b) \in Chain(db, b)
         /\ Closed(db, Chain(db, b))
<1>1. HasTable(db) => Item(db, b) \in Rec BY TableTypes DEF Item
<1> QED BY <1>1, ReachClosed DEF Chain, Members, Closed

\* Members are found,
LEMMA Found ==
  ASSUME NEW db, Database(db), Sound(db), NEW k \in Key,
         NEW n \in Members(db, BucketOf[k]), Holds(db, n, k)
  PROVE  Find(db, k) = n /\ n \in Rec \ {0}
<1> DEFINE b == BucketOf[k]
           item == Item(db, b)
           C == Chain(db, b)
<1>1. b \in Bucket /\ SoundIn(db, b) /\ Rooted(db) BY TrustAssumption DEF Sound
<1> HIDE DEF b
<1>2. HasTable(db) /\ item \in Rec \ {0} /\ C = Reach(db, item)
  <2>1. C # {} BY DEF Members, b
  <2> QED BY <1>1, <2>1, ChainIs DEF Chain
<1>3. n \in Rec \ {0} BY <1>1, ChainIs DEF Rooted, Holds, b
<1>4. CASE db[item].type = "trust"
  <2>1. Follows(db, item) = {} BY <1>4 DEF Follows, Lists
  <2>2. C \subseteq {item} BY <1>2, <2>1, ReachOnly
  <2>3. n = item BY <1>4, <2>2 DEF Members, Lists, b
  <2> QED BY <1>1, <1>2, <1>3, <1>4, <2>3, FindIs DEF Holds, b
<1>5. CASE db[item].type # "trust"
  <2>1. PICK m \in C \cap Lists(db) : n \in db[m].rnum BY <1>5 DEF Members, b
  <2>2. item \in Lists(db)
    <3> SUFFICES ASSUME item \notin Lists(db) PROVE FALSE OBVIOUS
    <3>1. Follows(db, item) = {} BY DEF Follows
    <3>2. C \subseteq {item} BY <1>2, <3>1, ReachOnly
    <3> QED BY <2>1, <3>2
  <2>3. n \in Hit(db, k, m) BY <1>3, <2>1 DEF Hit, Of
  <2>4. \A x \in C \cap Lists(db) : Hit(db, k, x) \subseteq {n}
    <3> TAKE x \in C \cap Lists(db)
    <3> SUFFICES ASSUME NEW y \in Hit(db, k, x) PROVE y = n OBVIOUS
    <3>1. y \in Members(db, b) /\ Holds(db, y, k) BY DEF Members, Hit, Of, b
    <3> QED BY <1>1, <3>1 DEF SoundIn, Holds, b
  <2>5. Listed(db, k)[item] = n
    <3> HIDE DEF C, item
    <3> QED BY <1>2, <2>1, <2>3, <2>4, Reached
  <2> QED BY <1>1, <1>2, <1>3, <2>2, <2>5, FindIs DEF b
<1> QED BY <1>4, <1>5

\* and others are not.
LEMMA NotFound ==
  ASSUME NEW db, Database(db), Sound(db), NEW k \in Key,
         \A n \in Members(db, BucketOf[k]) : ~ Holds(db, n, k)
  PROVE  /\ Find(db, k) \in {0, Failed}
         /\ Whole(db, BucketOf[k]) => Find(db, k) = 0
<1> DEFINE b == BucketOf[k]
           item == Item(db, b)
<1>1. b \in Bucket /\ SoundIn(db, b) /\ Rooted(db) /\ Upward(db) BY TrustAssumption DEF Sound
<1> HIDE DEF b
<1>2. CASE TableOf(db) = 0 BY <1>1, <1>2, FindIs
<1>3. CASE TableOf(db) # 0 /\ ~ HasTable(db) BY <1>1, <1>3, FindIs DEF Whole
<1>4. CASE HasTable(db) /\ item \in Lists(db)
  <2>1. item # 0 BY <1>1, <1>4 DEF Rooted, Lists
  <2>2. item \in Rec /\ Chain(db, b) = Reach(db, item) BY <1>4, <2>1 DEF Chain, Lists
  <2>3. \A x \in Reach(db, item) \cap Lists(db) : Hit(db, k, x) = {}
    BY <2>2 DEF Members, Hit, Of, b
  <2>4. Whole(db, b) => Reach(db, item) \subseteq Lists(db)
    <3> SUFFICES ASSUME Whole(db, b), NEW x \in Chain(db, b) PROVE x \in Lists(db) BY <2>2
    <3>1. x \in Rec /\ db[x].type # "unused" BY <1>1, ChainIs DEF Whole, Linked
    <3>2. ~ (x = item /\ db[x].type = "trust") BY <1>4 DEF Lists
    <3> QED BY <1>1, <3>1, <3>2 DEF SoundIn, Lists
  <2> HIDE DEF item
  <2> QED BY <1>1, <1>4, <2>2, <2>3, <2>4, NotReached, FindIs DEF b, item
<1>5. CASE HasTable(db) /\ db[item].type = "trust"
  <2>1. item # 0 BY <1>1, <1>5 DEF Rooted
  <2>2. item \in Members(db, b) BY <1>1, <1>5, <2>1, ChainIs DEF Members
  <2>3. db[item].key # k BY <1>5, <2>2 DEF Holds, b
  <2> QED BY <1>1, <1>5, <2>3, FindIs DEF b
<1>6. CASE HasTable(db) /\ db[item].type \notin {"hlst", "trust"} BY <1>1, <1>6, FindIs DEF b
<1>7. HasTable(db) => item \in Rec BY <1>1, FindIs DEF b
<1> QED BY <1>2, <1>3, <1>4, <1>5, <1>6, <1>7 DEF Lists, b

-----------------------------------------------------------------------------
\* A record r that may have been record n of g before: never written, or with
\* less in it.
Older(g, n, r) ==
  \/ r \in {Missing, Unused}
  \/ r.type = "ver" /\ g[n].type = "ver" /\ r.table \in {0, g[n].table}
  \/ /\ r.type = "htbl" /\ g[n].type = "htbl"
     /\ \A b \in Bucket :
          \/ r.item[b] \in {0, g[n].item[b]}
          \/ g[n].item[b] \in Lists(g) /\ r.item[b] \in g[g[n].item[b]].rnum
  \/ /\ r.type = "hlst" /\ g[n].type = "hlst"
     /\ r.rnum \subseteq g[n].rnum /\ r.next \in {0, g[n].next}
  \/ r.type = "trust" /\ g[n].type = "trust" /\ r.key = g[n].key
Past(g, db) == \A n \in Rec : Older(g, n, db[n])

\* Nothing that is linked was left out when the file was extended.
Written(g, db) == \A b \in Bucket : \A n \in Linked(g, b) : db[n] # Missing

\* Bucket b is the same in r, but for a trust.
Same(g, b, n, r) ==
  \/ r = g[n]
  \/ r.type = "trust" /\ g[n].type = "trust"
  \/ r.type = "htbl" /\ g[n].type = "htbl" /\ r.item[b] = g[n].item[b]
  \/ n = 0 /\ TableOf(g) = 0
\* The records on which the search in bucket b depends
Anchor(g, b) == {0, TableOf(g)} \cup Linked(g, b)

\* The version record and the table of before: the same table, or none yet.
LEMMA PastHead ==
  ASSUME NEW g, Database(g), Rooted(g), NEW db, Database(db), Past(g, db)
  PROVE  /\ Rooted(db) /\ TableOf(db) \in {0, TableOf(g)}
         /\ HasTable(db) => TableOf(db) = TableOf(g) /\ HasTable(g)
<1>1. Older(g, 0, db[0]) BY InRec DEF Past
<1>2. db[0].type \in {"missing", "unused", "ver"} /\ TableOf(db) \in {0, TableOf(g)}
  BY <1>1 DEF Older, Rooted, TableOf, Missing, Unused
<1>3. TableOf(db) \in Rec BY TableTypes
<1>4. Older(g, TableOf(db), db[TableOf(db)]) BY <1>3 DEF Past
<1>5. TableOf(db) # 0 => db[TableOf(db)].type \in {"missing", "unused", "htbl"}
  BY <1>2, <1>4 DEF Older, Rooted, Missing, Unused
<1>6. HasTable(db) => TableOf(db) = TableOf(g) /\ HasTable(g)
  BY <1>2, <1>4 DEF Older, HasTable, Missing, Unused
<1> QED BY <1>2, <1>5, <1>6 DEF Rooted

\* A bucket of before: empty, the same, or the trust record that was moved to a list
LEMMA PastItem ==
  ASSUME NEW g, Database(g), Rooted(g), NEW db, Database(db), Past(g, db),
         HasTable(db), NEW b \in Bucket
  PROVE  \/ Item(db, b) \in {0, Item(g, b)}
         \/ Item(g, b) \in Lists(g) /\ Item(db, b) \in g[Item(g, b)].rnum
<1>1. TableOf(db) = TableOf(g) /\ TableOf(db) \in Rec BY PastHead, TableTypes
<1>2. Older(g, TableOf(db), db[TableOf(db)]) BY <1>1 DEF Past
<1> QED BY <1>1, <1>2 DEF Older, HasTable, Item, Missing, Unused

\* A list record of before
LEMMA PastList ==
  ASSUME NEW g, NEW db, Past(g, db), NEW n \in Lists(db)
  PROVE  n \in Lists(g) /\ db[n].rnum \subseteq g[n].rnum /\ db[n].next \in {0, g[n].next}
BY DEF Past, Older, Lists, Missing, Unused

\* A trust record of before
LEMMA PastTrust ==
  ASSUME NEW g, NEW db, Past(g, db), NEW n \in Rec, db[n].type = "trust"
  PROVE  g[n].type = "trust" /\ g[n].key = db[n].key
BY DEF Past, Older, Missing, Unused

\* What was linked before still is.
LEMMA PastLinked ==
  ASSUME NEW g, Database(g), Sound(g), NEW db, Database(db), Past(g, db), NEW b \in Bucket
  PROVE  /\ Chain(db, b) \subseteq Chain(g, b) \cup {Item(db, b)}
         /\ Members(db, b) \subseteq Members(g, b)
         /\ Chain(db, b) \subseteq Linked(g, b)
<1>1. Rooted(g) /\ SoundIn(g, b) BY DEF Sound
<1>2. CASE Chain(db, b) = {} BY <1>2 DEF Members
<1>3. CASE Chain(db, b) # {}
  <2> DEFINE s == Item(db, b)
             S == Chain(g, b) \cup {s}
  <2>1. HasTable(db) /\ s \in Rec \ {0} /\ Chain(db, b) = Reach(db, s)
    BY <1>3, ChainIs DEF Chain
  <2>2. HasTable(g) BY <1>1, <2>1, PastHead
  <2>3. s = Item(g, b) \/ (Item(g, b) \in Lists(g) /\ s \in g[Item(g, b)].rnum)
    BY <1>1, <2>1, PastItem
  <2>4. Item(g, b) # 0 BY <1>1, <2>1, <2>3 DEF Rooted, Lists
  <2>5. Item(g, b) \in Chain(g, b) BY <2>2, <2>4, ChainIs
  <2>6. s \in Chain(g, b) \/ s \in Members(g, b) BY <2>1, <2>3, <2>5 DEF Members
  <2>7. s \in Lists(db) => s \in Chain(g, b)
    <3> SUFFICES ASSUME s \in Lists(db), s \in Members(g, b) PROVE s \in Chain(g, b) BY <2>6
    <3>1. s \in Lists(g) BY PastList
    <3> QED BY <1>1, <3>1 DEF SoundIn, Lists
  <2>8. ASSUME NEW n \in S \cap Lists(db), db[n].next # 0 PROVE db[n].next \in Chain(g, b)
    <3>1. n \in Chain(g, b) BY <2>7
    <3>2. n \in Lists(g) /\ db[n].next = g[n].next BY <2>8, PastList
    <3> QED BY <2>8, <3>1, <3>2, ChainIs DEF Closed, Follows
  <2>9. Closed(db, S) BY <2>8 DEF Closed, Follows
  <2>10. S \subseteq Rec /\ s \in S BY <2>1, ChainIs
  <2>11. Chain(db, b) \subseteq S
    <3> HIDE DEF S
    <3> QED BY <2>1, <2>9, <2>10, ReachLeast
  <2>12. ASSUME NEW n \in Members(db, b) PROVE n \in Members(g, b)
    <3>1. CASE \E m \in Chain(db, b) \cap Lists(db) : n \in db[m].rnum
      <4>1. PICK m \in Chain(db, b) \cap Lists(db) : n \in db[m].rnum BY <3>1
      <4>2. m \in Lists(g) /\ n \in g[m].rnum BY <4>1, PastList
      <4>3. m \in Chain(g, b) BY <2>7, <2>11, <4>1
      <4> QED BY <2>12, <4>2, <4>3 DEF Members
    <3>2. CASE n = s /\ db[n].type = "trust"
      <4>1. g[n].type = "trust" BY <2>1, <3>2, PastTrust
      <4>2. n \in Chain(g, b) => n = Item(g, b) BY <1>1, <4>1 DEF SoundIn
      <4> QED BY <2>1, <2>6, <3>2, <4>1, <4>2 DEF Members
    <3> QED BY <2>12, <3>1, <3>2 DEF Members
  <2> QED BY <2>6, <2>11, <2>12 DEF Linked
<1> QED BY <1>2, <1>3

\* What a file with only older records has is sound as well, as far as it goes.
LEMMA PastSound ==
  ASSUME NEW g, Database(g), Sound(g), NEW db, Database(db), Past(g, db), Written(g, db)
  PROVE  Sound(db) /\ Written(db, db)
<1>1. Rooted(g) /\ Upward(g) /\ Disjoint(g) /\ \A b \in Bucket : SoundIn(g, b) BY DEF Sound
<1>2. Rooted(db) BY <1>1, PastHead
<1>3. Upward(db) BY <1>1, PastList DEF Upward
<1>4. \A b \in Bucket : Linked(db, b) \subseteq Linked(g, b) /\ Linked(db, b) \subseteq Rec
  BY PastLinked, ChainIs DEF Linked
<1>5. Disjoint(db) BY <1>1, <1>4 DEF Disjoint
<1>6. Written(db, db) BY <1>4 DEF Written
<1>7. ASSUME NEW b \in Bucket PROVE SoundIn(db, b)
  <2>1. ASSUME NEW n \in Chain(db, b)
        PROVE  db[n].type \in {"hlst", "unused"} \/ (n = Item(db, b) /\ db[n].type = "trust")
    <3>1. n \in Rec /\ db[n] # Missing /\ Older(g, n, db[n]) BY <1>4, <2>1 DEF Linked, Written, Past
    <3>2. n \in Linked(g, b) BY <1>4, <2>1 DEF Linked
    <3>3. db[n].type \in {"unused", g[n].type} BY <3>1 DEF Older, Unused
    <3>4. g[n].type \in {"hlst", "unused", "trust"} BY <1>1, <3>2 DEF Linked, SoundIn
    <3> SUFFICES ASSUME db[n].type = "trust" PROVE n = Item(db, b) BY <3>3, <3>4
    <3>5. g[n].type = "trust" BY <3>1, PastTrust
    <3> SUFFICES ASSUME n \in Chain(g, b) PROVE n = Item(db, b) BY <2>1, PastLinked
    <3>6. n = Item(g, b) BY <1>1, <3>5 DEF SoundIn
    <3>7. HasTable(db) /\ Item(db, b) # 0 BY <2>1, ChainIs
    <3> QED BY <1>1, <3>5, <3>6, <3>7, PastItem DEF Lists
  <2>2. ASSUME NEW n \in Members(db, b)
        PROVE  /\ db[n].type \in {"trust", "unused"}
               /\ db[n].type = "trust" => BucketOf[db[n].key] = b
    <3>1. n \in Rec /\ db[n] # Missing /\ Older(g, n, db[n]) BY <1>4, <2>2 DEF Linked, Written, Past
    <3>2. n \in Members(g, b) BY <2>2, PastLinked
    <3>3. db[n].type \in {"unused", g[n].type} BY <3>1 DEF Older, Unused
    <3> QED BY <1>1, <3>1, <3>2, <3>3, PastTrust DEF SoundIn
  <2>3. ASSUME NEW m \in Members(db, b), NEW n \in Members(db, b),
               db[m].type = "trust", db[n].type = "trust", db[m].key = db[n].key
        PROVE  m = n
    <3>1. m \in Rec /\ n \in Rec /\ m \in Members(g, b) /\ n \in Members(g, b)
      BY <1>4, PastLinked DEF Linked
    <3>2. g[m].type = "trust" /\ g[n].type = "trust" /\ g[m].key = g[n].key
      BY <2>3, <3>1, PastTrust
    <3> QED BY <1>1, <3>1, <3>2 DEF SoundIn
  <2> QED BY <2>1, <2>2, <2>3 DEF SoundIn
<1> QED BY <1>2, <1>3, <1>5, <1>6, <1>7 DEF Sound

-----------------------------------------------------------------------------
\* Lists that follow each other in the same way reach the same.
LEMMA ReachSame ==
  ASSUME NEW g, Database(g), NEW h, Database(h), NEW s \in Rec,
         \A n \in Reach(g, s) : Follows(h, n) = Follows(g, n)
  PROVE  Reach(h, s) = Reach(g, s)
<1> DEFINE S == Reach(g, s) \cap Reach(h, s)
<1>1. S \subseteq Rec /\ s \in S BY ReachClosed
<1>2. Closed(g, S) BY ReachClosed DEF Closed
<1>3. Closed(h, Reach(g, s)) /\ s \in Reach(g, s) /\ Reach(g, s) \subseteq Rec
  BY ReachClosed DEF Closed
<1>4. Reach(h, s) \subseteq Reach(g, s) BY <1>3, ReachLeast
<1>5. Reach(g, s) \subseteq S
  <2> HIDE DEF S
  <2> QED BY <1>1, <1>2, ReachLeast
<1> QED BY <1>4, <1>5

\* With more successors more is reached.
LEMMA ReachMore ==
  ASSUME NEW g, NEW h, Database(h), NEW s \in Rec,
         \A n \in Rec : Follows(g, n) \subseteq Follows(h, n)
  PROVE  Reach(g, s) \subseteq Reach(h, s)
<1>1. s \in Reach(h, s) /\ Closed(h, Reach(h, s)) /\ Reach(h, s) \subseteq Rec BY ReachClosed
<1>2. Closed(g, Reach(h, s)) BY <1>1 DEF Closed
<1> QED BY <1>1, <1>2, ReachLeast

\* The trusts in the records, and which of the empty ones are there, say
\* nothing about the table and the lists.
Alike(g, h) ==
  \A n \in Rec : \/ h[n] = g[n]
                 \/ h[n].type = "trust" /\ g[n].type = "trust"
                 \/ {h[n].type, g[n].type} \subseteq {"missing", "unused"}

\* So all buckets are the same.
LEMMA AlikeLinked ==
  ASSUME NEW g, Database(g), NEW h, Database(h), Alike(g, h)
  PROVE  /\ TableOf(h) = TableOf(g) /\ HasTable(h) = HasTable(g) /\ Lists(h) = Lists(g)
         /\ \A n \in Lists(g) : h[n] = g[n]
         /\ \A b \in Bucket : /\ HasTable(g) => Item(h, b) = Item(g, b)
                              /\ Chain(h, b) = Chain(g, b)
                              /\ Members(h, b) = Members(g, b)
                              /\ Linked(h, b) = Linked(g, b)
<1>1. TableOf(h) = TableOf(g) BY InRec DEF Alike, TableOf
<1>2. TableOf(g) \in Rec BY TableTypes
<1>3. HasTable(h) = HasTable(g)
  BY <1>1, <1>2 DEF Alike, HasTable
<1>4. \A b \in Bucket : HasTable(g) => Item(h, b) = Item(g, b)
  BY <1>1, <1>2 DEF Alike, HasTable, Item
<1>5. Lists(h) = Lists(g) /\ \A n \in Lists(g) : h[n] = g[n] BY DEF Alike, Lists
<1>6. \A n : Follows(h, n) = Follows(g, n) BY <1>5 DEF Follows
<1> SUFFICES ASSUME NEW b \in Bucket
             PROVE  Chain(h, b) = Chain(g, b) /\ Members(h, b) = Members(g, b)
    BY <1>1, <1>3, <1>4, <1>5 DEF Linked
<1>7. HasTable(g) => Item(g, b) \in Rec BY TableTypes DEF Item
<1>8. Chain(h, b) = Chain(g, b) BY <1>3, <1>4, <1>6, <1>7, ReachSame DEF Chain
<1>9. Chain(g, b) # {} => Item(h, b) = Item(g, b) BY <1>4 DEF Chain
<1>10. \A n \in Rec : h[n].type = "trust" <=> g[n].type = "trust" BY DEF Alike
<1> QED BY <1>5, <1>8, <1>9, <1>10 DEF Members

\* Before and before that
LEMMA OlderSelf ==
  ASSUME NEW g, NEW n \in Rec, NEW r \in Record \cup {Missing},
         r = g[n] \/ (r.type = "trust" /\ g[n].type = "trust" /\ r.key = g[n].key)
  PROVE  Older(g, n, r)
<1> USE DEF Missing, Unused, Version, Table, List, TrustRec
<1>1. CASE r \in {Missing, Unused} BY <1>1 DEF Older
<1>2. CASE r \in {Version(m) : m \in Rec} BY <1>2 DEF Older
<1>3. CASE r \in {Table(f) : f \in [Bucket -> Rec]} BY <1>3 DEF Older
<1>4. CASE r \in {List(s, m) : s \in SUBSET Rec, m \in Rec} BY <1>4 DEF Older
<1>5. CASE r \in {TrustRec(k, v) : k \in Key, v \in Trust} BY <1>5 DEF Older
<1> QED BY <1>1, <1>2, <1>3, <1>4, <1>5 DEF Record

\* What may have been before g may have been before h, if g may have been before h
\* and the only table that changed is the one that is used.
LEMMA PastTrans ==
  ASSUME NEW g, Database(g), Sound(g), NEW h, Database(h), Sound(h), Past(h, g),
         \A n \in Rec : g[n].type = "htbl" => n = TableOf(h) \/ h[n] = g[n],
         NEW db, Database(db), Past(g, db)
  PROVE  Past(h, db)
<1> SUFFICES ASSUME NEW n \in Rec PROVE Older(h, n, db[n]) BY DEF Past
<1> DEFINE r == db[n]
<1>1. Older(g, n, r) /\ Older(h, n, g[n]) BY DEF Past
<1>2. CASE r \in {Missing, Unused} BY <1>2 DEF Older
<1>3. CASE r.type = "ver" /\ g[n].type = "ver" /\ r.table \in {0, g[n].table}
  BY <1>1, <1>3 DEF Older, Missing, Unused
<1>4. CASE /\ r.type = "htbl" /\ g[n].type = "htbl"
           /\ \A b \in Bucket :
                \/ r.item[b] \in {0, g[n].item[b]}
                \/ g[n].item[b] \in Lists(g) /\ r.item[b] \in g[g[n].item[b]].rnum
  <2>1. /\ h[n].type = "htbl"
        /\ \A b \in Bucket :
             \/ g[n].item[b] \in {0, h[n].item[b]}
             \/ h[n].item[b] \in Lists(h) /\ g[n].item[b] \in h[h[n].item[b]].rnum
    <3>1. g[n] \notin {Missing, Unused} BY <1>4 DEF Missing, Unused
    <3>2. Older(h, n, g[n]) BY <1>1
    <3> QED BY <1>4, <3>1, <3>2 DEF Older
  <2>2. \A m \in Lists(g) : m \in Lists(h) /\ g[m].rnum \subseteq h[m].rnum BY PastList
  <2> SUFFICES ASSUME NEW b \in Bucket
               PROVE  \/ r.item[b] \in {0, h[n].item[b]}
                      \/ h[n].item[b] \in Lists(h) /\ r.item[b] \in h[h[n].item[b]].rnum
    BY <1>4, <2>1 DEF Older
  <2>3. CASE h[n] = g[n] BY <1>4, <2>2, <2>3
  <2>4. CASE n = TableOf(h)
    <3>1. HasTable(h) /\ h[n].item[b] = Item(h, b) BY <2>1, <2>4 DEF HasTable, Item
    <3>2. g[n].item[b] \in Lists(g) => g[n].item[b] \in {0, Item(h, b)}
      <4> SUFFICES ASSUME g[n].item[b] \in Lists(g), g[n].item[b] \notin {0, Item(h, b)}
                   PROVE  FALSE
        OBVIOUS
      <4>1. Item(h, b) \in Lists(h) /\ g[n].item[b] \in h[Item(h, b)].rnum BY <2>1, <3>1
      <4>2. Item(h, b) # 0 BY <4>1 DEF Sound, Rooted, Lists
      <4>3. Item(h, b) \in Chain(h, b) BY <3>1, <4>2, ChainIs
      <4>4. g[n].item[b] \in Members(h, b) BY <4>1, <4>3 DEF Members, Lists
      <4>5. g[n].item[b] \in Lists(h) BY <2>2
      <4> QED BY <4>4, <4>5 DEF Sound, SoundIn, Lists
    <3>3. 0 \notin Lists(g) BY DEF Sound, Rooted, Lists
    <3>4. CASE r.item[b] \in {0, g[n].item[b]} BY <2>1, <3>1, <3>4
    <3>5. CASE g[n].item[b] \in Lists(g) /\ r.item[b] \in g[g[n].item[b]].rnum
      BY <2>2, <3>1, <3>2, <3>3, <3>5
    <3> QED BY <1>4, <3>4, <3>5
  <2> QED BY <1>4, <2>3, <2>4
<1>5. CASE /\ r.type = "hlst" /\ g[n].type = "hlst"
           /\ r.rnum \subseteq g[n].rnum /\ r.next \in {0, g[n].next}
  <2>1. h[n].type = "hlst" /\ g[n].rnum \subseteq h[n].rnum /\ g[n].next \in {0, h[n].next}
    BY <1>1, <1>5 DEF Older, Missing, Unused
  <2> QED BY <1>5, <2>1 DEF Older
<1>6. CASE r.type = "trust" /\ g[n].type = "trust" /\ r.key = g[n].key
  BY <1>1, <1>6 DEF Older, Missing, Unused
<1> QED BY <1>1, <1>2, <1>3, <1>4, <1>5, <1>6 DEF Older

-----------------------------------------------------------------------------
\* A bucket that is the same but for trusts, and was whole, still is.
LEMMA PastWhole ==
  ASSUME NEW g, Database(g), Sound(g), NEW db, Database(db), Past(g, db),
         NEW b \in Bucket, Whole(g, b), \A n \in Anchor(g, b) : Same(g, b, n, db[n])
  PROVE  /\ Whole(db, b) /\ Members(db, b) = Members(g, b)
         /\ \A k \in Key, n \in Members(g, b) : Holds(g, n, k) => Holds(db, n, k)
<1>1. Rooted(g) /\ SoundIn(g, b) /\ Rooted(db) BY PastHead DEF Sound
<1>2. TableOf(db) = TableOf(g)
  <2>1. Same(g, b, 0, db[0]) BY DEF Anchor
  <2> QED BY <1>1, <2>1, PastHead DEF Same, Rooted, TableOf
<1>3. Chain(g, b) \subseteq Rec /\ Members(g, b) \subseteq Rec BY ChainIs
<1>4. CASE TableOf(g) = 0
  <2>1. ~ HasTable(g) /\ ~ HasTable(db) BY <1>1, <1>2, <1>4 DEF HasTable, Rooted
  <2>2. Chain(g, b) = {} /\ Chain(db, b) = {} BY <2>1 DEF Chain
  <2>3. Members(g, b) = {} /\ Members(db, b) = {} BY <2>2 DEF Members
  <2> QED BY <1>2, <1>4, <2>2, <2>3 DEF Whole, Linked
<1>5. CASE TableOf(g) # 0
  <2>1. HasTable(g) BY <1>5 DEF Whole
  <2>2. HasTable(db) /\ Item(db, b) = Item(g, b)
    <3>1. Same(g, b, TableOf(g), db[TableOf(g)]) BY DEF Anchor
    <3> QED BY <1>2, <1>5, <2>1, <3>1 DEF Same, HasTable, Item
  <2>3. ASSUME NEW n \in Linked(g, b)
        PROVE  db[n] = g[n] \/ (db[n].type = "trust" /\ g[n].type = "trust")
    <3>1. Same(g, b, n, db[n]) BY <2>3 DEF Anchor
    <3>2. g[n].type # "htbl" BY <1>1, <2>3 DEF Linked, SoundIn
    <3> QED BY <1>5, <3>1, <3>2 DEF Same
  <2>4. \A n \in Chain(g, b) : n \in Lists(db) <=> n \in Lists(g)
    BY <2>3 DEF Linked, Lists
  <2>5. \A n \in Chain(g, b) \cap Lists(g) : db[n] = g[n]
    BY <2>3 DEF Linked, Lists
  <2>6. Item(g, b) \in Rec BY <2>1, TableTypes DEF Item
  <2>7. Chain(db, b) = Chain(g, b)
    <3>1. \A n \in Chain(g, b) : Follows(db, n) = Follows(g, n) BY <2>4, <2>5 DEF Follows
    <3> QED BY <2>1, <2>2, <2>6, <3>1, ReachSame DEF Chain
  <2>8. Members(db, b) = Members(g, b)
    <3>1. \A n \in Chain(g, b) : db[n].type = "trust" <=> g[n].type = "trust" BY <2>3 DEF Linked
    <3> QED BY <2>2, <2>4, <2>5, <2>7, <3>1 DEF Members
  <2>9. \A n \in Linked(db, b) : db[n].type # "unused" BY <2>3, <2>7, <2>8 DEF Linked, Whole
  <2>10. ASSUME NEW k \in Key, NEW n \in Members(g, b), Holds(g, n, k) PROVE Holds(db, n, k)
    <3>1. n \in Rec /\ db[n].type = "trust" BY <1>3, <2>3, <2>10 DEF Linked, Holds
    <3> QED BY <2>10, <3>1, PastTrust DEF Holds
  <2> QED BY <2>2, <2>8, <2>9, <2>10 DEF Whole
<1> QED BY <1>4, <1>5

\* Every list has an end, and that is the last one.
LEMMA LastEnds ==
  ASSUME NEW db, Database(db), Upward(db), NEW s \in Rec
  PROVE  Last(db)[s] \in Reach(db, s) /\ Follows(db, Last(db)[s]) = {}
<1> DEFINE S == {x \in Reach(db, s) : Last(db)[x] = Last(db)[s]}
<1>1. S \subseteq Rec /\ s \in S BY ReachClosed
<1>2. ASSUME NEW x \in S, Follows(db, x) # {} PROVE Follows(db, x) \subseteq S
  <2>1. x \in Rec /\ Follows(db, x) = {db[x].next} BY <1>1, <1>2 DEF Follows
  <2>2. Last(db)[x] = Last(db)[db[x].next] BY <1>2, <2>1, LastWalks
  <2>3. db[x].next \in Reach(db, s) BY <2>1, ReachClosed DEF Closed
  <2> QED BY <2>1, <2>2, <2>3
<1>3. Closed(db, S) BY <1>2 DEF Closed
<1>4. PICK t \in Reach(db, s) : Follows(db, t) = {} BY ReachEnds
<1>5. t \in Rec /\ Last(db)[t] = t BY <1>4, ReachClosed, LastWalks
<1>6. t \in S
  <2> HIDE DEF S
  <2> QED BY <1>1, <1>3, <1>4, ReachLeast
<1> QED BY <1>4, <1>5, <1>6

-----------------------------------------------------------------------------
\* The trust record of a key, and the trusts that are or were asked for
Has(db, k) == \E n \in Members(db, BucketOf[k]) : Holds(db, n, k)
Valued(db, a) ==
  \A b \in Bucket : \A n \in Members(db, b) :
    db[n].type = "trust" => db[n].ownertrust \in a[db[n].key]
\* Outside of the buckets d, nothing is broken, and whoever has a trust has a record.
Settled(db, a, d) ==
  /\ \A b \in Bucket \ d : Whole(db, b)
  /\ \A k \in Key : BucketOf[k] \notin d /\ NoTrust \notin a[k] => Has(db, k)

\* tdb_get_ownertrust returns the trust of a member, and otherwise none, or it
\* fails if something was not written.
LEMMA LookupFinds ==
  ASSUME NEW db, Database(db), Sound(db), NEW a, Valued(db, a), NEW k \in Key
  PROVE  /\ \A n \in Members(db, BucketOf[k]) :
              Holds(db, n, k) => Lookup(db, k) = db[n].ownertrust /\ Lookup(db, k) \in a[k]
         /\ ~ Has(db, k) => Lookup(db, k) \in {NoTrust, Failed}
         /\ ~ Has(db, k) /\ Whole(db, BucketOf[k]) => Lookup(db, k) = NoTrust
<1>1. BucketOf[k] \in Bucket BY TrustAssumption
<1>2. Failed # 0 /\ Failed \notin Rec BY InRec, TrustAssumption
<1>3. ASSUME NEW n \in Members(db, BucketOf[k]), Holds(db, n, k)
      PROVE  Lookup(db, k) = db[n].ownertrust /\ Lookup(db, k) \in a[k]
  <2>1. Find(db, k) = n /\ n \in Rec \ {0} BY <1>3, Found
  <2>2. Lookup(db, k) = db[n].ownertrust BY <1>2, <2>1 DEF Lookup
  <2> QED BY <1>1, <1>3, <2>2 DEF Valued, Holds
<1>4. ASSUME ~ Has(db, k)
      PROVE  /\ Lookup(db, k) \in {NoTrust, Failed}
             /\ Whole(db, BucketOf[k]) => Lookup(db, k) = NoTrust
  <2>1. /\ Find(db, k) \in {0, Failed}
        /\ Whole(db, BucketOf[k]) => Find(db, k) = 0
    BY <1>4, NotFound DEF Has
  <2> QED BY <1>2, <2>1 DEF Lookup
<1> QED BY <1>3, <1>4

-----------------------------------------------------------------------------
\* What the database will be after the current operation: the records that it
\* has still to write, and else what the process sees
Entries(t, n) == {i \in DOMAIN t : t[i][1] = n}
GoalOf(f, c, t) ==
  [n \in Rec |-> IF Entries(t, n) # {} THEN t[CHOOSE i \in Entries(t, n) : TRUE][2]
                 ELSE IF c[n] # Missing THEN c[n] ELSE f[n]]
Goal == GoalOf(file, cache, todo)
Distinct(t) == \A i, j \in DOMAIN t : t[i][1] = t[j][1] => i = j
Only(m) == [k \in Key |-> {m[k]}]

\* The record r may have been record n of that before: it is the same where no
\* record was inserted since, and no trust is wrong.
Fits(g, a, t, n, r) ==
  /\ Older(g, n, r)
  /\ \A b \in Bucket \ t : n \in Anchor(g, b) => Same(g, b, n, r)
  /\ \A b \in Bucket : n \in Members(g, b) /\ r.type = "trust" => r.ownertrust \in a[r.key]
AllFit(g, a, t, f, c) ==
  \A n \in Rec : Fits(g, a, t, n, f[n]) /\ (c[n] # Missing => Fits(g, a, t, n, c[n]))

\* The goal is sound and has the trusts that were asked for; file and cache have
\* only parts of it.  A file that is not being written is complete.
DataInv ==
  /\ Sound(Goal) /\ Valued(Goal, Only(map)) /\ Settled(Goal, Only(map), damaged)
  /\ Written(Goal, file) /\ AllFit(Goal, asked, touched, file, cache)
  /\ \A k \in Key : map[k] \in asked[k]
  /\ ~ torn => Settled(file, asked, damaged)

\* Only the two operations that write the version record, last, may write
\* records that the file has not been extended for.
Ready ==
  /\ \A n \in Rec : cache[n] # Missing => n < Size
  /\ \A i \in DOMAIN todo : todo[i][1] < Size
\* What holds at each stage of an operation
StageInv ==
  /\ exists \/ (pc = "down" /\ \A n \in Rec : file[n] = Missing)
  /\ pc = "down" => \A n \in Rec : cache[n] = Missing
  /\ pc # "down" => Goal[0].type = "ver"
  /\ Distinct(todo)
  /\ pc = "run" \/ (pc = "put" /\ todo[Len(todo)][1] # 0) => Ready

\* The goal, by the records that are still to be written
LEMMA GoalIs ==
  ASSUME NEW f, NEW c, NEW t, Distinct(t)
  PROVE  /\ \A i \in DOMAIN t : t[i][1] \in Rec => GoalOf(f, c, t)[t[i][1]] = t[i][2]
         /\ \A n \in Rec : (\A i \in DOMAIN t : t[i][1] # n) =>
              GoalOf(f, c, t)[n] = IF c[n] # Missing THEN c[n] ELSE f[n]
<1>1. ASSUME NEW i \in DOMAIN t, t[i][1] \in Rec
      PROVE  GoalOf(f, c, t)[t[i][1]] = t[i][2]
  <2> DEFINE n == t[i][1]
  <2>1. Entries(t, n) = {i} BY DEF Entries, Distinct
  <2> HIDE DEF n
  <2>2. (CHOOSE j \in {i} : TRUE) = i OBVIOUS
  <2>3. GoalOf(f, c, t)[n] = t[CHOOSE j \in {i} : TRUE][2] BY <1>1, <2>1 DEF GoalOf, n
  <2> QED BY <2>2, <2>3 DEF n
<1>2. ASSUME NEW n \in Rec, \A i \in DOMAIN t : t[i][1] # n
      PROVE  GoalOf(f, c, t)[n] = IF c[n] # Missing THEN c[n] ELSE f[n]
  <2>1. Entries(t, n) = {} BY <1>2 DEF Entries
  <2> QED BY <2>1 DEF GoalOf
<1> QED BY <1>1, <1>2

\* Nothing to write
LEMMA GoalView ==
  ASSUME TypeOK, todo = <<>>
  PROVE  Goal = View /\ Distinct(todo)
<1>1. \A n : Entries(<<>>, n) = {} BY DEF Entries
<1>2. \A n \in Rec : Goal[n] = View[n] BY <1>1 DEF Goal, GoalOf, View
<1>3. Distinct(<<>>) BY DEF Distinct
<1> QED BY <1>2, <1>3 DEF Goal, GoalOf, View

\* The goal is a database.
LEMMA GoalOfTypes ==
  ASSUME NEW f, Database(f), NEW c, Database(c), NEW t \in Seq(Rec \X Record)
  PROVE  Database(GoalOf(f, c, t))
<1>1. ASSUME NEW n \in Rec PROVE GoalOf(f, c, t)[n] \in Record \cup {Missing}
  <2>1. CASE Entries(t, n) = {}
    BY <2>1 DEF GoalOf, Database
  <2>2. CASE Entries(t, n) # {}
    <3> DEFINE i == CHOOSE j \in Entries(t, n) : TRUE
    <3>1. i \in DOMAIN t BY <2>2 DEF Entries
    <3> HIDE DEF i
    <3>2. t[i] \in Rec \X Record BY <3>1
    <3>3. GoalOf(f, c, t)[n] = t[i][2] BY <2>2 DEF GoalOf, i
    <3> QED BY <3>2, <3>3
  <2> QED BY <2>1, <2>2
<1> QED BY <1>1 DEF Database, GoalOf

LEMMA GoalTypes ==
  ASSUME TypeOK
  PROVE  Database(Goal) /\ Database(file) /\ Database(cache)
<1>1. Database(file) /\ Database(cache) /\ todo \in Seq(Rec \X Record) BY DEF TypeOK, Database
<1> QED BY <1>1, GoalOfTypes DEF Goal

\* What a trust record has
LEMMA TrustFields ==
  ASSUME NEW r \in Record \cup {Missing}, r.type = "trust"
  PROVE  r.key \in Key /\ r.ownertrust \in Trust /\ r = TrustRec(r.key, r.ownertrust)
<1> USE DEF Missing, Unused, Version, Table, List, TrustRec
<1> QED BY DEF Record

\* What the invariant says of the file
LEMMA FileIs ==
  ASSUME IInv, DataInv
  PROVE  /\ Past(Goal, file) /\ Past(Goal, cache)
         /\ Sound(file) /\ Written(file, file) /\ Valued(file, asked)
         /\ Settled(file, asked, IF torn THEN damaged \cup touched ELSE damaged)
<1>1. Database(Goal) /\ Database(file) /\ Database(cache) BY GoalTypes DEF IInv
<1>2. Past(Goal, file) BY DEF DataInv, AllFit, Fits, Past
<1>3. Past(Goal, cache)
  BY DEF DataInv, AllFit, Fits, Past, Older
<1>4. Sound(file) /\ Written(file, file) BY <1>1, <1>2, PastSound DEF DataInv
<1>5. Valued(file, asked)
  <2> SUFFICES ASSUME NEW b \in Bucket, NEW n \in Members(file, b), file[n].type = "trust"
               PROVE  file[n].ownertrust \in asked[file[n].key]
    BY DEF Valued
  <2>1. n \in Members(Goal, b) /\ n \in Rec BY <1>1, <1>2, PastLinked, ChainIs DEF DataInv
  <2> QED BY <2>1 DEF DataInv, AllFit, Fits
<1>6. CASE torn
  <2>1. ASSUME NEW b \in Bucket, b \notin damaged \cup touched
        PROVE  /\ Whole(file, b) /\ Members(file, b) = Members(Goal, b)
               /\ \A k \in Key, n \in Members(Goal, b) : Holds(Goal, n, k) => Holds(file, n, k)
    <3>1. Whole(Goal, b) BY <2>1 DEF DataInv, Settled
    <3>2. \A n \in Anchor(Goal, b) : n \in Rec
      BY <1>1, ChainIs, TableTypes, InRec DEF Anchor, Linked
    <3>3. \A n \in Anchor(Goal, b) : Same(Goal, b, n, file[n])
      BY <2>1, <3>2 DEF DataInv, AllFit, Fits
    <3> QED BY <1>1, <1>2, <3>1, <3>3, PastWhole DEF DataInv
  <2>2. ASSUME NEW k \in Key, BucketOf[k] \notin damaged \cup touched, NoTrust \notin asked[k]
        PROVE  Has(file, k)
    <3>1. NoTrust \notin Only(map)[k] BY <2>2 DEF DataInv, Only
    <3>2. Has(Goal, k) BY <2>2, <3>1 DEF DataInv, Settled
    <3>3. BucketOf[k] \in Bucket BY TrustAssumption
    <3> QED BY <2>1, <2>2, <3>2, <3>3 DEF Has
  <2> QED BY <1>2, <1>3, <1>4, <1>5, <1>6, <2>1, <2>2 DEF Settled
<1>7. CASE ~ torn BY <1>2, <1>3, <1>4, <1>5, <1>7 DEF DataInv
<1> QED BY <1>6, <1>7

-----------------------------------------------------------------------------
\* Whatever the process finds or the next one would is as it should be.
LEMMA GoalRight ==
  ASSUME IInv, DataInv, StageInv
  PROVE  ViewRight
<1> SUFFICES ASSUME pc = "run", NEW k \in Key, BucketOf[k] \notin damaged
             PROVE  Lookup(View, k) = map[k]
  BY DEF ViewRight
<1>1. Goal = View /\ Database(Goal) BY GoalView, GoalTypes DEF IInv, TypeOK
<1>2. Sound(Goal) /\ Valued(Goal, Only(map)) /\ Settled(Goal, Only(map), damaged) BY DEF DataInv
<1>3. Only(map)[k] = {map[k]} BY DEF Only
<1>4. CASE Has(Goal, k)
  <2>1. Lookup(Goal, k) \in Only(map)[k] BY <1>1, <1>2, <1>4, LookupFinds DEF Has
  <2> QED BY <1>1, <1>3, <2>1
<1>5. CASE ~ Has(Goal, k)
  <2>1. BucketOf[k] \in Bucket BY TrustAssumption
  <2>2. Whole(Goal, BucketOf[k]) BY <1>2, <2>1 DEF Settled
  <2>3. Lookup(Goal, k) = NoTrust BY <1>1, <1>2, <1>5, <2>2, LookupFinds
  <2>4. map[k] = NoTrust BY <1>2, <1>3, <1>5 DEF Settled
  <2> QED BY <1>1, <2>3, <2>4
<1> QED BY <1>4, <1>5

\* The same search in the file, where an insertion may be half written
LEMMA FileFinds ==
  ASSUME IInv, DataInv, NEW k \in Key
  PROVE  LET d == IF torn THEN damaged \cup touched ELSE damaged
         IN /\ Lookup(file, k) \in asked[k] \cup {NoTrust, Failed}
            /\ BucketOf[k] \notin d => Lookup(file, k) \in asked[k]
<1> DEFINE d == IF torn THEN damaged \cup touched ELSE damaged
<1>1. Database(file) /\ Sound(file) /\ Valued(file, asked) /\ Settled(file, asked, d)
  BY FileIs, GoalTypes DEF IInv
<1>2. BucketOf[k] \in Bucket BY TrustAssumption
<1> HIDE DEF d
<1>3. CASE Has(file, k) BY <1>1, <1>3, LookupFinds DEF Has, d
<1>4. CASE ~ Has(file, k)
  <2>1. Lookup(file, k) \in {NoTrust, Failed} BY <1>1, <1>4, LookupFinds
  <2>2. ASSUME BucketOf[k] \notin d PROVE Lookup(file, k) \in asked[k]
    <3>1. Whole(file, BucketOf[k]) /\ NoTrust \in asked[k] BY <1>1, <1>2, <1>4, <2>2 DEF Settled
    <3> QED BY <1>1, <1>4, <3>1, LookupFinds
  <2> QED BY <2>1, <2>2 DEF d
<1> QED BY <1>3, <1>4

LEMMA FileIsRight ==
  ASSUME IInv, DataInv
  PROVE  FileRight
<1> SUFFICES ASSUME NEW k \in Key
             PROVE  IF BucketOf[k] \in damaged \/ (torn /\ BucketOf[k] \in touched)
                      THEN Lookup(file, k) \in asked[k] \cup {NoTrust, Failed}
                      ELSE Lookup(file, k) \in asked[k]
  BY DEF FileRight
<1> QED BY FileFinds

-----------------------------------------------------------------------------
\* The goal fits itself.
LEMMA GoalFits ==
  ASSUME IInv, DataInv, NEW n \in Rec
  PROVE  Fits(Goal, asked, touched, n, Goal[n])
<1>1. Goal[n] \in Record \cup {Missing} BY GoalTypes DEF IInv, Database
<1>2. Older(Goal, n, Goal[n]) BY <1>1, OlderSelf
<1>3. ASSUME NEW b \in Bucket, n \in Members(Goal, b), Goal[n].type = "trust"
      PROVE  Goal[n].ownertrust \in asked[Goal[n].key]
  <2>1. Goal[n].key \in Key BY <1>1, <1>3, TrustFields
  <2>2. Goal[n].ownertrust \in Only(map)[Goal[n].key] BY <1>3 DEF DataInv, Valued
  <2> QED BY <2>1, <2>2 DEF Only, DataInv
<1> QED BY <1>2, <1>3 DEF Fits, Same

\* A step towards the same goal
LEMMA SameGoal ==
  ASSUME IInv, DataInv, UNCHANGED <<Goal, map, asked, touched, damaged>>,
         \A n \in Rec : file'[n] = file[n] \/ (cache[n] # Missing /\ file'[n] = cache[n]),
         \A n \in Rec : cache'[n] \in {Missing, cache[n], Goal[n]},
         torn' \/ UNCHANGED <<file, torn>>
  PROVE  DataInv'
<1>1. Written(Goal, file')
  <2>1. \A b \in Bucket : Linked(Goal, b) \subseteq Rec BY GoalTypes, ChainIs DEF Linked, IInv
  <2> QED BY <2>1 DEF DataInv, Written
<1>2. AllFit(Goal, asked, touched, file', cache')
  <2> SUFFICES ASSUME NEW n \in Rec
               PROVE  /\ Fits(Goal, asked, touched, n, file'[n])
                      /\ cache'[n] # Missing => Fits(Goal, asked, touched, n, cache'[n])
    BY DEF AllFit
  <2>1. /\ Fits(Goal, asked, touched, n, file[n]) /\ Fits(Goal, asked, touched, n, Goal[n])
        /\ cache[n] # Missing => Fits(Goal, asked, touched, n, cache[n])
    BY GoalFits DEF DataInv, AllFit
  <2> QED BY <2>1
<1> QED BY <1>1, <1>2 DEF DataInv

-----------------------------------------------------------------------------
\* The invariant, besides IInv
DbInv == DataInv /\ StageInv

\* The next record is in the goal.
LEMMA ReadyNow ==
  ASSUME Distinct(todo), NEW i \in DOMAIN todo, todo[i][1] \in Rec
  PROVE  Goal[todo[i][1]] = todo[i][2]
BY GoalIs DEF Goal

\* The next record goes to the cache, in the place of m.
LEMMA StoreDb ==
  ASSUME IInv, DbInv, pc = "put", NEW m, Store(m), m \cap dirty = {},
         UNCHANGED torn
  PROVE  DbInv'
<1> DEFINE e == todo[1]
<1>1. /\ todo # <<>> /\ todo \in Seq(Rec \X Record) /\ todo' = Tail(todo)
      /\ 1 \in DOMAIN todo /\ Distinct(todo)
  BY DEF IInv, TypeOK, Store, DbInv, StageInv
<1>2. e[1] \in Rec /\ e[2] \in Record BY NextItem
<1>3. e[2] # Missing BY <1>2, RecordFields
<1>4. /\ \A n \in Rec : cache'[n] = IF n = e[1] THEN e[2] ELSE IF n \in m THEN Missing ELSE cache[n]
      /\ UNCHANGED <<exists, file, map, asked, touched, damaged>>
  BY DEF Store, history
<1>5. /\ Len(todo') = Len(todo) - 1 /\ Len(todo) \in Nat \ {0}
      /\ \A i \in DOMAIN todo' : i + 1 \in DOMAIN todo /\ todo'[i] = todo[i + 1]
      /\ \A j \in DOMAIN todo : j # 1 => j - 1 \in DOMAIN todo' /\ todo[j] = todo'[j - 1]
  BY <1>1
<1>6. DOMAIN todo' \subseteq Nat \ {0} /\ DOMAIN todo \subseteq Nat \ {0}
  BY <1>1
<1>7. Distinct(todo')
  <2> SUFFICES ASSUME NEW i \in DOMAIN todo', NEW j \in DOMAIN todo', todo'[i][1] = todo'[j][1]
               PROVE  i = j
    BY DEF Distinct
  <2>1. i + 1 = j + 1 BY <1>1, <1>5 DEF Distinct
  <2> QED BY <1>6, <2>1
<1>8. ASSUME NEW n \in Rec PROVE Goal'[n] = Goal[n]
  <2>1. CASE n = e[1]
    <3>1. \A i \in DOMAIN todo' : todo'[i][1] # n
      <4> SUFFICES ASSUME NEW i \in DOMAIN todo', todo'[i][1] = n PROVE FALSE OBVIOUS
      <4>1. i + 1 \in DOMAIN todo /\ todo[i + 1][1] = todo[1][1] BY <1>5, <2>1
      <4>2. i + 1 = 1 BY <1>1, <4>1 DEF Distinct
      <4> QED BY <1>6, <4>2
    <3>2. Goal'[n] = e[2] BY <1>3, <1>4, <1>7, <2>1, <3>1, GoalIs DEF Goal
    <3>3. Goal[n] = e[2] BY <1>1, <1>2, <2>1, ReadyNow
    <3> QED BY <3>2, <3>3
  <2>2. CASE n # e[1] /\ \E i \in DOMAIN todo : todo[i][1] = n
    <3>1. PICK i \in DOMAIN todo : todo[i][1] = n BY <2>2
    <3>2. i - 1 \in DOMAIN todo' /\ todo'[i - 1] = todo[i] BY <1>5, <2>2, <3>1
    <3>3. Goal'[n] = todo[i][2] BY <1>7, <3>1, <3>2, GoalIs DEF Goal
    <3>4. Goal[n] = todo[i][2] BY <1>1, <3>1, ReadyNow
    <3> QED BY <3>3, <3>4
  <2>3. CASE \A i \in DOMAIN todo : todo[i][1] # n
    <3>1. \A i \in DOMAIN todo' : todo'[i][1] # n BY <1>5, <2>3
    <3>2. Goal'[n] = IF cache'[n] # Missing THEN cache'[n] ELSE file[n]
      BY <1>4, <1>7, <3>1, GoalIs DEF Goal
    <3>3. Goal[n] = IF cache[n] # Missing THEN cache[n] ELSE file[n]
      BY <1>1, <2>3, GoalIs DEF Goal
    <3>4. n # e[1] BY <1>1, <2>3
    <3>5. n \in m /\ cache[n] # Missing => cache[n] = file[n] BY DEF IInv, Kept
    <3> QED BY <1>4, <3>2, <3>3, <3>4, <3>5
  <2> QED BY <2>1, <2>2, <2>3
<1>9. Goal' = Goal
  <2>1. Goal' = [n \in Rec |-> Goal'[n]] /\ Goal = [n \in Rec |-> Goal[n]] BY DEF Goal, GoalOf
  <2> QED BY <1>8, <2>1
<1>10. DataInv'
  <2>1. \A n \in Rec : cache'[n] \in {Missing, cache[n], Goal[n]}
    <3>1. Goal[e[1]] = e[2] BY <1>1, <1>2, ReadyNow
    <3> QED BY <1>4, <3>1
  <2> HIDE DEF e
  <2> QED BY <1>4, <1>9, <2>1, SameGoal DEF DbInv
<1>11. Size' = Size BY <1>4 DEF Size
<1>12. pc' # "down" /\ (pc' = "put" => Len(todo) > 1) /\ (pc' = "run" => Len(todo) = 1 /\ e[1] # 0)
  BY <1>5 DEF Store
<1>13. pc' = "run" \/ (pc' = "put" /\ todo'[Len(todo')][1] # 0) => Ready'
  <2> SUFFICES ASSUME pc' = "run" \/ (pc' = "put" /\ todo'[Len(todo')][1] # 0) PROVE Ready'
    OBVIOUS
  <2>1. todo[Len(todo)][1] # 0
    <3>1. CASE pc' = "run" BY <1>12, <3>1
    <3>2. CASE pc' = "put" /\ todo'[Len(todo')][1] # 0
      <4>1. Len(todo') \in DOMAIN todo' BY <1>1, <1>5, <1>12, <3>2
      <4>2. todo'[Len(todo')] = todo[Len(todo') + 1] BY <1>5, <4>1
      <4>3. Len(todo') + 1 = Len(todo) BY <1>5
      <4> QED BY <3>2, <4>2, <4>3
    <3> QED BY <3>1, <3>2
  <2>2. Ready BY <2>1 DEF DbInv, StageInv
  <2>3. ASSUME NEW n \in Rec, cache'[n] # Missing PROVE n < Size
    BY <1>1, <1>4, <2>2, <2>3 DEF Ready
  <2>4. \A i \in DOMAIN todo' : todo'[i][1] < Size BY <1>5, <2>2 DEF Ready
  <2> QED BY <1>11, <2>3, <2>4 DEF Ready
<1>14. StageInv' BY <1>4, <1>7, <1>9, <1>12, <1>13 DEF DbInv, StageInv
<1> QED BY <1>10, <1>14 DEF DbInv

\* put_record_into_cache, with and without a clean record to discard
LEMMA PutDb == IInv /\ DbInv /\ (PutCached \/ PutNew) => DbInv'
<1> SUFFICES ASSUME IInv, DbInv, PutCached \/ PutNew PROVE DbInv' OBVIOUS
<1>1. PICK m : Store(m) /\ m \cap dirty = {}
  <2>1. CASE Store({}) BY <2>1
  <2>2. CASE \E n \in Cached \ dirty : Store({n})
    <3>1. PICK n \in Cached \ dirty : Store({n}) BY <2>2
    <3>2. {n} \cap dirty = {} OBVIOUS
    <3> QED BY <3>1, <3>2
  <2> QED BY <2>1, <2>2 DEF PutCached, PutNew
<1>2. UNCHANGED torn BY <1>1 DEF Store, history
<1> QED BY <1>1, <1>2, StoreDb DEF PutCached, PutNew

\* A record that is written to the file is no longer dirty, and may be discarded.
LEMMA WriteGoal ==
  ASSUME IInv, DbInv, NEW n \in dirty, WriteItem(n),
         cache' = cache \/ cache' = [cache EXCEPT ![n] = Missing],
         UNCHANGED <<exists, todo, pc, map, asked, touched, damaged>>
  PROVE  DataInv' /\ Goal' = Goal /\ Size \in Nat /\ Size' \in Nat /\ Size <= Size'
<1>1. /\ n \in Rec /\ file' = [file EXCEPT ![n] = cache[n]] /\ torn' = TRUE
      /\ Size' \in 0 .. MaxRec + 1 /\ Size <= Size'
  BY WriteItemFilled
<1>2. cache[n] # Missing BY DEF IInv, TypeOK
<1>3. /\ \A x \in Rec : file'[x] = IF x = n THEN cache[n] ELSE file[x]
      /\ \A x \in Rec : cache'[x] = cache[x] \/ (cache'[x] = Missing /\ x = n)
  BY <1>1 DEF IInv, TypeOK
<1>4. Goal' = Goal
  <2>1. \A x : Entries(todo, x)' = Entries(todo, x) BY DEF Entries
  <2>2. \A x \in Rec : (IF cache'[x] # Missing THEN cache'[x] ELSE file'[x])
                         = (IF cache[x] # Missing THEN cache[x] ELSE file[x])
    BY <1>2, <1>3
  <2> QED BY <2>1, <2>2 DEF Goal, GoalOf
<1>5. DataInv' BY <1>1, <1>2, <1>3, <1>4, SameGoal DEF DbInv
<1> QED BY <1>1, <1>4, <1>5, InRec DEF IInv

\* A cache full of dirty records is flushed, one record at a time,
LEMMA FlushDb == IInv /\ DbInv /\ Flush => DbInv'
<1> SUFFICES ASSUME IInv, DbInv, Flush PROVE DbInv' OBVIOUS
<1>1. PICK n \in dirty : WriteItem(n) /\ cache' = [cache EXCEPT ![n] = Missing] BY DEF Flush
<1>2. DataInv' /\ Goal' = Goal /\ Size \in Nat /\ Size' \in Nat /\ Size <= Size'
  BY <1>1, WriteGoal DEF Flush
<1>3. UNCHANGED <<exists, todo, pc>> /\ pc = "put" BY DEF Flush
<1>4. Ready => Ready'
  <2> SUFFICES ASSUME Ready PROVE Ready' OBVIOUS
  <2>1. ASSUME NEW x \in Rec, cache'[x] # Missing PROVE x < Size'
    <3>1. cache[x] # Missing BY <1>1, <2>1 DEF IInv, TypeOK
    <3> QED BY <1>2, <3>1, InRec DEF Ready
  <2>2. ASSUME NEW i \in DOMAIN todo PROVE todo[i][1] < Size'
    <3>1. todo[i] \in Rec \X Record BY <2>2 DEF IInv, TypeOK
    <3>2. todo[i][1] \in Nat /\ todo[i][1] < Size BY <2>2, <3>1, InRec DEF Ready
    <3> DEFINE x == todo[i][1]
    <3> HIDE DEF x
    <3>3. \A y, z, w \in Nat : y < z /\ z <= w => y < w OBVIOUS
    <3> QED BY <1>2, <3>2, <3>3 DEF x
  <2> QED BY <1>3, <2>1, <2>2 DEF Ready
<1>5. StageInv' BY <1>2, <1>3, <1>4 DEF DbInv, StageInv
<1> QED BY <1>2, <1>5 DEF DbInv

\* and so it is by tdbio_sync.
LEMMA SyncWriteDb == IInv /\ DbInv /\ SyncWrite => DbInv'
<1> SUFFICES ASSUME IInv, DbInv, SyncWrite PROVE DbInv' OBVIOUS
<1>1. PICK n \in dirty : WriteItem(n) BY DEF SyncWrite
<1>2. DataInv' /\ Goal' = Goal BY <1>1, WriteGoal DEF SyncWrite
<1>3. UNCHANGED <<exists, todo, pc>> /\ pc = "sync" BY DEF SyncWrite
<1>4. StageInv' BY <1>2, <1>3 DEF DbInv, StageInv
<1> QED BY <1>2, <1>4 DEF DbInv

\* Where the process starts and stops to write, the goal is the same.
LEMMA OpenSyncDb == IInv /\ DbInv /\ (OpenDb \/ Sync) => DbInv'
<1> SUFFICES ASSUME IInv, DbInv, OpenDb \/ Sync PROVE DbInv' OBVIOUS
<1>1. UNCHANGED <<exists, file, cache, todo, map, asked, touched, torn, damaged>>
  BY DEF OpenDb, Sync, memory, history
<1>2. Goal' = Goal /\ Size' = Size BY <1>1 DEF Goal, Size
<1>3. DataInv' BY <1>1, <1>2 DEF DbInv, DataInv
<1>4. CASE OpenDb
  <2>1. todo = <<>> /\ pc = "down" /\ pc' = "run" /\ file[0].type = "ver" /\ exists
    BY <1>4 DEF OpenDb, IInv, TypeOK
  <2>2. \A n \in Rec : cache[n] = Missing BY <2>1 DEF DbInv, StageInv
  <2>3. Goal[0].type = "ver" BY <2>1, <2>2, GoalView, InRec DEF View, IInv
  <2>4. DOMAIN todo = {} BY <2>1
  <2>5. Ready' BY <1>1, <2>2, <2>4 DEF Ready
  <2>6. StageInv' BY <1>1, <1>2, <2>1, <2>3, <2>5 DEF DbInv, StageInv
  <2> QED BY <1>3, <2>6 DEF DbInv
<1>5. CASE Sync
  <2>1. pc = "run" /\ pc' = "sync" BY <1>5 DEF Sync
  <2>2. StageInv' BY <1>1, <1>2, <2>1 DEF DbInv, StageInv
  <2> QED BY <1>3, <2>2 DEF DbInv
<1> QED BY <1>4, <1>5

\* After a sync the file is the goal.
LEMMA SyncDoneDb == IInv /\ DbInv /\ SyncDone => DbInv'
<1> SUFFICES ASSUME IInv, DbInv, SyncDone PROVE DbInv' OBVIOUS
<1>1. /\ pc = "sync" /\ dirty = {} /\ pc' = "run"
      /\ asked' = Only(map) /\ touched' = {} /\ torn' = FALSE
      /\ UNCHANGED <<exists, file, cache, todo, map, damaged>>
  BY DEF SyncDone, Only
<1>2. todo = <<>> BY <1>1 DEF IInv, TypeOK
<1>3. Goal' = Goal /\ Size' = Size BY <1>1 DEF Goal, Size
<1>4. \A n \in Rec : Goal[n] = file[n] /\ (cache[n] # Missing => cache[n] = file[n])
  BY <1>1, <1>2, GoalView DEF View, IInv, Kept
<1>5. Goal = file
  <2>1. Goal = [n \in Rec |-> Goal[n]] /\ file = [n \in Rec |-> file[n]]
    BY DEF Goal, GoalOf, IInv, TypeOK
  <2> QED BY <1>4, <2>1
<1>6. AllFit(Goal, asked', touched', file, cache)
  <2> SUFFICES ASSUME NEW n \in Rec PROVE Fits(Goal, asked', touched', n, Goal[n])
    BY <1>4, <1>5 DEF AllFit
  <2>1. Older(Goal, n, Goal[n]) BY GoalFits DEF Fits, DbInv
  <2>2. Valued(Goal, asked') BY <1>1 DEF DbInv, DataInv
  <2> QED BY <2>1, <2>2 DEF Fits, Same, Valued
<1>7. \A k \in Key : map[k] \in asked'[k] BY <1>1 DEF Only
<1>8. Settled(file, asked', damaged) BY <1>1, <1>5 DEF DbInv, DataInv
<1>9. DataInv' BY <1>1, <1>3, <1>6, <1>7, <1>8 DEF DbInv, DataInv
<1>10. Ready'
  <2>1. ASSUME NEW n \in Rec, cache[n] # Missing PROVE n < Size
    BY <1>4, <2>1 DEF IInv, Filled
  <2>2. DOMAIN todo = {} BY <1>2
  <2> QED BY <1>1, <1>3, <2>1, <2>2 DEF Ready
<1>11. StageInv' BY <1>1, <1>3, <1>10 DEF DbInv, StageInv
<1> QED BY <1>9, <1>11 DEF DbInv

-----------------------------------------------------------------------------
\* There is no file at first.
LEMMA InitDb == Init => DbInv
<1> SUFFICES ASSUME Init PROVE DbInv OBVIOUS
<1>1. IInv BY InitInv
<1>2. /\ ~ exists /\ pc = "down" /\ todo = <<>> /\ touched = {} /\ damaged = {} /\ torn = FALSE
      /\ \A n \in Rec : file[n] = Missing /\ cache[n] = Missing
      /\ \A k \in Key : map[k] = NoTrust /\ asked[k] = {NoTrust}
  BY DEF Init
<1>3. Goal = View /\ Distinct(todo) /\ Database(Goal) BY <1>1, <1>2, GoalView, GoalTypes DEF IInv
<1>4. \A n \in Rec : Goal[n] = Missing /\ Goal[n].type = "missing"
  BY <1>2, <1>3 DEF View, Missing
<1>5. TableOf(Goal) = 0 /\ ~ HasTable(Goal) /\ Lists(Goal) = {} /\ Goal[0] = Missing
  <2>1. TableOf(Goal) = 0 BY <1>4, InRec DEF TableOf
  <2> QED BY <1>4, <2>1, InRec DEF HasTable, Lists
<1>6. \A b : Chain(Goal, b) = {} /\ Members(Goal, b) = {} /\ Linked(Goal, b) = {}
  BY <1>5 DEF Chain, Members, Linked
<1>7. Sound(Goal) BY <1>5, <1>6 DEF Sound, Rooted, Upward, Disjoint, SoundIn, Missing
<1>8. Valued(Goal, Only(map)) BY <1>6 DEF Valued
<1>9. Settled(Goal, Only(map), damaged) /\ Settled(Goal, asked, damaged)
  BY <1>2, <1>5, <1>6 DEF Settled, Whole, Only
<1>10. file = Goal
  <2>1. Goal = [n \in Rec |-> Goal[n]] /\ file = [n \in Rec |-> file[n]]
    BY DEF Goal, GoalOf, Init
  <2> QED BY <1>2, <1>4, <2>1
<1>11. Written(Goal, file) BY <1>6 DEF Written
<1>12. AllFit(Goal, asked, touched, file, cache)
  <2> SUFFICES ASSUME NEW n \in Rec PROVE Fits(Goal, asked, touched, n, Missing)
    BY <1>2 DEF AllFit
  <2>1. Older(Goal, n, Missing) BY DEF Older
  <2> QED BY <1>4, <1>6, <2>1 DEF Fits, Same
<1>13. DataInv BY <1>2, <1>7, <1>8, <1>9, <1>10, <1>11, <1>12 DEF DataInv
<1>14. StageInv BY <1>2, <1>3 DEF StageInv
<1> QED BY <1>13, <1>14 DEF DbInv

-----------------------------------------------------------------------------
\* New trusts in trust records, and empty records that are appended, leave the
\* lists as they are.
Refreshed(g, h) ==
  \A n \in Rec :
    \/ h[n] = g[n]
    \/ h[n].type = "trust" /\ g[n].type = "trust" /\ h[n].key = g[n].key
    \/ g[n] = Missing /\ h[n] = Unused /\ \A b \in Bucket : n \notin Linked(g, b)

\* They keep it sound,
LEMMA RefreshedSound ==
  ASSUME NEW g, Database(g), Sound(g), NEW h, Database(h), Refreshed(g, h)
  PROVE  /\ Alike(g, h) /\ Sound(h) /\ (Written(g, g) => Written(h, h))
         /\ \A b \in Bucket : \A n \in Linked(g, b) :
              \/ h[n] = g[n]
              \/ h[n].type = "trust" /\ g[n].type = "trust" /\ h[n].key = g[n].key
<1>1. Alike(g, h) BY DEF Refreshed, Alike, Missing, Unused
<1>2. /\ TableOf(h) = TableOf(g) /\ HasTable(h) = HasTable(g) /\ Lists(h) = Lists(g)
      /\ \A n \in Lists(g) : h[n] = g[n]
      /\ \A b \in Bucket : /\ HasTable(g) => Item(h, b) = Item(g, b)
                           /\ Chain(h, b) = Chain(g, b)
                           /\ Members(h, b) = Members(g, b)
                           /\ Linked(h, b) = Linked(g, b)
  BY <1>1, AlikeLinked
<1>3. ASSUME NEW b \in Bucket, NEW n \in Linked(g, b)
      PROVE  \/ h[n] = g[n]
             \/ h[n].type = "trust" /\ g[n].type = "trust" /\ h[n].key = g[n].key
  <2>1. n \in Rec BY <1>3, ChainIs DEF Linked
  <2> QED BY <2>1 DEF Refreshed
<1>4. \A b \in Bucket : \A n \in Linked(g, b) :
        h[n].type = g[n].type /\ (h[n].type = "trust" => h[n].key = g[n].key)
  BY <1>3
<1>5. Rooted(h)
  <2>1. TableOf(g) \in Rec /\ 0 \in Rec BY TableTypes, InRec
  <2>2. \A n \in Rec :
          h[n].type = g[n].type \/ (g[n].type = "missing" /\ h[n].type = "unused")
    BY DEF Refreshed, Missing, Unused
  <2>3. Rooted(g) BY DEF Sound
  <2>4. h[0].type \in {"missing", "unused", "ver"} BY <2>1, <2>2, <2>3 DEF Rooted
  <2>5. TableOf(g) # 0 => h[TableOf(g)].type \in {"missing", "unused", "htbl"}
    BY <2>1, <2>2, <2>3 DEF Rooted
  <2> QED BY <1>2, <2>4, <2>5 DEF Rooted
<1>6. Upward(h) /\ Disjoint(h) BY <1>2 DEF Sound, Upward, Disjoint
<1>7. ASSUME NEW b \in Bucket PROVE SoundIn(h, b)
  <2>1. /\ Chain(h, b) = Chain(g, b) /\ Members(h, b) = Members(g, b) /\ SoundIn(g, b)
        /\ Chain(g, b) \subseteq Linked(g, b) /\ Members(g, b) \subseteq Linked(g, b)
    BY <1>2 DEF Sound, Linked
  <2>2. Chain(g, b) # {} => Item(h, b) = Item(g, b) BY <1>2, ChainIs
  <2> QED BY <1>4, <2>1, <2>2 DEF SoundIn
<1>8. Written(g, g) => Written(h, h)
  BY <1>2, <1>3 DEF Written, Missing
<1> QED BY <1>1, <1>3, <1>5, <1>6, <1>7, <1>8 DEF Sound

\* and settled.
LEMMA RefreshedSettled ==
  ASSUME NEW g, Database(g), Sound(g), NEW h, Database(h), Refreshed(g, h),
         NEW a, NEW d, Settled(g, a, d)
  PROVE  Settled(h, a, d)
<1>1. Alike(g, h)
      /\ \A b \in Bucket : \A n \in Linked(g, b) :
           \/ h[n] = g[n]
           \/ h[n].type = "trust" /\ g[n].type = "trust" /\ h[n].key = g[n].key
  BY RefreshedSound
<1>2. /\ TableOf(h) = TableOf(g) /\ HasTable(h) = HasTable(g)
      /\ \A b \in Bucket : Members(h, b) = Members(g, b) /\ Linked(h, b) = Linked(g, b)
  BY <1>1, AlikeLinked
<1>3. ASSUME NEW b \in Bucket, Whole(g, b) PROVE Whole(h, b)
  BY <1>1, <1>2, <1>3 DEF Whole
<1>4. ASSUME NEW k \in Key, Has(g, k) PROVE Has(h, k)
  <2>1. BucketOf[k] \in Bucket BY TrustAssumption
  <2>2. PICK n \in Members(g, BucketOf[k]) : Holds(g, n, k) BY <1>4 DEF Has
  <2>3. Holds(h, n, k) BY <1>1, <2>1, <2>2 DEF Holds, Linked
  <2> QED BY <1>2, <2>1, <2>2, <2>3 DEF Has
<1> QED BY <1>3, <1>4 DEF Settled

\* A database without a table
LEMMA Blank ==
  ASSUME NEW g, Rooted(g), TableOf(g) = 0
  PROVE  /\ ~ HasTable(g)
         /\ \A b : Chain(g, b) = {} /\ Members(g, b) = {} /\ Linked(g, b) = {}
         /\ \A b : Whole(g, b)
         /\ \A k : ~ Has(g, k)
<1>1. ~ HasTable(g) BY DEF HasTable, Rooted
<1>2. \A b : Chain(g, b) = {} /\ Members(g, b) = {} /\ Linked(g, b) = {}
  BY <1>1 DEF Chain, Members, Linked
<1> QED BY <1>1, <1>2 DEF Whole, Has

-----------------------------------------------------------------------------
\* The end of a process: the next one starts from the file.
LEMMA StopDb ==
  ASSUME IInv, IInv', DbInv, pc # "down", Stop,
         \A n \in Rec : \/ file'[n] = file[n]
                        \/ file[n] = Missing /\ file'[n] = Unused
  PROVE  DbInv'
<1> DEFINE d == IF torn THEN damaged \cup touched ELSE damaged
<1>1. Database(file) /\ Database(file') BY DEF IInv, TypeOK, Database
<1>2. /\ Sound(file) /\ Written(file, file) /\ Valued(file, asked) /\ Settled(file, asked, d)
  BY FileIs DEF DbInv
<1>3. /\ \A k \in Key : Lookup(file, k) \in asked[k] =>
                          map'[k] = Lookup(file, k) /\ asked'[k] = {map'[k]}
      /\ \A k \in Key : Lookup(file, k) \notin asked[k] =>
                          map'[k] = map[k] /\ asked'[k] = asked[k]
      /\ damaged' = d /\ touched' = {} /\ torn' = FALSE /\ exists' = exists
      /\ todo' = <<>> /\ pc' = "down" /\ \A n \in Rec : cache'[n] = Missing
  BY DEF Stop
<1> HIDE DEF d
<1>4. \A k \in Key : map'[k] \in asked'[k] BY <1>3 DEF DbInv, DataInv
<1>5. ASSUME NEW b \in Bucket, NEW n \in Members(file, b), file[n].type = "trust"
      PROVE  /\ file[n].key \in Key /\ map'[file[n].key] = file[n].ownertrust
             /\ asked'[file[n].key] = {file[n].ownertrust}
  <2> DEFINE k == file[n].key
  <2>1. n \in Rec /\ BucketOf[k] = b BY <1>1, <1>2, <1>5, ChainIs DEF Sound, SoundIn
  <2>2. k \in Key BY <1>1, <1>5, <2>1, TrustFields DEF Database
  <2>3. Holds(file, n, k) BY <1>5 DEF Holds
  <2> HIDE DEF k
  <2>4. Lookup(file, k) = file[n].ownertrust /\ Lookup(file, k) \in asked[k]
    BY <1>1, <1>2, <1>5, <2>1, <2>2, <2>3, LookupFinds
  <2> QED BY <1>3, <2>2, <2>4 DEF k
<1>6. ASSUME NEW k \in Key, BucketOf[k] \notin d, ~ Has(file, k)
      PROVE  map'[k] = NoTrust /\ asked'[k] = {NoTrust}
  <2>1. BucketOf[k] \in Bucket BY TrustAssumption
  <2>2. Whole(file, BucketOf[k]) /\ NoTrust \in asked[k] BY <1>2, <1>6, <2>1 DEF Settled
  <2>3. Lookup(file, k) = NoTrust BY <1>1, <1>2, <1>6, <2>2, LookupFinds
  <2> QED BY <1>3, <2>2, <2>3
<1>7. Settled(file, Only(map'), d) /\ Settled(file, asked', d)
  BY <1>2, <1>6 DEF Settled, Only
<1>8. Refreshed(file, file')
  BY <1>2 DEF Refreshed, Written
<1>9. /\ Sound(file') /\ Written(file', file') /\ Alike(file, file')
      /\ Settled(file', Only(map'), d) /\ Settled(file', asked', d)
  BY <1>1, <1>2, <1>7, <1>8, RefreshedSound, RefreshedSettled
<1>10. ASSUME NEW b \in Bucket, NEW n \in Members(file', b), file'[n].type = "trust"
       PROVE  /\ file'[n].key \in Key /\ map'[file'[n].key] = file'[n].ownertrust
              /\ asked'[file'[n].key] = {file'[n].ownertrust}
  <2>1. n \in Members(file, b) /\ n \in Rec BY <1>1, <1>9, AlikeLinked, ChainIs
  <2>2. file'[n] = file[n] BY <1>10, <2>1 DEF Unused
  <2> QED BY <1>5, <1>10, <2>1, <2>2
<1>11. Valued(file', Only(map')) /\ Valued(file', asked') BY <1>10 DEF Valued, Only
<1>12. Goal' = file'
  <2>1. \A n : Entries(<<>>, n) = {} BY DEF Entries
  <2>2. \A n \in Rec : Goal'[n] = file'[n] BY <1>3, <2>1 DEF Goal, GoalOf
  <2>3. Goal' = [n \in Rec |-> Goal'[n]] BY DEF Goal, GoalOf
  <2> QED BY <1>1, <2>2, <2>3 DEF Database
<1>13. AllFit(file', asked', {}, file', cache')
  <2> SUFFICES ASSUME NEW n \in Rec PROVE Fits(file', asked', {}, n, file'[n])
    BY <1>3 DEF AllFit
  <2>1. Older(file', n, file'[n]) BY <1>1, OlderSelf DEF Database
  <2> QED BY <1>11, <2>1 DEF Fits, Same, Valued
<1>14. DataInv' BY <1>3, <1>4, <1>9, <1>11, <1>12, <1>13 DEF DataInv
<1>15. StageInv'
  <2>1. Distinct(<<>>) BY DEF Distinct
  <2> QED BY <1>3, <2>1 DEF DbInv, StageInv
<1> QED BY <1>14, <1>15 DEF DbInv

\* The process exits or is killed,
LEMMA EndsDb == IInv /\ DbInv /\ Ends => DbInv'
<1> SUFFICES ASSUME IInv, DbInv, Ends PROVE DbInv' OBVIOUS
<1> QED BY EndsInv, StopDb DEF Ends

\* or ends because of an invalid record, after it has appended one.
LEMMA InvalidDb == ASSUME IInv, DbInv, NEW k \in Key, Invalid(k) PROVE DbInv'
<1>1. ASSUME NEW n \in Rec PROVE file'[n] = file[n] \/ (file[n] = Missing /\ file'[n] = Unused)
  <2>1. CASE UNCHANGED file BY <2>1
  <2>2. CASE file' = Appended({Size})
    <3>1. file[Size] = Missing \/ Size \notin Rec
      BY InRec DEF IInv, Filled
    <3> QED BY <2>2, <3>1 DEF Appended
  <2> QED BY <2>1, <2>2 DEF Invalid
<1>2. Stop /\ pc = "run" BY DEF Invalid, Searches
<1> QED BY <1>1, <1>2, InvalidInv, StopDb

-----------------------------------------------------------------------------
\* create_version_record starts with an empty file.
LEMMA CreateDb == IInv /\ DbInv /\ Create => DbInv'
<1> SUFFICES ASSUME IInv, DbInv, Create PROVE DbInv' OBVIOUS
<1>1. /\ exists' /\ pc' = "put" /\ todo' = <<<<0, Version(0)>>>>
      /\ UNCHANGED <<file, cache, map, asked, touched, torn, damaged>>
  BY DEF Create, memory, history
<1>2. pc = "down" /\ \A n \in Rec : file[n] = Missing /\ cache[n] = Missing
  BY DEF Create, DbInv, StageInv
<1>3. Distinct(todo')
  <2>1. DOMAIN todo' = {1} BY <1>1
  <2> QED BY <2>1 DEF Distinct
<1>4. DOMAIN todo' = {1} /\ todo'[1] = <<0, Version(0)>> BY <1>1
<1>5. /\ Goal'[0] = Version(0)
      /\ \A n \in Rec \ {0} : Goal'[n] = Missing
  BY <1>1, <1>2, <1>3, <1>4, InRec, GoalIs DEF Goal
<1>6. /\ Goal'[0].type = "ver" /\ TableOf(Goal') = 0 /\ Rooted(Goal') /\ Lists(Goal') = {}
  <2>1. Goal'[0].type = "ver" /\ TableOf(Goal') = 0 BY <1>5 DEF Version, TableOf
  <2>2. \A n \in Rec : Goal'[n].type # "hlst" BY <1>5 DEF Version, Missing
  <2> QED BY <2>1, <2>2 DEF Rooted, Lists
<1>7. /\ \A b : Chain(Goal', b) = {} /\ Members(Goal', b) = {} /\ Linked(Goal', b) = {}
      /\ \A b : Whole(Goal', b)
      /\ ~ HasTable(Goal')
  <2> DEFINE g == Goal'
  <2>1. Rooted(g) /\ TableOf(g) = 0 BY <1>6
  <2> HIDE DEF g
  <2> QED BY <2>1, Blank DEF g
<1>8. Sound(Goal') BY <1>6, <1>7 DEF Sound, Upward, Disjoint, SoundIn
<1>9. \A k : ~ Has(Goal, k)
  <2>1. Goal = View BY <1>2, GoalView DEF IInv, TypeOK
  <2>2. Goal[0] = Missing BY <1>2, <2>1, InRec DEF View
  <2>3. TableOf(Goal) = 0 BY <2>2 DEF TableOf, Missing
  <2> QED BY <2>3, Blank DEF DbInv, DataInv, Sound
<1>10. Settled(Goal', Only(map), damaged) BY <1>7, <1>9 DEF DbInv, DataInv, Settled
<1>11. Valued(Goal', Only(map)) /\ Written(Goal', file) BY <1>7 DEF Valued, Written
<1>12. AllFit(Goal', asked, touched, file, cache)
  <2> SUFFICES ASSUME NEW n \in Rec PROVE Fits(Goal', asked, touched, n, Missing)
    BY <1>2 DEF AllFit
  <2>1. Older(Goal', n, Missing) BY DEF Older
  <2> QED BY <1>6, <1>7, <2>1 DEF Fits, Same, Anchor
<1>13. DataInv' BY <1>1, <1>8, <1>10, <1>11, <1>12 DEF DbInv, DataInv
<1>14. todo'[Len(todo')][1] = 0 BY <1>1
<1>15. StageInv' BY <1>1, <1>3, <1>6, <1>14 DEF StageInv
<1> QED BY <1>13, <1>15 DEF DbInv

-----------------------------------------------------------------------------
\* An operation that leaves records to be written, while nothing else was
LEMMA NewGoal ==
  ASSUME IInv, IInv', DbInv, pc = "run", UNCHANGED cache
  PROVE  /\ todo = <<>> /\ Goal = View /\ Ready /\ exists /\ Goal[0].type = "ver"
         /\ Database(Goal) /\ Database(Goal') /\ Database(file') /\ Database(cache)
         /\ Past(Goal, file) /\ Past(Goal, cache)
         /\ \A n \in Rec : Goal[n] # Missing => n < Size
<1>1. todo = <<>> /\ Ready /\ exists /\ Goal[0].type = "ver"
  BY DEF IInv, TypeOK, DbInv, StageInv
<1>2. Goal = View /\ Database(Goal) /\ Database(cache)
  BY <1>1, GoalView, GoalTypes DEF IInv
<1>3. Database(file') /\ Database(cache') /\ todo' \in Seq(Rec \X Record)
  BY DEF IInv, TypeOK, Database
<1>4. Database(Goal') BY <1>3, GoalOfTypes DEF Goal
<1>5. Past(Goal, file) /\ Past(Goal, cache) BY FileIs DEF DbInv
<1>6. \A n \in Rec : Goal[n] # Missing => n < Size
  BY <1>1, <1>2 DEF View, Ready, IInv, Filled
<1> QED BY <1>1, <1>2, <1>3, <1>4, <1>5, <1>6

\* create_hashtable appends the table and then writes it and the version record.
\* Until both are there nothing is found, and nothing was.
LEMMA CreateTableDb == IInv /\ DbInv /\ CreateTable => DbInv'
<1> SUFFICES ASSUME IInv, DbInv, CreateTable PROVE DbInv' OBVIOUS
<1> DEFINE f == [b \in Bucket |-> 0]
           h == Goal'
<1>1. /\ pc = "run" /\ TableOf(View) = 0 /\ Size <= MaxRec /\ pc' = "put" /\ touched' = Bucket
      /\ todo' = <<<<Size, Table(f)>>, <<0, Version(Size)>>>>
      /\ UNCHANGED <<exists, file, cache, map, asked, torn, damaged>>
  BY DEF CreateTable, memory
<1>2. IInv' BY CreateTableInv
<1>3. /\ Goal = View /\ exists /\ Goal[0].type = "ver" /\ TableOf(Goal) = 0
      /\ Database(Goal) /\ Database(h) /\ Database(file) /\ Database(cache)
      /\ Past(Goal, file) /\ Past(Goal, cache)
      /\ \A n \in Rec : Goal[n] # Missing => n < Size
      /\ Sound(Goal) /\ Rooted(Goal)
  BY <1>1, <1>2, NewGoal DEF DbInv, DataInv, Sound
<1>4. Size \in Rec \ {0} /\ Size \in Nat /\ Goal[Size] = Missing
  <2>1. Goal[0] # Missing BY <1>3 DEF Missing
  <2>2. 0 < Size BY <1>3, <2>1, InRec
  <2> QED BY <1>1, <1>3, <2>2, InRec DEF IInv
<1> HIDE DEF f
<1>5. DOMAIN todo' = {1, 2} /\ todo'[1] = <<Size, Table(f)>> /\ todo'[2] = <<0, Version(Size)>>
      /\ Len(todo') = 2
  BY <1>1
<1>6. Distinct(todo') BY <1>4, <1>5 DEF Distinct
<1>7. /\ h[Size] = Table(f) /\ h[0] = Version(Size)
      /\ \A n \in Rec \ {0, Size} : h[n] = Goal[n]
  <2>1. h[Size] = Table(f) /\ h[0] = Version(Size)
    BY <1>4, <1>5, <1>6, InRec, GoalIs DEF Goal
  <2>2. ASSUME NEW n \in Rec \ {0, Size} PROVE h[n] = View[n]
    <3>1. \A i \in DOMAIN todo' : todo'[i][1] # n BY <1>5, <2>2
    <3> QED BY <1>1, <1>6, <3>1, GoalIs DEF Goal, View
  <2> QED BY <1>3, <2>1, <2>2
<1> HIDE DEF h
<1>8. /\ TableOf(h) = Size /\ HasTable(h) /\ Rooted(h) /\ \A b \in Bucket : Item(h, b) = 0
      /\ Lists(h) = Lists(Goal)
  <2>1. TableOf(h) = Size BY <1>7 DEF TableOf, Version
  <2>2. HasTable(h) /\ \A b \in Bucket : Item(h, b) = 0
    BY <1>7, <2>1 DEF HasTable, Item, Table, f
  <2>3. Rooted(h) BY <1>7, <2>1 DEF Rooted, Version, Table
  <2>4. 0 \notin Lists(h) /\ Size \notin Lists(h) BY <1>7 DEF Lists, Version, Table
  <2>5. 0 \notin Lists(Goal) /\ Size \notin Lists(Goal) BY <1>3, <1>4 DEF Lists, Missing
  <2> QED BY <1>7, <2>1, <2>2, <2>3, <2>4, <2>5 DEF Lists
<1>9. \A b \in Bucket : Chain(h, b) = {} /\ Members(h, b) = {} /\ Linked(h, b) = {}
  BY <1>8 DEF Chain, Members, Linked
<1>10. Upward(h)
  <2>1. \A n \in Lists(Goal) : h[n] = Goal[n] BY <1>3, <1>4, <1>7 DEF Lists, Missing
  <2> QED BY <1>3, <1>8, <2>1 DEF Upward, Sound
<1>11. Sound(h) BY <1>8, <1>9, <1>10 DEF Sound, Disjoint, SoundIn
<1>12. Past(h, Goal)
  <2> SUFFICES ASSUME NEW n \in Rec PROVE Older(h, n, Goal[n]) BY DEF Past
  <2>1. CASE n = 0
    <3>1. Goal[0].table = 0 BY <1>3 DEF TableOf
    <3> QED BY <1>3, <1>7, <2>1, <3>1 DEF Older, Version
  <2>2. CASE n = Size BY <1>4, <2>2 DEF Older
  <2>3. CASE n \notin {0, Size} BY <1>3, <1>7, <2>3, OlderSelf DEF Database
  <2> QED BY <2>1, <2>2, <2>3
<1>13. Past(h, file) /\ Past(h, cache)
  <2>1. ASSUME NEW n \in Rec, Goal[n].type = "htbl" PROVE h[n] = Goal[n]
    BY <1>3, <1>4, <1>7, <2>1 DEF Missing
  <2> QED BY <1>3, <1>11, <1>12, <2>1, PastTrans
<1>14. Settled(h, Only(map), damaged)
  <2>1. \A k : ~ Has(Goal, k) BY <1>3, Blank
  <2> QED BY <1>8, <1>9, <2>1 DEF DbInv, DataInv, Settled, Whole
<1>15. Valued(h, Only(map)) /\ Written(h, file) BY <1>9 DEF Valued, Written
<1>16. AllFit(h, asked, touched', file, cache)
  BY <1>1, <1>9, <1>13 DEF AllFit, Fits, Past
<1>17. DataInv' BY <1>1, <1>11, <1>14, <1>15, <1>16 DEF DbInv, DataInv, h
<1>18. StageInv'
  <2>1. h[0].type = "ver" BY <1>7 DEF Version
  <2> QED BY <1>1, <1>3, <1>5, <1>6, <2>1 DEF StageInv, h
<1> QED BY <1>17, <1>18 DEF DbInv

-----------------------------------------------------------------------------
\* What is asked for is added to what was asked for since the last sync.
LEMMA AskIs ==
  ASSUME TypeOK, NEW k \in Key, NEW v \in Trust, Ask(k, v)
  PROVE  /\ map'[k] = v /\ \A j \in Key \ {k} : map'[j] = map[j]
         /\ v \in asked'[k] /\ \A j \in Key : asked[j] \subseteq asked'[j]
BY DEF TypeOK, Ask

\* The file is as settled as before when more is asked for.
LEMMA AskSettled ==
  ASSUME NEW db, NEW a, NEW c, NEW d, Settled(db, a, d), \A j \in Key : a[j] \subseteq c[j]
  PROVE  Settled(db, c, d)
BY DEF Settled

\* update_ownertrust with a record that is there
LEMMA ChangeDb ==
  ASSUME IInv, DbInv, NEW k \in Key, NEW v \in Trust, Change(k, v)
  PROVE  DbInv'
<1> DEFINE g == Goal
           h == Goal'
           T == TrustRec(k, v)
<1>1. /\ pc = "run" /\ pc' = "put" /\ Ask(k, v)
      /\ UNCHANGED <<exists, file, cache, touched, torn, damaged>>
  BY DEF Change, Searches, memory
<1>2. PICK n \in Rec : n = Find(View, k) /\ View[n].type = "trust" /\ todo' = <<<<n, T>>>>
  BY DEF Change
<1>3. IInv' BY ChangeInv
<1>4. /\ g = View /\ Ready /\ exists /\ g[0].type = "ver"
      /\ Database(g) /\ Database(h) /\ Database(file) /\ Database(cache)
      /\ Past(g, file) /\ Past(g, cache)
      /\ \A m \in Rec : g[m] # Missing => m < Size
      /\ Sound(g) /\ Valued(g, Only(map)) /\ Settled(g, Only(map), damaged)
      /\ Written(g, file) /\ AllFit(g, asked, touched, file, cache)
  BY <1>1, <1>3, NewGoal DEF DbInv, DataInv
<1>5. DOMAIN todo' = {1} /\ todo'[1] = <<n, T>> /\ Len(todo') = 1 BY <1>2
<1>6. Distinct(todo') BY <1>5 DEF Distinct
<1>7. h[n] = T /\ \A m \in Rec \ {n} : h[m] = g[m]
  <2>1. h[n] = T BY <1>5, <1>6, GoalIs DEF Goal
  <2>2. ASSUME NEW m \in Rec \ {n} PROVE h[m] = View[m]
    <3>1. \A i \in DOMAIN todo' : todo'[i][1] # m BY <1>5, <2>2
    <3> QED BY <1>1, <1>6, <3>1, GoalIs DEF Goal, View
  <2> QED BY <1>4, <2>1, <2>2
<1>8. T.type = "trust" /\ T.key = k /\ T.ownertrust = v BY DEF TrustRec
<1> HIDE DEF g, h, T
<1>9. BucketOf[k] \in Bucket BY TrustAssumption
<1>10. n # 0 /\ n \in Members(g, BucketOf[k]) /\ Holds(g, n, k)
  <2>1. n # 0 BY <1>2, <1>4
  <2>2. CASE \E m \in Members(g, BucketOf[k]) : Holds(g, m, k)
    BY <1>2, <1>4, <2>1, <2>2, Found
  <2>3. CASE \A m \in Members(g, BucketOf[k]) : ~ Holds(g, m, k)
    <3>1. n \in {0, Failed} BY <1>2, <1>4, <2>3, NotFound
    <3> QED BY <2>1, <3>1, InRec, TrustAssumption
  <2> QED BY <2>2, <2>3
<1>11. Refreshed(g, h) BY <1>7, <1>8, <1>10 DEF Refreshed, Holds
<1>12. /\ Sound(h) /\ TableOf(h) = TableOf(g) /\ HasTable(h) = HasTable(g)
       /\ \A b \in Bucket : /\ HasTable(g) => Item(h, b) = Item(g, b)
                            /\ Members(h, b) = Members(g, b)
                            /\ Linked(h, b) = Linked(g, b)
  BY <1>4, <1>11, RefreshedSound, AlikeLinked
<1>13. ASSUME NEW b \in Bucket, NEW m \in Members(g, b), g[m].type = "trust"
       PROVE  m = n \/ (m \in Rec \ {n} /\ g[m].key \in Key \ {k})
  <2>1. m \in Rec /\ BucketOf[g[m].key] = b BY <1>4, <1>13, ChainIs DEF Sound, SoundIn
  <2>2. g[m].key \in Key BY <1>4, <1>13, <2>1, TrustFields DEF Database
  <2>3. ASSUME g[m].key = k PROVE m = n
    BY <1>4, <1>9, <1>10, <1>13, <2>1, <2>3 DEF Sound, SoundIn, Holds
  <2> QED BY <2>1, <2>2, <2>3
<1>14. /\ map'[k] = v /\ \A j \in Key \ {k} : map'[j] = map[j]
       /\ v \in asked'[k] /\ \A j \in Key : asked[j] \subseteq asked'[j]
  BY <1>1, AskIs DEF IInv
<1>15. Valued(h, Only(map'))
  <2> SUFFICES ASSUME NEW b \in Bucket, NEW m \in Members(h, b), h[m].type = "trust"
               PROVE  h[m].ownertrust \in Only(map')[h[m].key]
    BY DEF Valued
  <2>1. CASE m = n BY <1>7, <1>8, <1>14, <2>1 DEF Only
  <2>2. CASE m # n
    <3>1. m \in Members(g, b) /\ m \in Rec BY <1>4, <1>12, ChainIs
    <3>2. h[m] = g[m] BY <1>7, <2>2, <3>1
    <3>3. g[m].key \in Key \ {k} BY <1>13, <2>2, <3>1, <3>2
    <3>4. g[m].ownertrust \in Only(map)[g[m].key] BY <1>4, <3>1, <3>2 DEF Valued
    <3> QED BY <1>14, <3>2, <3>3, <3>4 DEF Only
  <2> QED BY <2>1, <2>2
<1>16. Settled(h, Only(map'), damaged)
  <2>1. Settled(h, Only(map), damaged) BY <1>4, <1>11, RefreshedSettled
  <2>2. Holds(h, n, k) BY <1>7, <1>8 DEF Holds
  <2>3. Has(h, k) BY <1>9, <1>10, <1>12, <2>2 DEF Has
  <2> QED BY <1>14, <2>1, <2>3 DEF Settled, Only
<1>17. Written(h, file) BY <1>4, <1>12 DEF Written
<1>18. Past(h, file) /\ Past(h, cache)
  <2>1. ASSUME NEW m \in Rec PROVE Older(h, m, g[m])
    <3>1. g[m] \in Record \cup {Missing} BY <1>4 DEF Database
    <3>2. h[m] = g[m] \/ (g[m].type = "trust" /\ h[m].type = "trust" /\ g[m].key = h[m].key)
      BY <1>7, <1>8, <1>10 DEF Holds
    <3> QED BY <3>1, <3>2, OlderSelf
  <2>2. Past(h, g) BY <2>1 DEF Past
  <2>3. \A m \in Rec : g[m].type = "htbl" => h[m] = g[m] BY <1>7, <1>10 DEF Holds
  <2> QED BY <1>4, <1>12, <2>2, <2>3, PastTrans
<1>19. ASSUME NEW m \in Rec, NEW r \in Record \cup {Missing}, Older(h, m, r),
              Fits(g, asked, touched, m, r)
       PROVE  Fits(h, asked', touched, m, r)
  <2>1. Older(h, m, r) BY <1>19
  <2>2. ASSUME NEW b \in Bucket \ touched, m \in Anchor(h, b) PROVE Same(h, b, m, r)
    <3>1. Same(g, b, m, r) BY <1>12, <1>19, <2>2 DEF Fits, Anchor
    <3>2. g[m].type = "trust" <=> h[m].type = "trust" BY <1>7, <1>8, <1>10 DEF Holds
    <3>3. m # n => h[m] = g[m] BY <1>7
    <3>4. g[n].type = "trust" BY <1>10 DEF Holds
    <3> QED BY <1>12, <3>1, <3>2, <3>3, <3>4 DEF Same
  <2>3. ASSUME NEW b \in Bucket, m \in Members(h, b), r.type = "trust"
        PROVE  r.ownertrust \in asked'[r.key]
    <3>1. r.key \in Key BY <1>19, <2>3, TrustFields
    <3> QED BY <1>12, <1>14, <1>19, <2>3, <3>1 DEF Fits
  <2> QED BY <2>1, <2>2, <2>3 DEF Fits
<1>20. AllFit(h, asked', touched, file, cache)
  BY <1>4, <1>18, <1>19 DEF AllFit, Past, Database
<1>21. \A j \in Key : map'[j] \in asked'[j] BY <1>14 DEF DbInv, DataInv
<1>22. ~ torn => Settled(file, asked', damaged) BY <1>14, AskSettled DEF DbInv, DataInv
<1>23. DataInv' BY <1>1, <1>12, <1>15, <1>16, <1>17, <1>20, <1>21, <1>22 DEF DataInv, h
<1>24. StageInv'
  <2>1. n < Size BY <1>4, <1>10 DEF Holds, Missing
  <2>2. Size' = Size BY <1>1 DEF Size
  <2>3. Ready' BY <1>1, <1>4, <1>5, <2>1, <2>2 DEF Ready
  <2>4. h[0].type = "ver" BY <1>4, <1>7, <1>10, InRec
  <2> QED BY <1>1, <1>4, <1>6, <2>3, <2>4 DEF StageInv, h
<1> QED BY <1>23, <1>24 DEF DbInv

-----------------------------------------------------------------------------
\* Two records that are appended, of which y may not be needed
Fresh(g, x, y) ==
  /\ x \in Rec \ {0} /\ y \in Rec \ {0} /\ x < y
  /\ \A n \in Rec : g[n] # Missing => n < x
  /\ \A b \in Bucket : x \notin Linked(g, b) /\ y \notin Linked(g, b)
\* The table of g with n in bucket b, and the last record of the list in b
With(g, b, n) == Table([g[TableOf(g)].item EXCEPT ![b] = n])
LastOf(g, b) == Last(g)[Item(g, b)]

\* What upd_hashtable makes of g, with x in bucket b
Grown(g, h, b, x, y) ==
  /\ Past(h, g) /\ Upward(h)
  /\ TableOf(h) = TableOf(g) /\ HasTable(h)
  /\ \A c \in Bucket \ {b} : Item(h, c) = Item(g, c)
  /\ \A n \in Rec : \/ h[n] = g[n]
                    \/ n \in {x, y, TableOf(g)}
                    \/ n \in Chain(g, b) \cap Lists(g)
  /\ Chain(h, b) \subseteq Chain(g, b) \cup {x, y}
  /\ Members(h, b) = Members(g, b) \cup {x}
  /\ \A n \in Chain(h, b) : \/ h[n].type = "hlst"
                            \/ n \in Chain(g, b) /\ h[n] = g[n] /\ g[n].type # "trust"
                            \/ n = Item(h, b) /\ h[n].type = "trust"

\* What is not linked yet is neither the table nor a list.
LEMMA FreshIs ==
  ASSUME NEW g, Database(g), Sound(g), HasTable(g), NEW x, NEW y, Fresh(g, x, y)
  PROVE  /\ TableOf(g) \in Rec \ {0, x, y} /\ g[TableOf(g)].type = "htbl"
         /\ g[TableOf(g)].item \in [Bucket -> Rec]
         /\ x \in Rec \ {0, y} /\ y \in Rec \ {0} /\ g[x] = Missing /\ g[y] = Missing
         /\ 0 \notin Lists(g) /\ TableOf(g) \notin Lists(g)
         /\ \A n \in Lists(g) : n \in Rec \ {0, x, y} /\ n < y
         /\ Rec \subseteq Nat
<1>1. x \in Nat /\ y \in Nat /\ x < y /\ Rec \subseteq Nat BY InRec DEF Fresh
<1>2. g[x] = Missing /\ g[y] = Missing BY <1>1 DEF Fresh
<1>3. TableOf(g) \in Rec /\ g[TableOf(g)].type = "htbl" /\ g[TableOf(g)].item \in [Bucket -> Rec]
  BY TableTypes DEF HasTable
<1>4. TableOf(g) \notin {0, x, y} BY <1>2, <1>3 DEF Sound, Rooted, Missing
<1>5. \A n \in Lists(g) : n \in Rec /\ n < x BY DEF Fresh, Lists, Missing
<1>6. 0 \notin Lists(g) /\ TableOf(g) \notin Lists(g) BY <1>3 DEF Sound, Rooted, Lists
<1>7. ASSUME NEW n \in Lists(g) PROVE n \in Rec \ {0, x, y} /\ n < y
  <2>1. n \in Rec /\ n \in Nat /\ n < x /\ n # 0 BY <1>1, <1>5, <1>6
  <2> QED BY <1>1, <2>1
<1> QED BY <1>1, <1>2, <1>3, <1>4, <1>6, <1>7 DEF Fresh

\* The table with one entry changed
LEMMA TableSet ==
  ASSUME NEW g, Database(g), Sound(g), HasTable(g), NEW h, NEW b \in Bucket, NEW j \in Rec,
         h[0] = g[0], h[TableOf(g)] = With(g, b, j)
  PROVE  /\ TableOf(h) = TableOf(g) /\ HasTable(h) /\ Item(h, b) = j
         /\ \A c \in Bucket \ {b} : Item(h, c) = Item(g, c)
         /\ h[TableOf(g)].type = "htbl" /\ h[TableOf(g)].item[b] = j
         /\ \A c \in Bucket \ {b} : h[TableOf(g)].item[c] = g[TableOf(g)].item[c]
<1>1. g[TableOf(g)].item \in [Bucket -> Rec] BY TableTypes
<1>2. TableOf(h) = TableOf(g) BY DEF TableOf
<1>3. /\ h[TableOf(g)].type = "htbl" /\ h[TableOf(g)].item[b] = j
      /\ \A c \in Bucket \ {b} : h[TableOf(g)].item[c] = g[TableOf(g)].item[c]
  BY <1>1 DEF With, Table
<1> QED BY <1>2, <1>3 DEF HasTable, Item

\* It is enough to look at what changed.
LEMMA PastStep ==
  ASSUME NEW g, Database(g), NEW h,
         \A n \in Rec : h[n] = g[n] \/ g[n] = Missing \/ Older(h, n, g[n])
  PROVE  Past(h, g)
<1> SUFFICES ASSUME NEW n \in Rec PROVE Older(h, n, g[n]) BY DEF Past
<1>1. CASE h[n] = g[n] BY <1>1, OlderSelf DEF Database
<1>2. CASE g[n] = Missing BY <1>2 DEF Older
<1> QED BY <1>1, <1>2

\* The first record in a bucket
LEMMA FirstGrown ==
  ASSUME NEW g, Database(g), Sound(g), HasTable(g), NEW h, Database(h),
         NEW b \in Bucket, NEW x, NEW y, Fresh(g, x, y), h[x].type = "trust",
         Item(g, b) = 0, h[TableOf(g)] = With(g, b, x),
         \A n \in Rec \ {x, TableOf(g)} : h[n] = g[n]
  PROVE  Grown(g, h, b, x, y)
<1> DEFINE t == TableOf(g)
<1>1. /\ t \in Rec \ {0, x, y} /\ x \in Rec \ {0, y} /\ g[x] = Missing /\ t \notin Lists(g)
      /\ g[t].type = "htbl" /\ \A n \in Lists(g) : n # x /\ n \in Rec
  BY FreshIs
<1>2. h[0] = g[0] BY <1>1, InRec
<1>3. /\ TableOf(h) = t /\ HasTable(h) /\ Item(h, b) = x
      /\ \A c \in Bucket \ {b} : Item(h, c) = Item(g, c)
      /\ h[t].type = "htbl" /\ h[t].item[b] = x
      /\ \A c \in Bucket \ {b} : h[t].item[c] = g[t].item[c]
  BY <1>1, <1>2, TableSet
<1> HIDE DEF t
<1>4. Older(h, t, g[t])
  <2>1. g[t].item[b] = 0 BY DEF Item, t
  <2> QED BY <1>1, <1>3, <2>1 DEF Older
<1>5. Past(h, g) BY <1>1, <1>4, PastStep DEF t
<1>6. Lists(h) = Lists(g) /\ \A n \in Lists(g) : h[n] = g[n]
  BY <1>1, <1>3 DEF Lists, t, Missing
<1>7. Upward(h) BY <1>6 DEF Upward, Sound
<1>8. Follows(h, x) = {} BY DEF Follows, Lists
<1>9. Chain(h, b) = {x}
  <2>1. Chain(h, b) = Reach(h, x) BY <1>1, <1>3 DEF Chain
  <2> QED BY <1>1, <1>8, <2>1, ReachOnly, ReachClosed
<1>10. Members(h, b) = {x} BY <1>1, <1>3, <1>9 DEF Members, Lists
<1>11. Chain(g, b) = {} /\ Members(g, b) = {} BY DEF Chain, Members
<1> QED BY <1>3, <1>5, <1>7, <1>9, <1>10, <1>11 DEF Grown, t

\* The second one makes a list.
LEMMA SecondGrown ==
  ASSUME NEW g, Database(g), Sound(g), HasTable(g), NEW h, Database(h),
         NEW b \in Bucket, NEW x, NEW y, Fresh(g, x, y), h[x].type = "trust",
         Item(g, b) # 0, g[Item(g, b)].type = "trust",
         h[TableOf(g)] = With(g, b, y), h[y] = List({Item(g, b), x}, 0),
         \A n \in Rec \ {x, y, TableOf(g)} : h[n] = g[n]
  PROVE  Grown(g, h, b, x, y)
<1> DEFINE t == TableOf(g)
           m == Item(g, b)
<1>1. /\ t \in Rec \ {0, x, y} /\ x \in Rec \ {0, y} /\ g[x] = Missing /\ t \notin Lists(g)
      /\ y \in Rec \ {0} /\ g[y] = Missing
      /\ g[t].type = "htbl" /\ \A n \in Lists(g) : n \notin {x, y} /\ n \in Rec
      /\ g[t].item \in [Bucket -> Rec]
  BY FreshIs
<1>2. h[0] = g[0] BY <1>1, InRec
<1>3. /\ TableOf(h) = t /\ HasTable(h) /\ Item(h, b) = y
      /\ \A c \in Bucket \ {b} : Item(h, c) = Item(g, c)
      /\ h[t].type = "htbl" /\ h[t].item[b] = y
      /\ \A c \in Bucket \ {b} : h[t].item[c] = g[t].item[c]
  BY <1>1, <1>2, TableSet
<1>4. m \in Rec /\ m = g[t].item[b] BY <1>1 DEF Item
<1> HIDE DEF t, m
<1>5. h[y].type = "hlst" /\ h[y].rnum = {m, x} /\ h[y].next = 0 /\ y \in Lists(h)
  BY <1>1 DEF List, Lists, m
<1>6. Older(h, t, g[t]) BY <1>1, <1>3, <1>4, <1>5 DEF Older
<1>7. Past(h, g) BY <1>1, <1>6, PastStep DEF t
<1>8. Lists(h) = Lists(g) \cup {y} /\ \A n \in Lists(g) : h[n] = g[n]
  BY <1>1, <1>3, <1>5 DEF Lists, t, Missing
<1>9. Upward(h) BY <1>5, <1>8 DEF Upward, Sound
<1>10. Follows(h, y) = {} BY <1>5 DEF Follows
<1>11. Chain(h, b) = {y}
  <2>1. Chain(h, b) = Reach(h, y) BY <1>1, <1>3 DEF Chain
  <2> QED BY <1>1, <1>10, <2>1, ReachOnly, ReachClosed
<1>12. Members(h, b) = {m, x}
  BY <1>1, <1>3, <1>4, <1>5, <1>11 DEF Members
<1>13. Chain(g, b) = {m}
  <2>1. Chain(g, b) = Reach(g, m) BY DEF Chain, m
  <2>2. Follows(g, m) = {} BY DEF Follows, Lists, m
  <2> QED BY <1>4, <2>1, <2>2, ReachOnly, ReachClosed
<1>14. Members(g, b) = {m} BY <1>4, <1>13 DEF Members, Lists, m
<1> QED BY <1>3, <1>5, <1>7, <1>9, <1>11, <1>12, <1>13, <1>14 DEF Grown, t

\* The last record of a list
LEMMA LastIs ==
  ASSUME NEW g, Database(g), Sound(g), HasTable(g), NEW b \in Bucket,
         {Item(g, b), LastOf(g, b)} \subseteq Lists(g)
  PROVE  /\ LastOf(g, b) \in Chain(g, b) /\ g[LastOf(g, b)].next = 0
         /\ g[LastOf(g, b)].rnum \subseteq Rec /\ LastOf(g, b) \in Rec
         /\ Item(g, b) \in Rec \ {0} /\ Chain(g, b) = Reach(g, Item(g, b))
<1>1. Item(g, b) \in Rec \ {0} BY DEF Lists, Sound, Rooted
<1>2. Chain(g, b) = Reach(g, Item(g, b)) BY <1>1 DEF Chain
<1>3. LastOf(g, b) \in Reach(g, Item(g, b)) /\ Follows(g, LastOf(g, b)) = {}
  BY <1>1, LastEnds DEF Sound, LastOf
<1> QED BY <1>1, <1>2, <1>3, ListTypes DEF Follows

\* There is room in it,
LEMMA RoomGrown ==
  ASSUME NEW g, Database(g), Sound(g), HasTable(g), NEW h, Database(h),
         NEW b \in Bucket, NEW x, NEW y, Fresh(g, x, y), h[x].type = "trust",
         {Item(g, b), LastOf(g, b)} \subseteq Lists(g),
         h[LastOf(g, b)] = List(g[LastOf(g, b)].rnum \cup {x}, g[LastOf(g, b)].next),
         \A n \in Rec \ {x, LastOf(g, b)} : h[n] = g[n]
  PROVE  Grown(g, h, b, x, y)
<1> DEFINE t == TableOf(g)
           l == LastOf(g, b)
<1>1. /\ t \in Rec \ {0, x, y} /\ x \in Rec \ {0, y} /\ g[x] = Missing /\ t \notin Lists(g)
      /\ g[t].type = "htbl" /\ \A n \in Lists(g) : n \notin {0, x, y} /\ n \in Rec
  BY FreshIs
<1>2. h[0] = g[0] /\ h[t] = g[t] BY <1>1, InRec
<1>3. /\ l \in Chain(g, b) \cap Lists(g) /\ g[l].next = 0 /\ g[l].rnum \subseteq Rec
      /\ l \in Rec \ {x}
      /\ Item(g, b) \in Rec \ {0} /\ Chain(g, b) = Reach(g, Item(g, b))
  BY <1>1, LastIs
<1>4. /\ TableOf(h) = t /\ HasTable(h) /\ \A c \in Bucket : Item(h, c) = Item(g, c)
  BY <1>1, <1>2 DEF TableOf, HasTable, Item
<1> HIDE DEF t, l
<1>5. h[l].type = "hlst" /\ h[l].rnum = g[l].rnum \cup {x} /\ h[l].next = 0
  BY <1>3 DEF List, l
<1>6. Older(h, l, g[l]) BY <1>3, <1>5 DEF Older, Lists
<1>7. Past(h, g) BY <1>1, <1>6, PastStep DEF l
<1>8. Lists(h) = Lists(g) /\ \A n \in Lists(g) : h[n].next = g[n].next
  BY <1>1, <1>3, <1>5 DEF Lists, l, Missing
<1>9. Upward(h) BY <1>8 DEF Upward, Sound
<1>10. \A n \in Rec : Follows(h, n) = Follows(g, n) BY <1>8 DEF Follows
<1>11. Chain(h, b) = Chain(g, b)
  <2>1. Reach(h, Item(g, b)) = Reach(g, Item(g, b))
    BY <1>3, <1>10, ReachSame, ReachClosed
  <2> QED BY <1>3, <1>4, <2>1 DEF Chain
<1>12. Members(h, b) = Members(g, b) \cup {x}
  <2>1. Item(g, b) \in Lists(h) /\ Item(g, b) \in Lists(g) BY <1>8
  <2>2. Members(h, b) = {n \in Rec : \E m \in Chain(g, b) \cap Lists(g) : n \in h[m].rnum}
    BY <1>4, <1>8, <1>11, <2>1 DEF Members, Lists
  <2>3. Members(g, b) = {n \in Rec : \E m \in Chain(g, b) \cap Lists(g) : n \in g[m].rnum}
    BY <2>1 DEF Members, Lists
  <2>4. \A m \in Lists(g) : h[m].rnum = IF m = l THEN g[m].rnum \cup {x} ELSE g[m].rnum
    BY <1>1, <1>5 DEF l
  <2> QED BY <1>1, <1>3, <2>2, <2>3, <2>4
<1>13. \A n \in Rec : h[n] = g[n] \/ n \in {x, l} BY DEF l
<1>14. ASSUME NEW n \in Chain(h, b), h[n].type # "hlst"
       PROVE  n \in Chain(g, b) /\ h[n] = g[n] /\ g[n].type # "trust"
  <2>1. x \notin Chain(g, b) BY DEF Fresh, Linked
  <2>2. Chain(g, b) \subseteq Rec BY ChainIs
  <2>3. n \in Chain(g, b) /\ h[n] = g[n] BY <1>5, <1>11, <1>13, <1>14, <2>1, <2>2
  <2> QED BY <2>3, LastIs DEF Sound, SoundIn, Lists
<1> QED BY <1>3, <1>4, <1>7, <1>9, <1>11, <1>12, <1>13, <1>14 DEF Grown, t

\* or there is not, and a new one follows it.
LEMMA FullGrown ==
  ASSUME NEW g, Database(g), Sound(g), HasTable(g), NEW h, Database(h),
         NEW b \in Bucket, NEW x, NEW y, Fresh(g, x, y), h[x].type = "trust",
         {Item(g, b), LastOf(g, b)} \subseteq Lists(g),
         h[LastOf(g, b)] = List(g[LastOf(g, b)].rnum, y), h[y] = List({x}, 0),
         \A n \in Rec \ {x, y, LastOf(g, b)} : h[n] = g[n]
  PROVE  Grown(g, h, b, x, y)
<1> DEFINE t == TableOf(g)
           l == LastOf(g, b)
           i == Item(g, b)
<1>1. /\ t \in Rec \ {0, x, y} /\ x \in Rec \ {0, y} /\ g[x] = Missing /\ t \notin Lists(g)
      /\ y \in Rec \ {0} /\ g[y] = Missing
      /\ g[t].type = "htbl" /\ \A n \in Lists(g) : n \in Rec \ {0, x, y} /\ n < y
  BY FreshIs
<1>2. h[0] = g[0] /\ h[t] = g[t] BY <1>1, InRec
<1>3. /\ l \in Chain(g, b) \cap Lists(g) /\ g[l].next = 0 /\ l \in Rec \ {x, y}
      /\ i \in Rec \ {0} /\ Chain(g, b) = Reach(g, i) /\ i \in Lists(g)
  BY <1>1, LastIs
<1>4. /\ TableOf(h) = t /\ HasTable(h) /\ \A c \in Bucket : Item(h, c) = Item(g, c)
  BY <1>1, <1>2 DEF TableOf, HasTable, Item
<1>5. /\ h[l].type = "hlst" /\ h[l].rnum = g[l].rnum /\ h[l].next = y
      /\ h[y].type = "hlst" /\ h[y].rnum = {x} /\ h[y].next = 0
      /\ \A n \in Rec \ {x, y, l} : h[n] = g[n]
  BY DEF List
<1> HIDE DEF t, l, i
<1>6. Older(h, l, g[l]) BY <1>3, <1>5 DEF Older, Lists
<1>7. Past(h, g) BY <1>1, <1>5, <1>6, PastStep
<1>8. Lists(h) = Lists(g) \cup {y} /\ \A n \in Lists(g) : h[n].rnum = g[n].rnum
  BY <1>1, <1>3, <1>5 DEF Lists, Missing
<1>9. \A n \in Lists(g) \ {l} : h[n].next = g[n].next BY <1>1, <1>5
<1>10. Upward(h)
  <2>1. \A n \in Lists(g) : h[n].next = 0 \/ n < h[n].next
    BY <1>1, <1>3, <1>5, <1>9 DEF Upward, Sound
  <2> QED BY <1>5, <1>8, <2>1 DEF Upward
<1>11. Follows(h, y) = {} /\ Follows(g, l) = {} BY <1>3, <1>5 DEF Follows
<1>12. \A n \in Rec \ {l, y} : Follows(h, n) = Follows(g, n) BY <1>8, <1>9 DEF Follows
<1>13. Follows(h, l) = {y} BY <1>1, <1>3, <1>5, <1>8 DEF Follows
<1>14. Follows(g, y) = {} BY <1>1 DEF Follows
<1>15. Chain(h, b) = Chain(g, b) \cup {y}
  <2>1. Chain(h, b) = Reach(h, i) BY <1>3, <1>4 DEF Chain, i
  <2>2. \A n \in Rec : Follows(g, n) \subseteq Follows(h, n) BY <1>11, <1>12, <1>14
  <2>3. Chain(g, b) \subseteq Chain(h, b) BY <1>3, <2>1, <2>2, ReachMore
  <2>4. y \in Chain(h, b) BY <1>3, <1>13, <2>3, ChainIs DEF Closed
  <2> DEFINE S == Chain(g, b) \cup {y}
  <2>5. S \subseteq Rec /\ i \in S BY <1>1, <1>3, ReachClosed
  <2>6. Closed(g, Chain(g, b)) BY ChainIs
  <2>7. Closed(h, S)
    <3> SUFFICES ASSUME NEW n \in S PROVE Follows(h, n) \subseteq S BY DEF Closed
    <3> QED BY <1>11, <1>12, <1>13, <2>5, <2>6 DEF Closed
  <2> HIDE DEF S
  <2>8. Reach(h, i) \subseteq S BY <2>5, <2>7, ReachLeast
  <2> QED BY <2>1, <2>3, <2>4, <2>8 DEF S
<1>16. y \notin Chain(g, b) /\ x \notin Chain(g, b) BY DEF Fresh, Linked
<1>17. Members(h, b) = Members(g, b) \cup {x}
  <2>1. Members(h, b) = {n \in Rec : \E m \in Chain(h, b) \cap Lists(h) : n \in h[m].rnum}
    BY <1>3, <1>4, <1>8 DEF Members, Lists, i
  <2>2. Members(g, b) = {n \in Rec : \E m \in Chain(g, b) \cap Lists(g) : n \in g[m].rnum}
    BY <1>3 DEF Members, Lists, i
  <2>3. Chain(h, b) \cap Lists(h) = (Chain(g, b) \cap Lists(g)) \cup {y}
    BY <1>8, <1>15, <1>16
  <2>4. \A m \in Chain(g, b) \cap Lists(g) : h[m].rnum = g[m].rnum BY <1>8
  <2>5. x \in Rec BY <1>1
  <2>6. \A n : (\E m \in Chain(h, b) \cap Lists(h) : n \in h[m].rnum)
                <=> n = x \/ \E m \in Chain(g, b) \cap Lists(g) : n \in g[m].rnum
    BY <1>5, <2>3, <2>4
  <2> QED BY <2>1, <2>2, <2>5, <2>6
<1>18. ASSUME NEW n \in Chain(h, b), h[n].type # "hlst"
       PROVE  n \in Chain(g, b) /\ h[n] = g[n] /\ g[n].type # "trust"
  <2>1. Chain(g, b) \subseteq Rec BY ChainIs
  <2>2. n \in Chain(g, b) /\ h[n] = g[n] BY <1>5, <1>15, <1>16, <1>18, <2>1
  <2> QED BY <1>3, <2>2 DEF Sound, SoundIn, Lists, i
<1>19. \A n \in Rec : h[n] = g[n] \/ n \in {x, y, l} BY <1>5
<1> QED BY <1>3, <1>4, <1>7, <1>10, <1>15, <1>17, <1>18, <1>19 DEF Grown, t

-----------------------------------------------------------------------------
\* Bucket b has got the new record, and the others are as they were.
LEMMA GrownLinked ==
  ASSUME NEW g, Database(g), Sound(g), HasTable(g), NEW h, Database(h),
         NEW b \in Bucket, NEW x, NEW y, Fresh(g, x, y), Grown(g, h, b, x, y)
  PROVE  /\ h[0] = g[0] /\ TableOf(g) # 0
         /\ \A c \in Bucket \ {b} :
              /\ Chain(h, c) = Chain(g, c) /\ Members(h, c) = Members(g, c)
              /\ Linked(h, c) = Linked(g, c)
              /\ \A n \in Linked(g, c) : h[n] = g[n]
         /\ \A n \in Members(g, b) : h[n] = g[n]
         /\ Linked(h, b) \subseteq Linked(g, b) \cup {x, y}
<1>1. /\ TableOf(g) \in Rec \ {0, x, y} /\ g[TableOf(g)].type = "htbl"
      /\ x # 0 /\ y # 0 /\ 0 \notin Lists(g) /\ 0 \in Rec
  BY FreshIs, InRec
<1>2. \A n \in Rec : \/ h[n] = g[n]
                     \/ n \in {x, y, TableOf(g)}
                     \/ n \in Chain(g, b) \cap Lists(g)
  BY DEF Grown
<1>3. h[0] = g[0] BY <1>1, <1>2
<1>4. \A c \in Bucket : \A n \in Linked(g, c) :
        n \in Rec /\ n \notin {x, y, TableOf(g)}
  <2> SUFFICES ASSUME NEW c \in Bucket, NEW n \in Linked(g, c)
               PROVE  n \in Rec /\ n \notin {x, y, TableOf(g)}
    OBVIOUS
  <2>1. n \in Rec BY ChainIs DEF Linked
  <2>2. g[n].type # "htbl" BY DEF Linked, Sound, SoundIn
  <2> QED BY <1>1, <2>1, <2>2 DEF Fresh
<1>5. ASSUME NEW c \in Bucket \ {b}
      PROVE  /\ Chain(h, c) = Chain(g, c) /\ Members(h, c) = Members(g, c)
             /\ \A n \in Linked(g, c) : h[n] = g[n]
  <2>1. ASSUME NEW n \in Linked(g, c) PROVE h[n] = g[n]
    <3>1. n \notin Chain(g, b) BY <1>5, <2>1 DEF Sound, Disjoint, Linked
    <3> QED BY <1>2, <1>4, <2>1, <3>1
  <2>2. HasTable(h) /\ Item(h, c) = Item(g, c) BY DEF Grown
  <2>3. Item(g, c) \in Rec BY TableTypes DEF Item
  <2>4. Chain(g, c) \subseteq Rec BY ChainIs
  <2>5. \A n \in Chain(g, c) : Follows(h, n) = Follows(g, n)
    BY <2>1, <2>4 DEF Follows, Lists, Linked
  <2>6. Chain(h, c) = Chain(g, c) BY <2>2, <2>3, <2>5, ReachSame DEF Chain
  <2>7. Members(h, c) = Members(g, c)
    BY <2>1, <2>2, <2>4, <2>6 DEF Members, Lists, Linked
  <2> QED BY <2>1, <2>6, <2>7
<1>6. ASSUME NEW n \in Members(g, b) PROVE h[n] = g[n]
  <2>1. n \in Linked(g, b) /\ n \notin Lists(g)
    BY <1>6 DEF Linked, Sound, SoundIn, Lists
  <2> QED BY <1>2, <1>4, <2>1
<1>7. Linked(h, b) \subseteq Linked(g, b) \cup {x, y} BY DEF Grown, Linked
<1> QED BY <1>1, <1>3, <1>5, <1>6, <1>7 DEF Linked

\* The goal with the new record is sound: the key had no record before.
LEMMA GrownSound ==
  ASSUME NEW g, Database(g), Sound(g), HasTable(g), NEW h, Database(h),
         NEW k \in Key, NEW x, NEW y, Fresh(g, x, y),
         Grown(g, h, BucketOf[k], x, y), Holds(h, x, k), ~ Has(g, k)
  PROVE  Sound(h)
<1> DEFINE b == BucketOf[k]
<1>1. b \in Bucket BY TrustAssumption
<1>2. h[x].type = "trust" /\ h[x].key = k BY DEF Holds
<1>3. /\ h[0] = g[0]
      /\ \A c \in Bucket \ {b} :
           /\ Chain(h, c) = Chain(g, c) /\ Members(h, c) = Members(g, c)
           /\ Linked(h, c) = Linked(g, c)
           /\ \A n \in Linked(g, c) : h[n] = g[n]
      /\ \A n \in Members(g, b) : h[n] = g[n]
      /\ Linked(h, b) \subseteq Linked(g, b) \cup {x, y}
  BY <1>1, GrownLinked
<1>4. \A n \in Members(g, b) : ~ (h[n].type = "trust" /\ h[n].key = k)
  BY <1>3 DEF Has, Holds
<1> HIDE DEF b
<1>5. /\ Chain(h, b) \subseteq Chain(g, b) \cup {x, y} /\ Members(h, b) = Members(g, b) \cup {x}
      /\ \A n \in Chain(h, b) : \/ h[n].type = "hlst"
                                \/ n \in Chain(g, b) /\ h[n] = g[n] /\ g[n].type # "trust"
                                \/ n = Item(h, b) /\ h[n].type = "trust"
      /\ TableOf(h) = TableOf(g) /\ HasTable(h) /\ Upward(h)
      /\ \A c \in Bucket \ {b} : Item(h, c) = Item(g, c)
  BY DEF Grown, b
<1>6. Rooted(h) BY <1>3, <1>5 DEF Rooted, HasTable, Sound
<1>7. Disjoint(h)
  <2> SUFFICES ASSUME NEW c \in Bucket, NEW d \in Bucket, c # d
               PROVE  Linked(h, c) \cap Linked(h, d) = {}
    BY DEF Disjoint
  <2>1. Linked(g, c) \cap Linked(g, d) = {} BY DEF Sound, Disjoint
  <2>2. x \notin Linked(g, c) \cup Linked(g, d) /\ y \notin Linked(g, c) \cup Linked(g, d)
    BY DEF Fresh
  <2>3. CASE c # b /\ d # b BY <1>3, <2>1, <2>3
  <2>4. CASE c = b BY <1>3, <2>1, <2>2, <2>4
  <2>5. CASE d = b BY <1>3, <2>1, <2>2, <2>5
  <2> QED BY <2>3, <2>4, <2>5
<1>8. ASSUME NEW c \in Bucket \ {b} PROVE SoundIn(h, c)
  <2>1. SoundIn(g, c) BY DEF Sound
  <2>2. \A n \in Chain(g, c) \cup Members(g, c) : h[n] = g[n] BY <1>3 DEF Linked
  <2>3. Chain(h, c) = Chain(g, c) /\ Members(h, c) = Members(g, c) /\ Item(h, c) = Item(g, c)
    BY <1>3, <1>5
  <2> QED BY <2>1, <2>2, <2>3 DEF SoundIn
<1>9. SoundIn(h, b)
  <2>1. SoundIn(g, b) BY <1>1 DEF Sound
  <2>2. ASSUME NEW n \in Chain(h, b)
        PROVE  h[n].type \in {"hlst", "unused"} \/ (n = Item(h, b) /\ h[n].type = "trust")
    BY <1>5, <2>1, <2>2 DEF SoundIn
  <2>3. ASSUME NEW n \in Members(h, b)
        PROVE  h[n].type \in {"trust", "unused"} /\ (h[n].type = "trust" => BucketOf[h[n].key] = b)
    <3>1. CASE n = x BY <1>2, <3>1 DEF b
    <3>2. CASE n \in Members(g, b) BY <1>3, <2>1, <3>2 DEF SoundIn
    <3> QED BY <1>5, <3>1, <3>2
  <2>4. ASSUME NEW m \in Members(h, b), NEW n \in Members(h, b),
               h[m].type = "trust", h[n].type = "trust", h[m].key = h[n].key
        PROVE  m = n
    <3>1. CASE m = x \/ n = x BY <1>2, <1>4, <1>5, <2>4, <3>1
    <3>2. CASE m \in Members(g, b) /\ n \in Members(g, b)
      BY <1>3, <2>1, <2>4, <3>2 DEF SoundIn
    <3> QED BY <1>5, <3>1, <3>2
  <2> QED BY <2>2, <2>3, <2>4 DEF SoundIn
<1> QED BY <1>5, <1>6, <1>7, <1>8, <1>9 DEF Sound

\* What was whole still is, and the trusts are found.
LEMMA GrownSettled ==
  ASSUME NEW g, Database(g), Sound(g), HasTable(g), NEW h, Database(h),
         NEW k \in Key, NEW x, NEW y, Fresh(g, x, y),
         Grown(g, h, BucketOf[k], x, y), Holds(h, x, k), ~ Has(g, k),
         NEW m, NEW n, NEW d,
         Valued(g, Only(m)), Settled(g, Only(m), d),
         n[k] = h[x].ownertrust, \A j \in Key \ {k} : n[j] = m[j]
  PROVE  Valued(h, Only(n)) /\ Settled(h, Only(n), d)
<1> DEFINE b == BucketOf[k]
<1>1. b \in Bucket BY TrustAssumption
<1>2. h[x].type = "trust" /\ h[x].key = k BY DEF Holds
<1>3. /\ \A c \in Bucket \ {b} :
           /\ Members(h, c) = Members(g, c) /\ Linked(h, c) = Linked(g, c)
           /\ \A e \in Linked(g, c) : h[e] = g[e]
      /\ \A e \in Members(g, b) : h[e] = g[e]
  BY <1>1, GrownLinked
<1>4. \A e \in Members(g, b) : ~ Holds(g, e, k) BY DEF Has
<1> HIDE DEF b
<1>5. /\ Members(h, b) = Members(g, b) \cup {x} /\ HasTable(h) /\ TableOf(h) = TableOf(g)
      /\ \A e \in Chain(h, b) : \/ h[e].type = "hlst"
                                \/ e \in Chain(g, b) /\ h[e] = g[e] /\ g[e].type # "trust"
                                \/ e = Item(h, b) /\ h[e].type = "trust"
  BY DEF Grown, b
<1>6. \A c \in Bucket : \A e \in Members(h, c) :
        (c = b /\ e = x) \/ (e \in Members(g, c) /\ h[e] = g[e])
  BY <1>3, <1>5 DEF Linked
<1>7. Valued(h, Only(n))
  <2> SUFFICES ASSUME NEW c \in Bucket, NEW e \in Members(h, c), h[e].type = "trust"
               PROVE  h[e].ownertrust \in Only(n)[h[e].key]
    BY DEF Valued
  <2>1. CASE e = x BY <1>2, <2>1 DEF Only
  <2>2. CASE e # x
    <3>1. e \in Members(g, c) /\ h[e] = g[e] /\ e \in Rec BY <1>6, <2>2, ChainIs
    <3>2. g[e].key \in Key BY <3>1, TrustFields DEF Database
    <3>3. BucketOf[g[e].key] = c BY <3>1 DEF Sound, SoundIn
    <3>4. g[e].key # k BY <1>4, <3>1, <3>3 DEF Holds, b
    <3>5. g[e].ownertrust \in Only(m)[g[e].key] BY <3>1 DEF Valued
    <3> QED BY <3>1, <3>2, <3>4, <3>5 DEF Only
  <2> QED BY <2>1, <2>2
<1>8. ASSUME NEW c \in Bucket, Whole(g, c) PROVE Whole(h, c)
  <2>1. CASE c # b BY <1>3, <1>5, <1>8, <2>1 DEF Whole
  <2>2. CASE c = b
    <3>1. \A e \in Members(h, b) : h[e].type # "unused"
      BY <1>2, <1>6, <1>8, <2>2 DEF Whole, Linked
    <3>2. \A e \in Chain(h, b) : h[e].type # "unused"
      BY <1>5, <1>8, <2>2 DEF Whole, Linked
    <3> QED BY <1>5, <2>2, <3>1, <3>2 DEF Whole, Linked
  <2> QED BY <2>1, <2>2
<1>9. ASSUME NEW j \in Key, Has(g, j) \/ j = k PROVE Has(h, j)
  <2>1. CASE j = k BY <1>5, <2>1 DEF Has, b
  <2>2. CASE Has(g, j)
    <3>1. PICK e \in Members(g, BucketOf[j]) : Holds(g, e, j) BY <2>2 DEF Has
    <3>2. BucketOf[j] \in Bucket BY TrustAssumption
    <3>3. e \in Members(h, BucketOf[j]) /\ h[e] = g[e] BY <1>3, <1>5, <3>1, <3>2 DEF Linked
    <3> QED BY <3>1, <3>3 DEF Has, Holds
  <2> QED BY <1>9, <2>1, <2>2
<1>10. \A j \in Key \ {k} : Only(n)[j] = Only(m)[j] BY DEF Only
<1> QED BY <1>7, <1>8, <1>9, <1>10 DEF Settled

\* Records from before still fit, but for the new one and its bucket.
LEMMA GrownFits ==
  ASSUME NEW g, Database(g), Sound(g), HasTable(g), NEW h, Database(h),
         NEW b \in Bucket, NEW x, NEW y, Fresh(g, x, y), Grown(g, h, b, x, y),
         NEW a, NEW c, \A j \in Key : a[j] \subseteq c[j],
         NEW t, NEW n \in Rec, NEW r \in Record \cup {Missing}, Older(h, n, r),
         Fits(g, a, t, n, r) \/ (n \in {x, y} /\ r = Unused), n = x => r.type # "trust"
  PROVE  Fits(h, c, t \cup {b}, n, r)
<1>1. /\ h[0] = g[0] /\ TableOf(g) # 0 /\ TableOf(h) = TableOf(g)
      /\ \A e \in Bucket \ {b} :
           /\ Members(h, e) = Members(g, e) /\ Linked(h, e) = Linked(g, e)
           /\ \A m \in Linked(g, e) : h[m] = g[m]
           /\ Item(h, e) = Item(g, e)
      /\ Members(h, b) = Members(g, b) \cup {x}
      /\ HasTable(h)
  BY GrownLinked DEF Grown
<1>2. ASSUME NEW e \in Bucket \ (t \cup {b}), n \in Anchor(h, e) PROVE Same(h, e, n, r)
  <2>1. n \in Anchor(g, e) BY <1>1, <1>2 DEF Anchor
  <2>2. n \notin {x, y} BY <2>1, FreshIs DEF Anchor, Fresh
  <2>3. Same(g, e, n, r) BY <2>1, <2>2 DEF Fits
  <2>4. CASE n = TableOf(g)
    <3>1. r.type = "htbl" /\ r.item[e] = g[n].item[e]
      BY <1>1, <2>3, <2>4 DEF Same, HasTable
    <3>2. h[n].type = "htbl" /\ h[n].item[e] = g[n].item[e]
      BY <1>1, <2>4 DEF HasTable, Item
    <3> QED BY <3>1, <3>2 DEF Same
  <2>5. CASE n # TableOf(g)
    <3>1. h[n] = g[n] BY <1>1, <2>1, <2>5 DEF Anchor
    <3> QED BY <1>1, <2>3, <3>1 DEF Same
  <2> QED BY <2>4, <2>5
<1>3. ASSUME NEW e \in Bucket, n \in Members(h, e), r.type = "trust"
      PROVE  r.ownertrust \in c[r.key]
  <2>1. n \in Members(g, e) BY <1>1, <1>3
  <2>2. r.key \in Key BY <1>3, TrustFields
  <2> QED BY <1>3, <2>1, <2>2 DEF Fits, Unused
<1> QED BY <1>2, <1>3 DEF Fits

-----------------------------------------------------------------------------
\* The records of an insertion, two or three of them, as a list of what to write
LEMMA Joined ==
  ASSUME NEW p, NEW q, NEW r
  PROVE  <<p>> \o <<q>> = <<p, q>> /\ <<p>> \o <<q, r>> = <<p, q, r>>
<1>1. <<p>> \o <<q>> = <<p, q>>
  <2> DEFINE s == <<p>> \o <<q>>
             u == <<p, q>>
  <2>1. s \in Seq({p, q}) /\ Len(s) = 2 /\ s[1] = p /\ s[2] = q OBVIOUS
  <2>2. u \in Seq({p, q}) /\ Len(u) = 2 /\ u[1] = p /\ u[2] = q OBVIOUS
  <2> HIDE DEF s, u
  <2>3. \A i \in 1 .. 2 : i = 1 \/ i = 2 OBVIOUS
  <2>4. \A i \in 1 .. 2 : s[i] = u[i] BY <2>1, <2>2, <2>3
  <2>5. s = [i \in 1 .. 2 |-> s[i]] /\ u = [i \in 1 .. 2 |-> u[i]] BY <2>1, <2>2
  <2>6. s = u BY <2>4, <2>5
  <2> QED BY <2>6 DEF s, u
<1>2. <<p>> \o <<q, r>> = <<p, q, r>>
  <2> DEFINE s == <<p>> \o <<q, r>>
             u == <<p, q, r>>
  <2>1. s \in Seq({p, q, r}) /\ Len(s) = 3 /\ s[1] = p /\ s[2] = q /\ s[3] = r OBVIOUS
  <2>2. u \in Seq({p, q, r}) /\ Len(u) = 3 /\ u[1] = p /\ u[2] = q /\ u[3] = r OBVIOUS
  <2> HIDE DEF s, u
  <2>3. \A i \in 1 .. 3 : i = 1 \/ i = 2 \/ i = 3 OBVIOUS
  <2>4. \A i \in 1 .. 3 : s[i] = u[i] BY <2>1, <2>2, <2>3
  <2>5. s = [i \in 1 .. 3 |-> s[i]] /\ u = [i \in 1 .. 3 |-> u[i]] BY <2>1, <2>2
  <2>6. s = u BY <2>4, <2>5
  <2> QED BY <2>6 DEF s, u
<1> QED BY <1>1, <1>2

LEMMA TwoEntries ==
  ASSUME NEW f, NEW c, NEW t, NEW n1, NEW r1, NEW n2, NEW r2,
         t = <<<<n1, r1>>, <<n2, r2>>>>, n1 # n2, {n1, n2} \subseteq Rec
  PROVE  Distinct(t) /\ GoalOf(f, c, t)[n1] = r1 /\ GoalOf(f, c, t)[n2] = r2
<1>1. DOMAIN t = {1, 2} /\ t[1] = <<n1, r1>> /\ t[2] = <<n2, r2>> OBVIOUS
<1>2. Distinct(t) BY <1>1 DEF Distinct
<1>3. n1 \in Rec /\ n2 \in Rec OBVIOUS
<1> QED BY <1>1, <1>2, <1>3, GoalIs

LEMMA ThreeEntries ==
  ASSUME NEW f, NEW c, NEW t, NEW n1, NEW r1, NEW n2, NEW r2, NEW n3, NEW r3,
         t = <<<<n1, r1>>, <<n2, r2>>, <<n3, r3>>>>,
         n1 # n2, n1 # n3, n2 # n3, {n1, n2, n3} \subseteq Rec
  PROVE  /\ Distinct(t)
         /\ GoalOf(f, c, t)[n1] = r1 /\ GoalOf(f, c, t)[n2] = r2 /\ GoalOf(f, c, t)[n3] = r3
<1>1. DOMAIN t = {1, 2, 3} /\ t[1] = <<n1, r1>> /\ t[2] = <<n2, r2>> /\ t[3] = <<n3, r3>>
  OBVIOUS
<1>2. Distinct(t) BY <1>1 DEF Distinct
<1>3. n1 \in Rec /\ n2 \in Rec /\ n3 \in Rec OBVIOUS
<1> QED BY <1>1, <1>2, <1>3, GoalIs

\* What tdbio_new_recnum has appended
LEMMA AppendedIs ==
  ASSUME IInv, DbInv, NEW k \in Key, NEW v \in Trust, Insert(k, v)
  PROVE  LET x == Size
             y == Size + 1
             used == \E i \in DOMAIN todo' : todo'[i][1] = y
         IN /\ Fresh(Goal, x, y) /\ IInv'
            /\ todo' = <<<<x, TrustRec(k, v)>>>> \o Insertion(k)
            /\ \A n \in Rec : file'[n] = IF n = x \/ (n = y /\ used) THEN Unused ELSE file[n]
            /\ file[x] = Missing /\ file[y] = Missing
            /\ Distinct(todo') =>
                 \A n \in Rec : (\A i \in DOMAIN todo' : todo'[i][1] # n) => Goal'[n] = Goal[n]
<1> DEFINE x == Size
           y == Size + 1
           used == \E i \in DOMAIN todo' : todo'[i][1] = y
<1>1. /\ pc = "run" /\ Size < MaxRec /\ UNCHANGED cache
      /\ todo' = <<<<x, TrustRec(k, v)>>>> \o Insertion(k)
      /\ file' = Appended({x} \cup {n \in {y} : \E i \in DOMAIN todo' : todo'[i][1] = n})
  BY DEF Insert, Searches, memory
<1>2. IInv' BY InsertInv
<1>3. /\ Goal = View /\ Goal[0].type = "ver" /\ Database(Goal) /\ Past(Goal, file)
      /\ \A n \in Rec : Goal[n] # Missing => n < Size
  BY <1>1, <1>2, NewGoal
<1>4. Size \in Nat /\ x \in Rec /\ y \in Rec /\ x < y /\ x # 0 /\ y # 0
  <2>1. Goal[0] # Missing BY <1>3 DEF Missing
  <2>2. 0 < Size BY <1>3, <2>1, InRec
  <2> QED BY <1>1, <2>2, InRec DEF IInv
<1>5. file[x] = Missing /\ file[y] = Missing BY <1>4, InRec DEF IInv, Filled
<1>6. Fresh(Goal, x, y) BY <1>3, <1>4, <1>5 DEF Fresh, DbInv, DataInv, Written
<1>7. \A n \in Rec : file'[n] = IF n = x \/ (n = y /\ used) THEN Unused ELSE file[n]
  BY <1>1 DEF Appended
<1>8. 1 \in DOMAIN todo' /\ todo'[1] = <<x, TrustRec(k, v)>>
  <2> DEFINE I == Insertion(k)
             e == <<x, TrustRec(k, v)>>
  <2>1. I \in Seq((Present(View) \cup {y}) \X Record)
    BY <1>4, TrustAssumption, ViewTypes, InsertsType DEF Insertion
  <2>2. todo' = <<e>> \o I BY <1>1
  <2> HIDE DEF I, e
  <2>3. 1 \in DOMAIN (<<e>> \o I) /\ (<<e>> \o I)[1] = e BY <2>1
  <2> QED BY <2>2, <2>3 DEF e
<1> HIDE DEF x, y, used
<1>9. ASSUME Distinct(todo'), NEW n \in Rec, \A i \in DOMAIN todo' : todo'[i][1] # n
      PROVE  Goal'[n] = Goal[n]
  <2>1. n # x /\ (n = y => ~ used) BY <1>8, <1>9 DEF used
  <2>2. file'[n] = file[n] BY <1>7, <2>1
  <2>3. Goal'[n] = IF cache'[n] # Missing THEN cache'[n] ELSE file'[n] BY <1>9, GoalIs DEF Goal
  <2> QED BY <1>1, <1>3, <2>2, <2>3 DEF View
<1> QED BY <1>1, <1>2, <1>5, <1>6, <1>7, <1>9 DEF x, y, used

\* The four ways of upd_hashtable
LEMMA InsertGrown ==
  ASSUME IInv, DbInv, NEW k \in Key, NEW v \in Trust, Insert(k, v)
  PROVE  /\ Distinct(todo') /\ Goal'[Size] = TrustRec(k, v)
         /\ Grown(Goal, Goal', BucketOf[k], Size, Size + 1) /\ HasTable(Goal)
<1> DEFINE g == Goal
           h == Goal'
           b == BucketOf[k]
           x == Size
           y == Size + 1
           t == TableOf(g)
           l == LastOf(g, b)
           T == TrustRec(k, v)
           I == Inserts(g, b, x, y)
<1>1. pc = "run" /\ UNCHANGED cache /\ Insertion(k) # <<>> BY DEF Insert, Searches, memory
<1>2. /\ Fresh(g, x, y) /\ IInv' /\ todo' = <<<<x, T>>>> \o Insertion(k)
      /\ Distinct(todo') =>
           \A n \in Rec : (\A i \in DOMAIN todo' : todo'[i][1] # n) => h[n] = g[n]
  BY AppendedIs
<1>3. g = View /\ Database(g) /\ Database(h) /\ Sound(g)
  BY <1>1, <1>2, NewGoal DEF DbInv, DataInv
<1>4. Insertion(k) = I BY <1>3 DEF Insertion
<1>5. b \in Bucket BY TrustAssumption
<1>6. HasTable(g) BY <1>1, <1>4 DEF Inserts
<1>7. /\ t \in Rec \ {0, x, y} /\ x \in Rec /\ y \in Rec /\ x # y
      /\ \A n \in Lists(g) : n \in Rec \ {x, y}
  BY <1>2, <1>3, <1>6, FreshIs
<1>8. T.type = "trust" BY DEF TrustRec
<1>9. h = GoalOf(file', cache', todo') BY DEF Goal
<1> HIDE DEF g, h, b, x, y, T, I
<1>10. CASE Item(g, b) = 0
  <2>1. I = <<<<t, With(g, b, x)>>>> BY <1>6, <1>10 DEF Inserts, I, SetItem, With
  <2>2. todo' = <<<<x, T>>, <<t, With(g, b, x)>>>> BY <1>2, <1>4, <2>1, Joined
  <2>3. Distinct(todo') /\ h[x] = T /\ h[t] = With(g, b, x)
    BY <1>7, <1>9, <2>2, TwoEntries
  <2>4. ASSUME NEW n \in Rec \ {x, t} PROVE h[n] = g[n]
    <3>1. \A i \in DOMAIN todo' : todo'[i][1] # n BY <2>2, <2>4
    <3> QED BY <1>2, <2>3, <3>1
  <2>5. Grown(g, h, b, x, y)
    BY <1>2, <1>3, <1>5, <1>6, <1>8, <1>10, <2>3, <2>4, FirstGrown
  <2> QED BY <1>6, <2>3, <2>5 DEF g, h, b, x, y, T
<1>11. CASE Item(g, b) # 0 /\ g[Item(g, b)].type = "trust"
  <2> DEFINE L == List({Item(g, b), x}, 0)
  <2>1. I = <<<<y, L>>, <<t, With(g, b, y)>>>> BY <1>6, <1>11 DEF Inserts, I, SetItem, With
  <2> HIDE DEF L
  <2>2. todo' = <<<<x, T>>, <<y, L>>, <<t, With(g, b, y)>>>>
    <3> DEFINE p == <<x, T>>
               q == <<y, L>>
               r == <<t, With(g, b, y)>>
    <3>1. todo' = <<p>> \o <<q, r>> BY <1>2, <1>4, <2>1
    <3> HIDE DEF p, q, r
    <3>2. todo' = <<p, q, r>> BY <3>1, Joined
    <3> QED BY <3>2 DEF p, q, r
  <2>3. Distinct(todo') /\ h[x] = T /\ h[y] = L /\ h[t] = With(g, b, y)
    BY <1>7, <1>9, <2>2, ThreeEntries
  <2>4. ASSUME NEW n \in Rec \ {x, y, t} PROVE h[n] = g[n]
    <3>1. \A i \in DOMAIN todo' : todo'[i][1] # n BY <2>2, <2>4
    <3> QED BY <1>2, <2>3, <3>1
  <2>5. Grown(g, h, b, x, y)
    BY <1>2, <1>3, <1>5, <1>6, <1>8, <1>11, <2>3, <2>4, SecondGrown DEF L
  <2> QED BY <1>6, <2>3, <2>5 DEF g, h, b, x, y, T
<1>12. CASE /\ Item(g, b) # 0 /\ g[Item(g, b)].type # "trust"
            /\ {Item(g, b), l} \subseteq Lists(g) /\ Cardinality(g[l].rnum) < Slots
  <2> DEFINE L == List(g[l].rnum \cup {x}, g[l].next)
  <2>1. I = <<<<l, L>>>> BY <1>6, <1>12 DEF Inserts, I, LastOf
  <2> HIDE DEF L, l
  <2>2. todo' = <<<<x, T>>, <<l, L>>>> BY <1>2, <1>4, <2>1, Joined
  <2>3. Distinct(todo') /\ h[x] = T /\ h[l] = L
    BY <1>7, <1>9, <1>12, <2>2, TwoEntries
  <2>4. ASSUME NEW n \in Rec \ {x, l} PROVE h[n] = g[n]
    <3>1. \A i \in DOMAIN todo' : todo'[i][1] # n BY <2>2, <2>4
    <3> QED BY <1>2, <2>3, <3>1
  <2>5. Grown(g, h, b, x, y)
    BY <1>2, <1>3, <1>5, <1>6, <1>8, <1>12, <2>3, <2>4, RoomGrown DEF L, l
  <2> QED BY <1>6, <2>3, <2>5 DEF g, h, b, x, y, T
<1>13. CASE /\ Item(g, b) # 0 /\ g[Item(g, b)].type # "trust"
            /\ {Item(g, b), l} \subseteq Lists(g) /\ ~ (Cardinality(g[l].rnum) < Slots)
  <2> DEFINE L == List(g[l].rnum, y)
             N == List({x}, 0)
  <2>1. I = <<<<l, L>>, <<y, N>>>> BY <1>6, <1>13 DEF Inserts, I, LastOf
  <2> HIDE DEF L, N, l
  <2>2. todo' = <<<<x, T>>, <<l, L>>, <<y, N>>>>
    <3> DEFINE p == <<x, T>>
               q == <<l, L>>
               r == <<y, N>>
    <3>1. todo' = <<p>> \o <<q, r>> BY <1>2, <1>4, <2>1
    <3> HIDE DEF p, q, r
    <3>2. todo' = <<p, q, r>> BY <3>1, Joined
    <3> QED BY <3>2 DEF p, q, r
  <2>3. Distinct(todo') /\ h[x] = T /\ h[l] = L /\ h[y] = N
    BY <1>7, <1>9, <1>13, <2>2, ThreeEntries
  <2>4. ASSUME NEW n \in Rec \ {x, y, l} PROVE h[n] = g[n]
    <3>1. \A i \in DOMAIN todo' : todo'[i][1] # n BY <2>2, <2>4
    <3> QED BY <1>2, <2>3, <3>1
  <2>5. Grown(g, h, b, x, y)
    BY <1>2, <1>3, <1>5, <1>6, <1>8, <1>13, <2>3, <2>4, FullGrown DEF L, N, l
  <2> QED BY <1>6, <2>3, <2>5 DEF g, h, b, x, y, T
<1>14. CASE /\ Item(g, b) # 0 /\ g[Item(g, b)].type # "trust"
            /\ ~ {Item(g, b), l} \subseteq Lists(g)
  <2>1. I = <<>> BY <1>6, <1>14 DEF Inserts, I, LastOf
  <2> QED BY <1>1, <1>4, <2>1
<1> QED BY <1>10, <1>11, <1>12, <1>13, <1>14

\* update_ownertrust with a new record, by tdbio_new_recnum and upd_hashtable
LEMMA InsertDb ==
  ASSUME IInv, DbInv, NEW k \in Key, NEW v \in Trust, Insert(k, v)
  PROVE  DbInv'
<1> DEFINE g == Goal
           h == Goal'
           b == BucketOf[k]
           x == Size
           y == Size + 1
           T == TrustRec(k, v)
           used == \E i \in DOMAIN todo' : todo'[i][1] = y
<1>1. /\ pc = "run" /\ pc' = "put" /\ Ask(k, v) /\ touched' = touched \cup {b}
      /\ Lookup(View, k) = NoTrust /\ UNCHANGED <<exists, cache, torn, damaged>>
  BY DEF Insert, Searches, memory
<1>2. /\ Fresh(g, x, y) /\ IInv' /\ todo' = <<<<x, T>>>> \o Insertion(k)
      /\ \A n \in Rec : file'[n] = IF n = x \/ (n = y /\ used) THEN Unused ELSE file[n]
      /\ file[x] = Missing /\ file[y] = Missing
      /\ Distinct(todo') =>
           \A n \in Rec : (\A i \in DOMAIN todo' : todo'[i][1] # n) => h[n] = g[n]
  BY AppendedIs
<1>3. Distinct(todo') /\ h[x] = T /\ Grown(g, h, b, x, y) /\ HasTable(g)
  BY InsertGrown
<1>4. /\ g = View /\ Ready /\ exists /\ g[0].type = "ver"
      /\ Database(g) /\ Database(h) /\ Database(file) /\ Database(file') /\ Database(cache)
      /\ Past(g, file) /\ Past(g, cache)
      /\ \A n \in Rec : g[n] # Missing => n < Size
  BY <1>1, <1>2, NewGoal, GoalTypes DEF IInv
<1>5. /\ Sound(g) /\ Valued(g, Only(map)) /\ Settled(g, Only(map), damaged)
      /\ Written(g, file) /\ AllFit(g, asked, touched, file, cache)
      /\ Sound(file) /\ Written(file, file)
  BY FileIs DEF DbInv, DataInv
<1>6. T.type = "trust" /\ T.key = k /\ T.ownertrust = v BY DEF TrustRec
<1>7. b \in Bucket BY TrustAssumption
<1>8. /\ x \in Rec /\ y \in Rec /\ x # y /\ Size \in Nat /\ x \in Nat /\ y \in Nat
      /\ g[x] = Missing /\ g[y] = Missing
  <2> HIDE DEF g, h, x, y
  <2>1. x \in Rec \ {0, y} /\ y \in Rec \ {0} /\ g[x] = Missing /\ g[y] = Missing
    BY <1>2, <1>3, <1>4, <1>5, FreshIs
  <2> QED BY <2>1, InRec DEF x
<1> HIDE DEF g, h, T, used
<1>9. ~ Has(g, k)
  <2> SUFFICES ASSUME Has(g, k) PROVE FALSE OBVIOUS
  <2>1. PICK n \in Members(g, b) : Holds(g, n, k) BY DEF Has
  <2>2. n \in Rec /\ Lookup(g, k) = g[n].ownertrust
    BY <1>4, <1>5, <1>7, <2>1, LookupFinds, ChainIs
  <2>3. g[n].ownertrust \in Trust BY <1>4, <2>1, <2>2, TrustFields DEF Holds, Database
  <2> QED BY <1>1, <1>4, <2>2, <2>3, TrustAssumption
<1>10. Holds(h, x, k) BY <1>3, <1>6 DEF Holds
<1> HIDE DEF b, x, y
<1>11. Sound(h)
  BY <1>2, <1>3, <1>4, <1>5, <1>9, <1>10, GrownSound DEF b
<1>12. /\ map'[k] = v /\ \A j \in Key \ {k} : map'[j] = map[j]
       /\ v \in asked'[k] /\ \A j \in Key : asked[j] \subseteq asked'[j]
  BY <1>1, AskIs DEF IInv
<1>13. Valued(h, Only(map')) /\ Settled(h, Only(map'), damaged)
  <2>1. map'[k] = h[x].ownertrust BY <1>3, <1>6, <1>12
  <2> QED BY <1>2, <1>3, <1>4, <1>5, <1>9, <1>10, <1>12, <2>1, GrownSettled DEF b
<1>14. /\ h[0] = g[0]
       /\ \A c \in Bucket \ {b} : Linked(h, c) = Linked(g, c)
       /\ Linked(h, b) \subseteq Linked(g, b) \cup {x, y}
  BY <1>2, <1>3, <1>4, <1>5, <1>7, GrownLinked
<1>15. \A n \in Rec : \/ file'[n] = file[n]
                      \/ n \in {x, y} /\ file[n] = Missing /\ file'[n] = Unused
  BY <1>2
<1>16. Written(h, file')
  <2> SUFFICES ASSUME NEW c \in Bucket, NEW n \in Linked(h, c) PROVE file'[n] # Missing
    BY DEF Written
  <2>1. n \in Rec BY <1>4, ChainIs, <1>11 DEF Linked
  <2>2. CASE n \in Linked(g, c) BY <1>5, <1>15, <2>1, <2>2 DEF Written, Missing, Unused
  <2>3. CASE c = b /\ n = x BY <1>2, <2>1, <2>3 DEF Missing, Unused
  <2>4. CASE c = b /\ n = y
    <3>1. y \in Chain(h, b) \/ y \in Members(h, b) BY <2>4 DEF Linked
    <3>2. y \notin Chain(g, b) /\ y \notin Members(g, b) BY <1>2, <1>7 DEF Fresh, Linked
    <3>3. y \in Chain(h, b) BY <1>3, <1>8, <3>1, <3>2 DEF Grown
    <3>4. h[y].type \in {"hlst", "trust"} BY <1>3, <3>2, <3>3 DEF Grown
    <3>5. used BY <1>2, <1>3, <1>8, <3>4 DEF used, Missing
    <3> QED BY <1>2, <2>1, <2>4, <3>5 DEF Missing, Unused
  <2> QED BY <1>14, <2>2, <2>3, <2>4
<1>17. Past(h, file) /\ Past(h, cache)
  <2>1. ASSUME NEW n \in Rec, g[n].type = "htbl" PROVE n = TableOf(h) \/ h[n] = g[n]
    <3>1. n \notin Lists(g) /\ n \notin {x, y} BY <1>8, <2>1 DEF Lists, Missing
    <3> QED BY <1>3, <3>1 DEF Grown
  <2>2. Past(h, g) BY <1>3 DEF Grown
  <2> QED BY <1>4, <1>5, <1>11, <2>1, <2>2, PastTrans
<1>18. AllFit(h, asked', touched', file', cache)
  <2> SUFFICES ASSUME NEW n \in Rec
               PROVE  /\ Fits(h, asked', touched \cup {b}, n, file'[n])
                      /\ cache[n] # Missing => Fits(h, asked', touched \cup {b}, n, cache[n])
    BY <1>1 DEF AllFit
  <2>1. /\ Fits(g, asked, touched, n, file[n])
        /\ cache[n] # Missing => Fits(g, asked, touched, n, cache[n])
    BY <1>5 DEF AllFit
  <2>2. file'[n] \in Record \cup {Missing} /\ cache[n] \in Record \cup {Missing}
    BY <1>4 DEF Database
  <2>3. Older(h, n, cache[n]) BY <1>17 DEF Past
  <2>4. Older(h, n, file'[n]) BY <1>15, <1>17 DEF Past, Older
  <2>5. Fits(g, asked, touched, n, file'[n]) \/ (n \in {x, y} /\ file'[n] = Unused)
    BY <1>15, <2>1
  <2>6. n = x => file'[n].type # "trust" BY <1>2 DEF Unused
  <2>7. n = x => cache[n].type # "trust"
    BY <1>4, <1>8 DEF View, Missing
  <2>8. Fits(h, asked', touched \cup {b}, n, file'[n])
    BY <1>2, <1>3, <1>4, <1>5, <1>7, <1>12, <2>2, <2>4, <2>5, <2>6, GrownFits
  <2>9. ASSUME cache[n] # Missing PROVE Fits(h, asked', touched \cup {b}, n, cache[n])
    BY <1>2, <1>3, <1>4, <1>5, <1>7, <1>12, <2>1, <2>2, <2>3, <2>7, <2>9, GrownFits
  <2> QED BY <2>8, <2>9
<1>19. \A j \in Key : map'[j] \in asked'[j] BY <1>12 DEF DbInv, DataInv
<1>20. ~ torn => Settled(file', asked', damaged)
  <2> SUFFICES ASSUME ~ torn PROVE Settled(file', asked', damaged) OBVIOUS
  <2>1. Settled(file, asked', damaged) BY <1>12, AskSettled DEF DbInv, DataInv
  <2>2. Refreshed(file, file') BY <1>5, <1>15 DEF Refreshed, Written
  <2> QED BY <1>4, <1>5, <2>1, <2>2, RefreshedSettled
<1>21. DataInv' BY <1>1, <1>11, <1>13, <1>16, <1>18, <1>19, <1>20 DEF DataInv, h
<1>22. Ready'
  <2>1. \A n \in Rec : file'[n] # Missing => n < Size' BY <1>2 DEF IInv, Filled
  <2>2. \A n \in Rec : n < Size => n < Size'
    BY <1>15, <2>1 DEF IInv, Filled, Missing, Unused
  <2>3. ASSUME NEW n \in Rec, cache'[n] # Missing PROVE n < Size'
    BY <1>1, <1>4, <2>2, <2>3 DEF Ready
  <2>4. ASSUME NEW i \in DOMAIN todo' PROVE todo'[i][1] < Size'
    <3> DEFINE n == todo'[i][1]
    <3>1. n \in Rec
      <4>1. todo'[i] \in Rec \X Record BY <1>2, <2>4 DEF IInv, TypeOK
      <4> QED BY <4>1
    <3>2. Goal'[n] = todo'[i][2] /\ todo'[i][2] \in Record
      <4>1. todo'[i] \in Rec \X Record BY <1>2, <2>4 DEF IInv, TypeOK
      <4> QED BY <1>3, <2>4, <4>1, GoalIs DEF Goal
    <3>3. CASE n \in {x, y}
      <4>1. n = x \/ used BY <2>4, <3>3 DEF used
      <4> HIDE DEF n
      <4>2. file'[n] # Missing BY <1>2, <3>1, <3>3, <4>1 DEF Missing, Unused
      <4> QED BY <2>1, <3>1, <4>2 DEF n
    <3>4. CASE n \notin {x, y}
      <4> SUFFICES n < Size BY <2>2, <3>1
      <4>1. PICK m \in Present(View) \cup {x, y} : m = n
        <5>1. todo' \in Seq((Present(View) \cup {x, y}) \X Record)
          <6> DEFINE I == Insertion(k)
                     e == <<x, T>>
                     S == Present(View) \cup {x, y}
          <6>1. I \in Seq((Present(View) \cup {y}) \X Record)
            BY <1>4, <1>7, <1>8, InsertsType DEF Insertion, b, x, y
          <6>2. e \in S \X Record BY RecordMade DEF T
          <6>3. todo' = <<e>> \o I BY <1>2
          <6>4. I \in Seq(S \X Record) BY <6>1
          <6> HIDE DEF I, e, S
          <6>5. todo' \in Seq(S \X Record) BY <6>2, <6>3, <6>4
          <6> QED BY <6>5 DEF S
        <5>2. todo'[i] \in (Present(View) \cup {x, y}) \X Record BY <2>4, <5>1
        <5> QED BY <5>2
      <4> HIDE DEF n
      <4> QED BY <1>4, <3>4, <4>1 DEF Present
    <3> QED BY <3>3, <3>4
  <2> QED BY <2>3, <2>4 DEF Ready
<1>23. h[0].type = "ver" BY <1>4, <1>14
<1>24. StageInv' BY <1>1, <1>3, <1>4, <1>22, <1>23 DEF StageInv, h
<1> QED BY <1>21, <1>24 DEF DbInv

-----------------------------------------------------------------------------
\* Each step keeps the goal sound and the parts of it in the file and the cache
\* fitting: creating the file and the table, a change, an insertion in each of
\* the four ways of upd_hashtable, every order in which put_record_into_cache
\* and tdbio_sync write the records, and the end of the process between any two
\* of these writes.
THEOREM StepDb == IInv /\ DbInv /\ [Next]_vars => DbInv'
<1> SUFFICES ASSUME IInv, DbInv, [Next]_vars PROVE DbInv' OBVIOUS
<1>1. CASE UNCHANGED vars
  <2>1. UNCHANGED <<exists, file, cache, dirty, isDirty, todo, pc,
                   map, asked, touched, torn, damaged>>
    BY <1>1 DEF vars, memory, history
  <2>2. Goal' = Goal /\ Size' = Size BY <2>1 DEF Goal, Size
  <2>3. Ready' = Ready BY <2>1, <2>2 DEF Ready
  <2> QED BY <2>1, <2>2, <2>3 DEF DbInv, DataInv, StageInv
<1>2. CASE Create \/ OpenDb \/ CreateTable BY <1>2, CreateDb, OpenSyncDb, CreateTableDb
<1>3. ASSUME NEW k \in Key, Invalid(k) PROVE DbInv' BY <1>3, InvalidDb
<1>4. ASSUME NEW k \in Key, NEW v \in Trust, Change(k, v) \/ Insert(k, v) PROVE DbInv'
  BY <1>4, ChangeDb, InsertDb
<1>5. CASE PutCached \/ PutNew \/ Flush BY <1>5, PutDb, FlushDb
<1>6. CASE Sync \/ SyncWrite \/ SyncDone \/ Ends
  BY <1>6, OpenSyncDb, SyncWriteDb, SyncDoneDb, EndsDb
<1> QED BY <1>1, <1>2, <1>3, <1>4, <1>5, <1>6 DEF Next

\* Between two operations the search through the table and the lists
\* (lookup_hashtable) finds for every key what was set last, in the records of
\* the cache and of the file, except in a bucket that a process has left half
\* written.
THEOREM TrustViewRight == Spec => []ViewRight
<1>1. Init => IInv /\ DbInv BY InitInv, InitDb
<1>2. IInv /\ DbInv /\ [Next]_vars => IInv' /\ DbInv' BY StepInv, StepDb
<1>3. IInv /\ DbInv => ViewRight BY GoalRight DEF DbInv
<1> QED BY <1>1, <1>2, <1>3, PTL DEF Spec

\* The next process, which has only the file, finds for every key a trust that
\* was asked for since the last tdbio_sync.  In the buckets that got a new record
\* since then and are not completely written, or were left so, it may also find
\* none, or an invalid record; never the trust of another key or one that nobody
\* has asked for.
THEOREM TrustFileRight == Spec => []FileRight
<1>1. Init => IInv /\ DbInv BY InitInv, InitDb
<1>2. IInv /\ DbInv /\ [Next]_vars => IInv' /\ DbInv' BY StepInv, StepDb
<1>3. IInv /\ DbInv => FileRight BY FileIsRight DEF DbInv
<1> QED BY <1>1, <1>2, <1>3, PTL DEF Spec

\* Whatever moment a process is killed at, no list of the file leads into a
\* circle or into another bucket, no bucket has a key of another one or the same
\* one twice, and what is linked is in the file, though maybe never written.
FileSound == Sound(file) /\ Written(file, file)
THEOREM TrustFileSound == Spec => []FileSound
<1>1. Init => IInv /\ DbInv BY InitInv, InitDb
<1>2. IInv /\ DbInv /\ [Next]_vars => IInv' /\ DbInv' BY StepInv, StepDb
<1>3. IInv /\ DbInv => FileSound BY FileIs DEF DbInv, FileSound
<1> QED BY <1>1, <1>2, <1>3, PTL DEF Spec

-----------------------------------------------------------------------------
\* A new trust record is the first one that an insertion writes.
TrustFirst == \A i \in DOMAIN todo : i > 1 => todo[i][2].type # "trust"

\* upd_hashtable writes a table and list records,
LEMMA InsertsPlain ==
  ASSUME NEW db, NEW b, NEW n, NEW new
  PROVE  \A i \in DOMAIN Inserts(db, b, n, new) : Inserts(db, b, n, new)[i][2].type # "trust"
<1> USE DEF SetItem, Table, List
<1> DEFINE item == Item(db, b)
           last == Last(db)[item]
<1>1. CASE ~ HasTable(db) BY <1>1 DEF Inserts
<1>2. CASE HasTable(db) /\ item = 0 BY <1>2 DEF Inserts
<1>3. CASE HasTable(db) /\ item # 0 /\ db[item].type = "trust" BY <1>3 DEF Inserts
<1>4. CASE HasTable(db) /\ item # 0 /\ db[item].type # "trust"
  <2> HIDE DEF item, last
  <2>1. CASE ~ {item, last} \subseteq Lists(db) BY <1>4, <2>1 DEF Inserts, item, last
  <2>2. CASE {item, last} \subseteq Lists(db) /\ Cardinality(db[last].rnum) < Slots
    BY <1>4, <2>2 DEF Inserts, item, last
  <2>3. CASE {item, last} \subseteq Lists(db) /\ ~ (Cardinality(db[last].rnum) < Slots)
    BY <1>4, <2>3 DEF Inserts, item, last
  <2> QED BY <2>1, <2>2, <2>3
<1> QED BY <1>1, <1>2, <1>3, <1>4

\* and each step keeps this.
LEMMA TrustFirstStep == IInv /\ TrustFirst /\ [Next]_vars => TrustFirst'
<1> SUFFICES ASSUME IInv, TrustFirst, [Next]_vars PROVE TrustFirst' OBVIOUS
<1>1. CASE UNCHANGED todo BY <1>1 DEF TrustFirst
<1>2. CASE Create \/ CreateTable
  BY <1>2 DEF Create, CreateTable, TrustFirst, Version
<1>3. ASSUME NEW k \in Key, NEW v \in Trust, Change(k, v) PROVE TrustFirst'
  <2>1. PICK e : todo' = <<e>> BY <1>3 DEF Change
  <2> QED BY <2>1 DEF TrustFirst
<1>4. ASSUME NEW k \in Key, NEW v \in Trust, Insert(k, v) PROVE TrustFirst'
  <2> DEFINE I == Insertion(k)
             e == <<Size, TrustRec(k, v)>>
  <2>1. Size \in Rec /\ Size + 1 \in Rec BY <1>4, InRec DEF IInv, Insert
  <2>2. I \in Seq((Present(View) \cup {Size + 1}) \X Record)
    BY <2>1, TrustAssumption, ViewTypes, InsertsType DEF Insertion
  <2>3. todo' = <<e>> \o I BY <1>4 DEF Insert
  <2>4. \A i \in DOMAIN I : I[i][2].type # "trust" BY InsertsPlain DEF Insertion
  <2> HIDE DEF I, e
  <2>5. ASSUME NEW i \in DOMAIN (<<e>> \o I), i > 1
        PROVE  i - 1 \in DOMAIN I /\ (<<e>> \o I)[i] = I[i - 1]
    BY <2>2, <2>5
  <2> QED BY <2>3, <2>4, <2>5 DEF TrustFirst
<1>5. ASSUME todo' = Tail(todo), todo # <<>> PROVE TrustFirst'
  <2>1. todo \in Seq(Rec \X Record) BY DEF IInv, TypeOK
  <2>2. ASSUME NEW i \in DOMAIN Tail(todo)
        PROVE  i + 1 \in DOMAIN todo /\ Tail(todo)[i] = todo[i + 1] /\ i + 1 > 1
    BY <1>5, <2>1
  <2> QED BY <1>5, <2>2 DEF TrustFirst
<1>6. CASE PutCached \/ PutNew
  <2>1. PICK m : Store(m) BY <1>6 DEF PutCached, PutNew
  <2>2. todo # <<>> BY <1>6 DEF PutCached, PutNew, IInv, TypeOK
  <2> QED BY <1>5, <2>1, <2>2 DEF Store
<1>7. ASSUME NEW k \in Key, Invalid(k) PROVE TrustFirst'
  BY <1>7 DEF Invalid, Stop, TrustFirst
<1>8. CASE Ends BY <1>8 DEF Ends, Stop, TrustFirst
<1>9. CASE OpenDb \/ Flush \/ Sync \/ SyncWrite \/ SyncDone
  BY <1>1, <1>9 DEF OpenDb, Flush, Sync, SyncWrite, SyncDone
<1>10. CASE UNCHANGED vars BY <1>1, <1>10 DEF vars
<1> QED BY <1>2, <1>3, <1>4, <1>6, <1>7, <1>8, <1>9, <1>10 DEF Next

-----------------------------------------------------------------------------
\* Where the file changes: a dirty record is written, or empty ones are appended.
Writes == \/ Flush \/ SyncWrite
Appends == \A n \in Rec : file'[n] = file[n] \/ (file[n] = Missing /\ file'[n] = Unused)

LEMMA FileSteps ==
  ASSUME IInv, [Next]_vars
  PROVE  Writes \/ Appends
<1>1. CASE UNCHANGED file BY <1>1 DEF Appends
<1>2. ASSUME NEW k \in Key, Invalid(k) PROVE Appends
  <2>1. CASE UNCHANGED file BY <2>1 DEF Appends
  <2>2. CASE file' = Appended({Size})
    <3>1. file[Size] = Missing \/ Size \notin Rec BY InRec DEF IInv, Filled
    <3> QED BY <2>2, <3>1 DEF Appended, Appends
  <2> QED BY <1>2, <2>1, <2>2 DEF Invalid
<1>3. ASSUME NEW k \in Key, NEW v \in Trust, Insert(k, v) PROVE Appends
  <2>1. PICK ns : ns \subseteq {Size, Size + 1} /\ file' = Appended(ns)
    <3> DEFINE ns == {Size} \cup {n \in {Size + 1} : \E i \in DOMAIN todo' : todo'[i][1] = n}
    <3>1. ns \subseteq {Size, Size + 1} /\ file' = Appended(ns) BY <1>3 DEF Insert
    <3> QED BY <3>1
  <2>2. Size \in Rec /\ Size + 1 \in Rec BY <1>3, InRec DEF IInv, Insert
  <2>3. file[Size] = Missing /\ file[Size + 1] = Missing BY <2>2, InRec DEF IInv, Filled
  <2> QED BY <2>1, <2>3 DEF Appended, Appends
<1>4. CASE Create \/ OpenDb \/ CreateTable
  BY <1>1, <1>4 DEF Create, OpenDb, CreateTable
<1>5. ASSUME NEW k \in Key, NEW v \in Trust, Change(k, v) PROVE Appends
  <2>1. UNCHANGED file BY <1>5 DEF Change
  <2> QED BY <2>1 DEF Appends
<1>6. CASE PutCached \/ PutNew
  BY <1>1, <1>6 DEF PutCached, PutNew, Store
<1>7. CASE Sync \/ SyncDone \/ Ends
  BY <1>1, <1>7 DEF Sync, SyncDone, Ends
<1>8. CASE UNCHANGED vars BY <1>1, <1>8 DEF vars
<1> QED BY <1>2, <1>3, <1>4, <1>5, <1>6, <1>7, <1>8 DEF Next, Writes

\* Whoever has a trust in the file has a record there.
LEMMA FileTrust ==
  ASSUME IInv, DbInv, NEW k \in Key, Lookup(file, k) \in Trust
  PROVE  \E n \in Members(file, BucketOf[k]) :
           Holds(file, n, k) /\ Lookup(file, k) = file[n].ownertrust
<1>1. Database(file) /\ Sound(file) /\ Valued(file, asked)
  BY FileIs, GoalTypes DEF IInv, DbInv
<1>2. ~ Has(file, k) => Lookup(file, k) \in {NoTrust, Failed} BY <1>1, LookupFinds
<1>3. Has(file, k) BY <1>2, TrustAssumption
<1> QED BY <1>1, <1>3, LookupFinds DEF Has

\* When empty records are appended, everybody still has it.
LEMMA AppendsKeep ==
  ASSUME IInv, IInv', DbInv, Appends, NEW k \in Key, Lookup(file, k) \in Trust
  PROVE  Lookup(file', k) = Lookup(file, k)
<1> DEFINE b == BucketOf[k]
<1>1. b \in Bucket BY TrustAssumption
<1>2. Database(file) /\ Database(file') BY DEF IInv, TypeOK, Database
<1>3. Sound(file) /\ Written(file, file) BY FileIs DEF DbInv
<1>4. PICK n \in Members(file, b) : Holds(file, n, k) /\ Lookup(file, k) = file[n].ownertrust
  BY FileTrust
<1> HIDE DEF b
<1>5. Refreshed(file, file') BY <1>3 DEF Refreshed, Written, Appends
<1>6. Sound(file') /\ Alike(file, file') BY <1>2, <1>3, <1>5, RefreshedSound
<1>7. n \in Members(file', b) /\ n \in Rec BY <1>1, <1>2, <1>6, AlikeLinked, ChainIs
<1>8. file'[n] = file[n] BY <1>4, <1>7 DEF Appends, Holds, Missing
<1>9. Find(file', k) = n /\ n \in Rec \ {0}
  BY <1>2, <1>4, <1>6, <1>7, <1>8, Found DEF Holds, b
<1>10. n # Failed BY <1>9, InRec, TrustAssumption
<1> QED BY <1>4, <1>8, <1>9, <1>10 DEF Lookup

\* When a record is written, it has what was asked for last, if it is a trust.
LEMMA WrittenTrust ==
  ASSUME IInv, DbInv, TrustFirst, Writes
  PROVE  /\ Goal' = Goal /\ UNCHANGED map
         /\ \A n \in Rec : \/ file'[n] = file[n]
                           \/ file'[n].type = "trust" => file'[n] = Goal[n]
<1>1. PICK n \in dirty : WriteItem(n) /\ UNCHANGED map /\ Goal' = Goal
  <2>1. CASE Flush
    <3>1. PICK n \in dirty : WriteItem(n) /\ cache' = [cache EXCEPT ![n] = Missing]
      BY <2>1 DEF Flush
    <3> QED BY <2>1, <3>1, WriteGoal DEF Flush
  <2>2. CASE SyncWrite
    <3>1. PICK n \in dirty : WriteItem(n) BY <2>2 DEF SyncWrite
    <3> QED BY <2>2, <3>1, WriteGoal DEF SyncWrite
  <2> QED BY <2>1, <2>2 DEF Writes
<1>2. n \in Rec /\ file' = [file EXCEPT ![n] = cache[n]] /\ cache[n] # Missing
  BY <1>1, WriteItemFilled DEF IInv, TypeOK
<1>3. file'[n] = cache[n] /\ \A m \in Rec \ {n} : file'[m] = file[m]
  BY <1>2 DEF IInv, TypeOK
<1>4. ASSUME cache[n].type = "trust", Goal[n] # cache[n] PROVE FALSE
  <2>1. Distinct(todo) BY DEF DbInv, StageInv
  <2>2. PICK i \in DOMAIN todo : todo[i][1] = n
    BY <1>2, <1>4, <2>1, GoalIs DEF Goal
  <2>3. Goal[n] = todo[i][2] BY <1>2, <2>1, <2>2, GoalIs DEF Goal
  <2>4. Goal[n].type = "trust" BY <1>2, <1>4, FileIs, PastTrust DEF DbInv
  <2>5. todo \in Seq(Rec \X Record) BY DEF IInv, TypeOK
  <2>6. i \in Nat /\ ~ (i > 1) /\ i # 0 BY <2>2, <2>3, <2>4, <2>5 DEF TrustFirst
  <2>7. i = 1 BY <2>6
  <2>8. pc = "put" /\ todo[1][1] \notin Cached
    <3>1. todo # <<>> BY <2>2
    <3> QED BY <3>1 DEF Writes, Flush, SyncWrite, IInv, TypeOK
  <2> QED BY <1>2, <2>2, <2>7, <2>8 DEF Cached
<1> QED BY <1>1, <1>3, <1>4

\* What fits the goal does so after a step, too.
LEMMA FileIsNext ==
  (IInv /\ DbInv => Past(Goal, file) /\ Sound(file) /\ Valued(file, asked))'
<1>1. IInv /\ DbInv => Past(Goal, file) /\ Sound(file) /\ Valued(file, asked)
  BY FileIs DEF DbInv
<1> QED BY <1>1, PTL

\* So a write leaves a key the trust it has, or gives it the one that was asked
\* for last, or breaks the way to its record while the lists are being written.
LEMMA WritesKeep ==
  ASSUME IInv, IInv', DbInv, DbInv', TrustFirst, Writes, NEW k \in Key, Lookup(file, k) \in Trust
  PROVE  Lookup(file', k) \in {Lookup(file, k), map[k], NoTrust, Failed}
<1> DEFINE b == BucketOf[k]
<1>1. b \in Bucket BY TrustAssumption
<1>2. Database(file) /\ Database(file') /\ Database(Goal)
  BY GoalTypes DEF IInv, TypeOK, Database
<1>3. /\ Sound(Goal) /\ Valued(Goal, Only(map)) /\ Past(Goal, file)
      /\ Goal' = Goal /\ UNCHANGED map
      /\ \A n \in Rec : \/ file'[n] = file[n]
                        \/ file'[n].type = "trust" => file'[n] = Goal[n]
  BY FileIs, WrittenTrust DEF DbInv, DataInv
<1>4. Past(Goal', file') /\ Sound(file') /\ Valued(file', asked')
  BY FileIsNext
<1>5. PICK n \in Members(file, b) : Holds(file, n, k) /\ Lookup(file, k) = file[n].ownertrust
  BY FileTrust
<1> HIDE DEF b
<1>6. CASE ~ Has(file', k) BY <1>2, <1>4, <1>6, LookupFinds
<1>7. CASE Has(file', k)
  <2>1. PICK m \in Members(file', b) : Holds(file', m, k) BY <1>7 DEF Has, b
  <2>2. Lookup(file', k) = file'[m].ownertrust
    BY <1>2, <1>4, <2>1, LookupFinds DEF b
  <2>3. m \in Members(Goal, b) /\ n \in Members(Goal, b) /\ m \in Rec /\ n \in Rec
    BY <1>1, <1>2, <1>3, <1>4, <1>5, <2>1, PastLinked, ChainIs
  <2>4. Holds(Goal, m, k) /\ Holds(Goal, n, k)
    BY <1>3, <1>4, <1>5, <2>1, <2>3, PastTrust DEF Holds
  <2>5. m = n BY <1>1, <1>3, <2>3, <2>4 DEF Sound, SoundIn, Holds
  <2>6. CASE file'[n] = file[n] BY <1>5, <2>2, <2>5, <2>6
  <2>7. CASE file'[n] = Goal[n]
    <3>1. Goal[n].ownertrust \in Only(map)[k] BY <1>1, <1>3, <2>3, <2>4 DEF Valued, Holds
    <3> QED BY <2>2, <2>5, <2>7, <3>1 DEF Only
  <2> QED BY <1>3, <2>1, <2>3, <2>5, <2>6, <2>7 DEF Holds
<1> QED BY <1>6, <1>7

\* tdbio_write_record, put_record_into_cache and tdbio_sync: the records of a
\* change are written in any order, the cached ones when the cache is full, and
\* still the file never goes back: the trust that a key has there stays until
\* the key has the one that was asked for last; only the way to its record may
\* be broken before, while its lists are being written.
NeverBack ==
  [][\A k \in Key :
       Lookup(file, k) \in Trust
         => Lookup(file', k) \in {Lookup(file, k), map[k], NoTrust, Failed}]_vars

\* For all keys, any size of the file and of the cache: no step takes a key of
\* the file back to a trust that was replaced.
THEOREM TrustNeverBack == Spec => NeverBack
<1>1. Init => IInv /\ DbInv /\ TrustFirst
  <2>1. Init => TrustFirst BY DEF Init, TrustFirst
  <2> QED BY <2>1, InitInv, InitDb
<1>2. IInv /\ DbInv /\ TrustFirst /\ [Next]_vars => IInv' /\ DbInv' /\ TrustFirst'
  BY StepInv, StepDb, TrustFirstStep
<1>3. IInv /\ DbInv /\ TrustFirst /\ IInv' /\ DbInv' /\ [Next]_vars
        => [\A k \in Key :
              Lookup(file, k) \in Trust
                => Lookup(file', k) \in {Lookup(file, k), map[k], NoTrust, Failed}]_vars
  BY FileSteps, AppendsKeep, WritesKeep
<1> QED BY <1>1, <1>2, <1>3, PTL DEF Spec, NeverBack
=============================================================================
