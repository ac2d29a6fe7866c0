----------------------------- MODULE NodeDBProofs -----------------------------
(***************************************************************************)
(* Proofs about NodeDB, for any set of databases, any packets they may     *)
(* receive and any expiry times.                                           *)
(***************************************************************************)
EXTENDS NodeDB, TLAPS

Fields == DOMAIN Blank

LEMMA BlankFacts ==
  /\ Fields = {"long_name", "hw_model", "is_licensed", "position", "last_heard", "rssi"}
  /\ Blank.last_heard = 0
  BY DEF Fields, Blank

(* A conversion to JSON and back keeps the time a node was heard.          *)
LEMMA ToDictHeard ==
  ASSUME NEW info, DOMAIN info = Fields
  PROVE  ToDict(info).last_heard = info.last_heard
<1> DEFINE d == Dict(info, Blank, {"last_heard", "rssi"})
<1>1. "last_heard" \in DOMAIN d /\ d.last_heard = info.last_heard
  BY BlankFacts DEF Dict, Restrict
<1>2. ToDict(info) = d
      \/ ToDict(info) = [d EXCEPT !.position = Dict(info.position, BlankPosition, {})]
  BY DEF ToDict
<1> HIDE DEF d
<1> QED
  BY <1>1, <1>2

LEMMA FromDictFacts ==
  ASSUME NEW dict
  PROVE  /\ DOMAIN FromDict(dict) = Fields
         /\ FromDict(dict).last_heard \in {0, dict.last_heard}
<1> DEFINE i == Filled(dict, Blank)
<1>1. DOMAIN i = Fields /\ i.last_heard \in {0, dict.last_heard}
  BY BlankFacts DEF Filled, Fields
<1>2. FromDict(dict) = i
      \/ FromDict(dict) = [i EXCEPT !.position = Filled(i.position, BlankPosition)]
  BY DEF FromDict
<1> HIDE DEF i
<1> QED
  BY <1>1, <1>2, BlankFacts

(* What a packet tells of a node does not touch the time it was heard, and *)
(* takes no name away.                                                     *)
LEMMA WithDataFacts ==
  ASSUME NEW info, DOMAIN info = Fields, NEW data
  PROVE  /\ DOMAIN WithData(info, data) = Fields
         /\ WithData(info, data).last_heard = info.last_heard
         /\ info.long_name # Nothing => WithData(info, data).long_name # Nothing
<1> DEFINE u == DecodeUser(data.payload)
<1>1. \/ WithData(info, data) = info
      \/ \E p : WithData(info, data) = [info EXCEPT !.position = p]
      \/ WithData(info, data) =
           [info EXCEPT
              !.long_name = IF u.long_name = Nothing THEN @ ELSE u.long_name,
              !.hw_model = IF u.hw_model = 0 THEN @ ELSE u.hw_model,
              !.is_licensed = u.is_licensed]
  BY DEF WithData
<1> HIDE DEF u
<1> QED
  BY <1>1, BlankFacts

-----------------------------------------------------------------------------
(* A table and a file as the invariant has them, and what may change them. *)
TableOK(t, t0, at) ==
  /\ DOMAIN t \subseteq Addresses
  /\ \A n \in DOMAIN t :
       /\ DOMAIN t[n] = Fields
       /\ t[n].last_heard \in 0 .. t0
       /\ t[n].last_heard <= at[n]

FileOK(f, t0, at) ==
  /\ DOMAIN f \subseteq Addresses
  /\ \A n \in DOMAIN f : f[n].last_heard \in 0 .. t0 /\ f[n].last_heard <= at[n]

IInv ==
  /\ now \in Nat \ {0}
  /\ heardAt \in [Addresses -> 0 .. now]
  /\ DOMAIN table = DBs
  /\ \A d \in DBs : TableOK(table[d], now, heardAt)
  /\ DOMAIN file = DBs
  /\ \A d \in DBs : file[d] # None => FileOK(file[d], now, heardAt)

LEMMA InitInv == Init => IInv
<1> SUFFICES ASSUME Init PROVE IInv
  OBVIOUS
<1>1. DOMAIN Empty = {}
  BY DEF Empty
<1>2. \A d \in DBs : TableOK(table[d], now, heardAt)
  BY <1>1 DEF Init, TableOK
<1> QED
  BY <1>2 DEF Init, IInv

(* Later, and with later times heard, tables and files are still right.    *)
LEMMA Monotone ==
  ASSUME NEW t0 \in Nat, NEW t1 \in Nat, t0 <= t1,
         NEW a0 \in [Addresses -> Nat], NEW a1 \in [Addresses -> Nat],
         \A n \in Addresses : a0[n] <= a1[n],
         NEW t
  PROVE  /\ TableOK(t, t0, a0) => TableOK(t, t1, a1)
         /\ FileOK(t, t0, a0) => FileOK(t, t1, a1)
  BY DEF TableOK, FileOK

(* A merge takes nothing that is neither in the table nor in the file.     *)
LEMMA MergeInv ==
  ASSUME NEW t, NEW f, NEW t0 \in Nat, NEW at \in [Addresses -> Nat],
         TableOK(t, t0, at), FileOK(f, t0, at)
  PROVE  TableOK(Merge(t, f), t0, at)
<1> DEFINE m == Merge(t, f)
<1>1. DOMAIN m = DOMAIN t \union DOMAIN f
  BY DEF Merge
<1>2. ASSUME NEW n \in DOMAIN m
      PROVE  \/ n \in DOMAIN t /\ m[n] = t[n]
             \/ n \in DOMAIN f /\ m[n] = FromDict(f[n])
  BY <1>1 DEF Merge
<1> HIDE DEF m
<1>3. ASSUME NEW n \in DOMAIN f
      PROVE  /\ DOMAIN FromDict(f[n]) = Fields
             /\ FromDict(f[n]).last_heard \in 0 .. t0
             /\ FromDict(f[n]).last_heard <= at[n]
  <2>1. FromDict(f[n]).last_heard \in {0, f[n].last_heard}
    BY FromDictFacts
  <2>2. f[n].last_heard \in 0 .. t0 /\ f[n].last_heard <= at[n] /\ at[n] \in Nat
    BY DEF FileOK
  <2> QED
    BY <2>1, <2>2, FromDictFacts
<1>4. ASSUME NEW n \in DOMAIN m
      PROVE  n \in Addresses /\ DOMAIN m[n] = Fields
             /\ m[n].last_heard \in 0 .. t0 /\ m[n].last_heard <= at[n]
  BY <1>2, <1>3 DEF TableOK, FileOK
<1> QED
  BY <1>4 DEF TableOK, m

LEMMA UpdateInv ==
  ASSUME IInv, NEW d \in DBs, NEW p \in Inbound[d], Update(d, p) PROVE IInv'
<1> DEFINE heard == [InfoOf(d, p.source) EXCEPT !.last_heard = now, !.rssi = p.rssi]
           new == WithData(heard, p.decoded)
<1>1. DOMAIN InfoOf(d, p.source) = Fields
  BY BlankFacts DEF InfoOf, IInv, TableOK, Fields
<1>2. DOMAIN heard = Fields /\ heard.last_heard = now
  BY <1>1, BlankFacts
<1> HIDE DEF heard
<1>3. DOMAIN new = Fields /\ new.last_heard = now
  BY <1>2, WithDataFacts
<1>4. p.source \in Addresses /\ now \in Nat \ {0} /\ now' = now /\ file' = file
      /\ heardAt' = [heardAt EXCEPT ![p.source] = now]
      /\ table' = [table EXCEPT ![d] = With(@, p.source, new)]
  BY DEF Update, IInv, heard
<1> HIDE DEF new
<1>5. heardAt' \in [Addresses -> 0 .. now'] /\ \A n \in Addresses : heardAt[n] <= heardAt'[n]
  BY <1>4 DEF IInv
<1>6. heardAt \in [Addresses -> Nat] /\ heardAt' \in [Addresses -> Nat]
  BY <1>4, <1>5 DEF IInv
<1>7. \A e \in DBs : TableOK(table[e], now', heardAt')
      /\ (file'[e] # None => FileOK(file'[e], now', heardAt'))
  <2>1. now \in Nat /\ now' \in Nat /\ now <= now'
    BY <1>4
  <2>2. ASSUME NEW t
        PROVE  /\ TableOK(t, now, heardAt) => TableOK(t, now', heardAt')
               /\ FileOK(t, now, heardAt) => FileOK(t, now', heardAt')
    BY <2>1, <1>5, <1>6, Monotone
  <2> QED
    BY <2>2, <1>4 DEF IInv
<1>8. TableOK(With(table[d], p.source, new), now', heardAt')
  BY <1>3, <1>4, <1>7 DEF TableOK, With, IInv
<1>9. \A e \in DBs : TableOK(table'[e], now', heardAt')
  BY <1>4, <1>7, <1>8 DEF IInv
<1> QED
  BY <1>4, <1>5, <1>7, <1>9 DEF IInv

LEMMA GetOrCreateInv ==
  ASSUME IInv, NEW d \in DBs, NEW n \in Addresses, GetOrCreate(d, n) PROVE IInv'
<1>1. TableOK(With(table[d], n, Blank), now, heardAt)
  BY BlankFacts DEF IInv, TableOK, With, Fields
<1>2. \A e \in DBs : TableOK(table'[e], now, heardAt)
  BY <1>1 DEF GetOrCreate, IInv
<1> QED
  BY <1>2 DEF GetOrCreate, IInv

LEMMA RemovalInv ==
  ASSUME IInv, NEW d \in DBs, ExpireStale(d) \/ Clear(d) PROVE IInv'
<1>1. \A S \in SUBSET DOMAIN table[d] : TableOK(Restrict(table[d], S), now, heardAt)
  BY DEF IInv, TableOK, Restrict
<1>2. Survivors(table[d]) \subseteq DOMAIN table[d]
  BY DEF Survivors
<1>3. TableOK(Empty, now, heardAt)
  BY DEF TableOK, Empty
<1>4. \A e \in DBs : TableOK(table'[e], now, heardAt)
  BY <1>1, <1>2, <1>3 DEF ExpireStale, Clear, IInv
<1> QED
  BY <1>4 DEF ExpireStale, Clear, IInv

LEMMA ExportInv ==
  ASSUME IInv, NEW d \in DBs, Export(d) \/ ExportCutShort(d) PROVE IInv'
<1> DEFINE written == [n \in DOMAIN table[d] |-> ToDict(table[d][n])]
<1>1. \A n \in DOMAIN table[d] : ToDict(table[d][n]).last_heard = table[d][n].last_heard
  BY ToDictHeard DEF IInv, TableOK
<1>2. FileOK(written, now, heardAt)
  BY <1>1 DEF IInv, TableOK, FileOK
<1>3. UNCHANGED <<now, table, heardAt>>
      /\ (file' = [file EXCEPT ![d] = written] \/ file' = [file EXCEPT ![d] = None])
  BY DEF Export, ExportCutShort
<1> HIDE DEF written
<1>4. \A e \in DBs : file'[e] # None => FileOK(file'[e], now, heardAt)
  BY <1>2, <1>3 DEF IInv
<1> QED
  BY <1>3, <1>4 DEF IInv

LEMMA ImportInv ==
  ASSUME IInv, NEW d \in DBs, NEW f \in DBs, Import(d, f) PROVE IInv'
<1>1. now \in Nat /\ heardAt \in [Addresses -> Nat]
  BY DEF IInv
<1>2. TableOK(Merge(table[d], file[f]), now, heardAt)
  BY <1>1, MergeInv DEF IInv, Import
<1>3. \A e \in DBs : TableOK(table'[e], now, heardAt)
  BY <1>2 DEF IInv, Import
<1> QED
  BY <1>3 DEF IInv, Import

LEMMA TickInv ==
  ASSUME IInv, Tick PROVE IInv'
<1>1. now \in Nat \ {0} /\ now' = now + 1 /\ UNCHANGED <<table, file, heardAt>>
  BY DEF Tick, IInv
<1>2. now' \in Nat \ {0} /\ heardAt' \in [Addresses -> 0 .. now']
      /\ heardAt \in [Addresses -> Nat] /\ \A n \in Addresses : heardAt[n] <= heardAt[n]
  BY <1>1 DEF IInv
<1>3. \A d \in DBs : TableOK(table[d], now', heardAt)
      /\ (file[d] # None => FileOK(file[d], now', heardAt))
  BY <1>1, <1>2, Monotone DEF IInv
<1> QED
  BY <1>1, <1>2, <1>3 DEF IInv

LEMMA NextInv == IInv /\ [Next]_vars => IInv'
<1> SUFFICES ASSUME IInv, [Next]_vars PROVE IInv'
  OBVIOUS
<1>1. CASE UNCHANGED vars
  BY <1>1 DEF vars, IInv
<1>2. CASE Next
  BY <1>2, UpdateInv, GetOrCreateInv, RemovalInv, ExportInv, ImportInv, TickInv DEF Next
<1> QED
  BY <1>1, <1>2

(* The databases keep their types, whatever they are fed.                  *)
THEOREM DatabasesTyped == Spec => []TypeOK
<1>1. IInv => TypeOK
  BY DEF IInv, TypeOK, TableOK, FileOK, Fields
<1> QED
  BY <1>1, InitInv, NextInv, PTL DEF Spec

(* nodedb.py 214, 292-335: however often tables are exported, cut short,   *)
(* imported and exported again, and by however many databases, no record   *)
(* is fresher than what somebody heard.                                    *)
THEOREM NothingHeardIsMadeUp == Spec => []HeardIsGenuine
<1>1. IInv => HeardIsGenuine
  BY DEF IInv, HeardIsGenuine, TableOK, FileOK
<1> QED
  BY <1>1, InitInv, NextInv, PTL DEF Spec

(* expire_stale (268) and is_stale (101-103) draw the same line.           *)
THEOREM ExpiryIsStaleness == Spec => []ExpiryAgreesWithStale
<1>1. IInv => ExpiryAgreesWithStale
  BY NodeDBAssumption DEF IInv, TableOK, ExpiryAgreesWithStale, Survivors, IsExpired, IsStale
<1> QED
  BY <1>1, InitInv, NextInv, PTL DEF Spec

-----------------------------------------------------------------------------
(* What a step may do to a record: nothing; a packet is heard, which takes *)
(* no name away; or a record heard later replaces it.                      *)
Kept(e, n) == table'[e][n] = table[e][n]

HeardAgain(e, n) ==
  /\ table'[e][n].last_heard = now
  /\ table[e][n].long_name # Nothing => table'[e][n].long_name # Nothing

Replaced(e, n) ==
  \E f \in DBs :
    /\ file[f] # None
    /\ n \in DOMAIN file[f]
    /\ table'[e][n].last_heard > table[e][n].last_heard
    /\ file[f][n].last_heard > table[e][n].last_heard

LEMMA UpdateStep ==
  ASSUME IInv, NEW d \in DBs, NEW p \in Inbound[d], Update(d, p),
         NEW e \in DBs, NEW n \in DOMAIN table[e]
  PROVE  Kept(e, n) \/ HeardAgain(e, n)
<1> DEFINE heard == [InfoOf(d, p.source) EXCEPT !.last_heard = now, !.rssi = p.rssi]
           new == WithData(heard, p.decoded)
<1>1. table' = [table EXCEPT ![d] = With(@, p.source, new)]
  BY DEF Update, heard
<1>2. CASE d = e /\ n = p.source
  <2>1. InfoOf(d, n) = table[e][n] /\ DOMAIN table[e][n] = Fields
    BY <1>2 DEF InfoOf, IInv, TableOK
  <2>2. DOMAIN heard = Fields /\ heard.last_heard = now
        /\ heard.long_name = table[e][n].long_name
    BY <2>1, <1>2, BlankFacts
  <2> HIDE DEF heard
  <2>3. new.last_heard = now
        /\ (table[e][n].long_name # Nothing => new.long_name # Nothing)
    BY <2>2, WithDataFacts
  <2> HIDE DEF new
  <2>4. table'[e][n] = new
    BY <1>1, <1>2 DEF With, IInv
  <2> QED
    BY <2>3, <2>4 DEF HeardAgain
<1>3. CASE ~(d = e /\ n = p.source)
  <2> HIDE DEF new
  <2> QED
    BY <1>1, <1>3 DEF With, IInv, Kept
<1> QED
  BY <1>2, <1>3

LEMMA ImportStep ==
  ASSUME IInv, NEW d \in DBs, NEW f \in DBs, Import(d, f),
         NEW e \in DBs, NEW n \in DOMAIN table[e]
  PROVE  Kept(e, n) \/ Replaced(e, n)
<1>1. table' = [table EXCEPT ![d] = Merge(@, file[f])] /\ file[f] # None
  BY DEF Import
<1>2. CASE d # e
  BY <1>1, <1>2 DEF Kept
<1>3. CASE d = e
  <2>1. table'[e][n] = Merge(table[e], file[f])[n]
    BY <1>1, <1>3 DEF IInv
  <2>2. \/ Merge(table[e], file[f])[n] = table[e][n]
        \/ /\ n \in DOMAIN file[f]
           /\ Merge(table[e], file[f])[n] = FromDict(file[f][n])
           /\ ~(FromDict(file[f][n]).last_heard <= table[e][n].last_heard)
    BY DEF Merge
  <2>3. CASE Merge(table[e], file[f])[n] = table[e][n]
    BY <2>1, <2>3 DEF Kept
  <2>4. CASE /\ n \in DOMAIN file[f]
             /\ Merge(table[e], file[f])[n] = FromDict(file[f][n])
             /\ ~(FromDict(file[f][n]).last_heard <= table[e][n].last_heard)
    <3>1. FromDict(file[f][n]).last_heard \in {0, file[f][n].last_heard}
      BY FromDictFacts
    <3>2. file[f][n].last_heard \in 0 .. now /\ table[e][n].last_heard \in 0 .. now
      BY <1>1, <2>4 DEF IInv, TableOK, FileOK
    <3>3. FromDict(file[f][n]).last_heard > table[e][n].last_heard
          /\ file[f][n].last_heard > table[e][n].last_heard
      BY <2>4, <3>1, <3>2 DEF IInv
    <3> QED
      BY <1>1, <2>1, <2>4, <3>3 DEF Replaced
  <2> QED
    BY <2>2, <2>3, <2>4
<1> QED
  BY <1>2, <1>3

LEMMA StepCases ==
  ASSUME IInv, [Next]_vars, NEW e \in DBs, NEW n \in DOMAIN table[e] \intersect DOMAIN table'[e]
  PROVE  Kept(e, n) \/ HeardAgain(e, n) \/ Replaced(e, n)
<1>1. ASSUME NEW d \in DBs, NEW p \in Inbound[d], Update(d, p)
      PROVE  Kept(e, n) \/ HeardAgain(e, n)
  BY <1>1, UpdateStep
<1>2. ASSUME NEW d \in DBs, NEW f \in DBs, Import(d, f)
      PROVE  Kept(e, n) \/ Replaced(e, n)
  BY <1>2, ImportStep
<1>3. ASSUME NEW d \in DBs, NEW m \in Addresses, GetOrCreate(d, m)
      PROVE  Kept(e, n)
  BY <1>3 DEF GetOrCreate, With, Kept, IInv
<1>4. ASSUME NEW d \in DBs, ExpireStale(d) \/ Clear(d)
      PROVE  Kept(e, n)
  <2>1. CASE ExpireStale(d)
    BY <2>1 DEF ExpireStale, Restrict, Kept, IInv
  <2>2. CASE Clear(d)
    BY <2>2 DEF Clear, Empty, Kept, IInv
  <2> QED
    BY <1>4, <2>1, <2>2
<1>5. ASSUME NEW d \in DBs, Export(d) \/ ExportCutShort(d) PROVE Kept(e, n)
  BY <1>5 DEF Export, ExportCutShort, Kept
<1>6. ASSUME Tick \/ UNCHANGED vars PROVE Kept(e, n)
  BY <1>6 DEF Tick, vars, Kept
<1> QED
  BY <1>1, <1>2, <1>3, <1>4, <1>5, <1>6 DEF Next

(* nodedb.py 214, 330-333: a record that stays never grows older.          *)
THEOREM RecordsNeverGrowOlder == Spec => HeardNeverFalls
<1>1. ASSUME IInv, [Next]_vars, NEW d \in DBs,
             NEW n \in DOMAIN table[d] \intersect DOMAIN table'[d]
      PROVE  table'[d][n].last_heard >= table[d][n].last_heard
  <2>1. table[d][n].last_heard \in 0 .. now /\ now \in Nat
    BY <1>1 DEF IInv, TableOK
  <2>2. table'[d][n].last_heard \in 0 .. now'
    BY <1>1, NextInv DEF IInv, TableOK
  <2>3. Kept(d, n) \/ HeardAgain(d, n) \/ Replaced(d, n)
    BY <1>1, StepCases
  <2> QED
    BY <2>1, <2>2, <2>3, <1>1 DEF Kept, HeardAgain, Replaced
<1>2. IInv /\ [Next]_vars =>
        [\A d \in DBs : \A n \in DOMAIN table[d] \intersect DOMAIN table'[d] :
           table'[d][n].last_heard >= table[d][n].last_heard]_vars
  BY <1>1
<1> QED
  BY <1>2, InitInv, NextInv, PTL DEF Spec, HeardNeverFalls

(* nodedb.py 244, 333: a name is lost only with its node, or to a record   *)
(* that was heard later.                                                   *)
THEOREM NamesLostOnlyToNewer == Spec => OnlyNewerImportForgets
<1>1. ASSUME IInv, [Next]_vars, NEW d \in DBs,
             NEW n \in DOMAIN table[d] \intersect DOMAIN table'[d],
             table[d][n].long_name # Nothing, table'[d][n].long_name = Nothing
      PROVE  \E f \in DBs :
               /\ file[f] # None
               /\ n \in DOMAIN file[f]
               /\ file[f][n].last_heard > table[d][n].last_heard
  BY <1>1, StepCases DEF Kept, HeardAgain, Replaced
<1>2. IInv /\ [Next]_vars =>
        [\A d \in DBs : \A n \in DOMAIN table[d] \intersect DOMAIN table'[d] :
           table[d][n].long_name # Nothing /\ table'[d][n].long_name = Nothing =>
             \E f \in DBs :
               /\ file[f] # None
               /\ n \in DOMAIN file[f]
               /\ file[f][n].last_heard > table[d][n].last_heard]_vars
  BY <1>1
<1> QED
  BY <1>2, InitInv, NextInv, PTL DEF Spec, OnlyNewerImportForgets

-----------------------------------------------------------------------------
(* A record of a table is a NodeInfo whose position, if it has one, is a   *)
(* whole one; a file is made of such records.  What is written and read    *)
(* again is then what it was.                                              *)
Whole(r, blank) == r = [f \in DOMAIN blank |-> r[f]]

PositionOK(p) == p = None \/ (Whole(p, BlankPosition) /\ Dict(p, BlankPosition, {}) # None)

InfoOK(info) == Whole(info, Blank) /\ PositionOK(info.position)

RecordsOK(t) == \A n \in DOMAIN t : InfoOK(t[n])

Genuine(f) == \A n \in DOMAIN f : \E info : InfoOK(info) /\ f[n] = ToDict(info)

WInv ==
  /\ \A d \in DBs : RecordsOK(table[d])
  /\ \A d \in DBs : file[d] # None => Genuine(file[d])

LEMMA DictFilled ==
  ASSUME NEW blank, NEW r, NEW S, Whole(r, blank)
  PROVE  Filled(Dict(r, blank, S), blank) = r
<1> DEFINE d == Dict(r, blank, S)
<1>1. DOMAIN r = DOMAIN blank
  BY DEF Whole
<1>2. /\ DOMAIN d = {f \in DOMAIN r : f \in S \/ r[f] # blank[f]}
      /\ \A f \in DOMAIN d : d[f] = r[f]
  BY DEF Dict, Restrict
<1> HIDE DEF d
<1>3. Filled(d, blank) = [f \in DOMAIN blank |-> r[f]]
  BY <1>1, <1>2 DEF Filled
<1> QED
  BY <1>3 DEF Whole, d

LEMMA RoundTrip ==
  ASSUME NEW info, InfoOK(info)
  PROVE  FromDict(ToDict(info)) = info
<1> DEFINE d == Dict(info, Blank, {"last_heard", "rssi"})
           P == Dict(info.position, BlankPosition, {})
<1>1. Whole(info, Blank) /\ Filled(d, Blank) = info /\ DOMAIN info = Fields
  BY DictFilled DEF InfoOK, Whole, Fields
<1>2. CASE info.position = None
  <2>1. ToDict(info) = d
    BY <1>2 DEF ToDict
  <2> HIDE DEF d
  <2> QED
    BY <1>1, <1>2, <2>1 DEF FromDict
<1>3. CASE info.position # None
  <2> DEFINE w == [d EXCEPT !.position = P]
             i == [info EXCEPT !.position = P]
  <2>1. ToDict(info) = w
    BY <1>3 DEF ToDict
  <2>2. P # None /\ Filled(P, BlankPosition) = info.position
    BY <1>3, DictFilled DEF InfoOK, PositionOK
  <2>3. "position" \in DOMAIN d /\ DOMAIN d \subseteq Fields
        /\ \A f \in Fields : (f \in DOMAIN d => d[f] = info[f]) /\ (f \notin DOMAIN d => Blank[f] = info[f])
    <3>1. Blank.position = None /\ "position" \in Fields
      BY BlankFacts DEF Blank
    <3> QED
      BY <1>1, <1>3, <3>1 DEF Dict, Restrict
  <2> HIDE DEF d, P
  <2>4. DOMAIN w = DOMAIN d /\ w.position = P /\ \A f \in DOMAIN d : f # "position" => w[f] = d[f]
    BY <2>3
  <2>5. DOMAIN i = Fields /\ i.position = P /\ \A f \in Fields : f # "position" => i[f] = info[f]
    BY <1>1, BlankFacts
  <2>6. Filled(w, Blank) = [f \in Fields |-> i[f]]
    <3>1. \A f \in Fields : (IF f \in DOMAIN w THEN w[f] ELSE Blank[f]) = i[f]
      BY <2>3, <2>4, <2>5
    <3> HIDE DEF w, i
    <3> QED
      BY <3>1 DEF Filled, Fields
  <2>7. Filled(w, Blank) = i
    BY <1>1, <2>6
  <2>8. FromDict(w) = [i EXCEPT !.position = info.position]
    <3> HIDE DEF w, i
    <3> QED
      BY <2>2, <2>5, <2>7 DEF FromDict
  <2>9. [i EXCEPT !.position = info.position] = info
    BY <1>1, <2>5 DEF Whole
  <2> QED
    BY <2>1, <2>8, <2>9
<1> QED
  BY <1>2, <1>3

(* What a packet tells keeps a record whole.                               *)
LEMMA WithDataOK ==
  ASSUME NEW d \in DBs, NEW p \in Inbound[d], NEW info, InfoOK(info)
  PROVE  InfoOK(WithData(info, p.decoded))
<1> DEFINE data == p.decoded
           u == DecodeUser(data.payload)
           pos == DecodePosition(data.payload)
           tell == [info EXCEPT
                      !.long_name = IF u.long_name = Nothing THEN @ ELSE u.long_name,
                      !.hw_model = IF u.hw_model = 0 THEN @ ELSE u.hw_model,
                      !.is_licensed = u.is_licensed]
<1>1. Whole(info, Blank) /\ PositionOK(info.position) /\ DOMAIN info = Fields
  BY DEF InfoOK, Whole, Fields
<1>2. \/ WithData(info, data) = info
      \/ /\ data # None /\ data.payload \notin {Nothing, Garbage} /\ data.portnum = 3
         /\ WithData(info, data) = [info EXCEPT !.position = pos]
      \/ WithData(info, data) = tell
  BY DEF WithData
<1>3. CASE WithData(info, data) = tell
  <2>1. Whole(tell, Blank) /\ tell.position = info.position
    <3> HIDE DEF u
    <3> QED
      BY <1>1, BlankFacts DEF Whole, Fields
  <2> QED
    BY <1>1, <1>3, <2>1 DEF InfoOK
<1>4. CASE /\ data # None /\ data.payload \notin {Nothing, Garbage} /\ data.portnum = 3
           /\ WithData(info, data) = [info EXCEPT !.position = pos]
  <2>1. Dict(pos, BlankPosition, {}) # None
    BY <1>4, PositionAssumption
  <2>2. Whole(pos, BlankPosition)
    BY DEF Whole, DecodePosition, BlankPosition
  <2>3. PositionOK(pos)
    BY <2>1, <2>2 DEF PositionOK
  <2> HIDE DEF pos
  <2>4. Whole([info EXCEPT !.position = pos], Blank) /\ [info EXCEPT !.position = pos].position = pos
    BY <1>1, BlankFacts DEF Whole, Fields
  <2> QED
    BY <1>4, <2>3, <2>4 DEF InfoOK
<1>5. CASE WithData(info, data) = info
  BY <1>5
<1> QED
  BY <1>2, <1>3, <1>4, <1>5

LEMMA BlankOK == InfoOK(Blank)
  BY DEF InfoOK, Whole, PositionOK, Blank

LEMMA WholeNext == IInv /\ WInv /\ [Next]_vars => WInv'
<1> SUFFICES ASSUME IInv, WInv, [Next]_vars PROVE WInv'
  OBVIOUS
<1>1. ASSUME NEW d \in DBs, NEW t, RecordsOK(t), table' = [table EXCEPT ![d] = t], file' = file
      PROVE  WInv'
  BY <1>1 DEF WInv, IInv
<1>2. ASSUME NEW d \in DBs, NEW p \in Inbound[d], Update(d, p) PROVE WInv'
  <2> DEFINE heard == [InfoOf(d, p.source) EXCEPT !.last_heard = now, !.rssi = p.rssi]
             new == WithData(heard, p.decoded)
  <2>1. table' = [table EXCEPT ![d] = With(table[d], p.source, new)] /\ file' = file
    BY <1>2 DEF Update
  <2>2. InfoOK(InfoOf(d, p.source))
    BY BlankOK DEF InfoOf, WInv, RecordsOK
  <2>3. InfoOK(heard)
    <3> DEFINE i == InfoOf(d, p.source)
    <3>1. Whole(i, Blank) /\ DOMAIN i = Fields /\ PositionOK(i.position)
      BY <2>2 DEF InfoOK, Whole, Fields
    <3> HIDE DEF i
    <3>2. Whole(heard, Blank) /\ heard.position = i.position
      BY <3>1, BlankFacts DEF Whole, Fields, i
    <3> QED
      BY <3>1, <3>2 DEF InfoOK
  <2> HIDE DEF heard
  <2>4. InfoOK(new)
    BY <2>3, WithDataOK
  <2> HIDE DEF new
  <2>5. RecordsOK(With(table[d], p.source, new))
    BY <2>4 DEF With, WInv, RecordsOK
  <2> QED
    BY <1>1, <2>1, <2>5
<1>3. ASSUME NEW d \in DBs, NEW n \in Addresses, GetOrCreate(d, n) PROVE WInv'
  <2>1. RecordsOK(With(table[d], n, Blank))
    BY BlankOK DEF With, WInv, RecordsOK
  <2> QED
    BY <1>1, <1>3, <2>1 DEF GetOrCreate
<1>4. ASSUME NEW d \in DBs, ExpireStale(d) \/ Clear(d) PROVE WInv'
  <2>1. RecordsOK(Restrict(table[d], Survivors(table[d])))
    BY DEF Restrict, Survivors, WInv, RecordsOK
  <2>2. RecordsOK(Empty)
    BY DEF Empty, RecordsOK
  <2> QED
    BY <1>1, <1>4, <2>1, <2>2 DEF ExpireStale, Clear
<1>5. ASSUME NEW d \in DBs, Export(d) \/ ExportCutShort(d) PROVE WInv'
  <2> DEFINE written == [n \in DOMAIN table[d] |-> ToDict(table[d][n])]
  <2>1. Genuine(written)
    BY DEF Genuine, WInv, RecordsOK
  <2>2. table' = table /\ (file' = [file EXCEPT ![d] = written] \/ file' = [file EXCEPT ![d] = None])
    BY <1>5 DEF Export, ExportCutShort
  <2> HIDE DEF written
  <2> QED
    BY <2>1, <2>2 DEF WInv, IInv
<1>6. ASSUME NEW d \in DBs, NEW f \in DBs, Import(d, f) PROVE WInv'
  <2>1. \A n \in DOMAIN file[f] : InfoOK(FromDict(file[f][n]))
    BY <1>6, RoundTrip DEF Import, WInv, Genuine
  <2>2. RecordsOK(Merge(table[d], file[f]))
    BY <2>1 DEF Merge, WInv, RecordsOK
  <2> QED
    BY <1>1, <1>6, <2>2 DEF Import
<1>7. CASE Tick \/ UNCHANGED vars
  BY <1>7 DEF Tick, vars, WInv
<1> QED
  BY <1>2, <1>3, <1>4, <1>5, <1>6, <1>7 DEF Next

(* A merge of what another table wrote is a merge of that table.           *)
Fresher(t, u) ==
  [n \in DOMAIN t \union DOMAIN u |->
     IF n \in DOMAIN t /\ (n \in DOMAIN u => u[n].last_heard <= t[n].last_heard)
     THEN t[n] ELSE u[n]]

LEMMA MergeWritten ==
  ASSUME NEW t, NEW u, RecordsOK(u)
  PROVE  Merge(t, Written(u)) = Fresher(t, u)
<1> DEFINE w == Written(u)
<1>1. DOMAIN w = DOMAIN u /\ \A n \in DOMAIN u : FromDict(w[n]) = u[n]
  BY RoundTrip DEF Written, RecordsOK
<1> HIDE DEF w
<1>2. Merge(t, w) = Fresher(t, u)
  BY <1>1 DEF Merge, Fresher
<1> QED
  BY <1>2 DEF w

LEMMA Converge ==
  ASSUME NEW t, NEW u, RecordsOK(t), RecordsOK(u),
         \A n \in DOMAIN t : t[n].last_heard \in Nat,
         \A n \in DOMAIN u : u[n].last_heard \in Nat
  PROVE  LET one == Merge(t, Written(u))
             two == Merge(u, Written(one))
         IN  /\ DOMAIN one = DOMAIN two
             /\ Merge(one, Written(two)) = one
             /\ \A n \in DOMAIN one :
                  /\ one[n].last_heard = two[n].last_heard
                  /\ \/ one[n] = two[n]
                     \/ /\ n \in DOMAIN t /\ n \in DOMAIN u
                        /\ t[n].last_heard = u[n].last_heard
<1> DEFINE one == Fresher(t, u)
           two == Fresher(u, one)
<1>1. /\ DOMAIN one = DOMAIN t \union DOMAIN u
      /\ \A n \in DOMAIN one :
           one[n] = IF n \in DOMAIN t /\ (n \in DOMAIN u => u[n].last_heard <= t[n].last_heard)
                    THEN t[n] ELSE u[n]
  BY DEF Fresher
<1>2. RecordsOK(one) /\ \A n \in DOMAIN one : one[n].last_heard \in Nat
  BY <1>1 DEF RecordsOK
<1>3. /\ DOMAIN two = DOMAIN u \union DOMAIN one
      /\ \A n \in DOMAIN two :
           two[n] = IF n \in DOMAIN u /\ (n \in DOMAIN one => one[n].last_heard <= u[n].last_heard)
                    THEN u[n] ELSE one[n]
  BY DEF Fresher
<1>4. RecordsOK(two) /\ \A n \in DOMAIN two : two[n].last_heard \in Nat
  <2> HIDE DEF one
  <2> QED
    BY <1>2, <1>3 DEF RecordsOK
<1>5. one = Merge(t, Written(u)) /\ two = Merge(u, Written(one))
      /\ Merge(one, Written(two)) = Fresher(one, two)
  <2>1. Fresher(u, one) = Merge(u, Written(one))
    BY <1>2, MergeWritten
  <2>2. Fresher(one, two) = Merge(one, Written(two))
    BY <1>4, MergeWritten
  <2> QED
    BY <2>1, <2>2, MergeWritten
<1>6. Whole(one, one)
  BY DEF Whole, Fresher
<1> HIDE DEF one, two
<1>7. DOMAIN one = DOMAIN two
  BY <1>1, <1>3
<1>8. ASSUME NEW n \in DOMAIN one
      PROVE  /\ one[n].last_heard = two[n].last_heard
             /\ \/ one[n] = two[n]
                \/ /\ n \in DOMAIN t /\ n \in DOMAIN u
                   /\ t[n].last_heard = u[n].last_heard
  BY <1>1, <1>2, <1>3, <1>7
<1>9. Fresher(one, two) = one
  <2>1. \A n \in DOMAIN one : two[n].last_heard <= one[n].last_heard
    BY <1>2, <1>8
  <2>2. Fresher(one, two) = [n \in DOMAIN one |-> one[n]]
    BY <1>7, <2>1 DEF Fresher
  <2> QED
    BY <1>6, <2>2 DEF Whole
<1> QED
  BY <1>5, <1>7, <1>8, <1>9

(* nodedb.py 274-335: an import in each direction makes two databases      *)
(* agree on what each knows of every node, whatever they were told before  *)
(* and whatever the records leave out, unless both heard it at the same    *)
(* time; and importing what one just exported changes nothing.             *)
THEOREM ImportsMakeEqual == Spec => []ImportsConverge
<1>1. Init => WInv
  BY DEF Init, WInv, Empty, RecordsOK
<1>2. Spec => []WInv
  BY <1>1, InitInv, NextInv, WholeNext, PTL DEF Spec
<1>3. ASSUME IInv, WInv, NEW c \in DBs, NEW d \in DBs
      PROVE  LET one == Merge(table[c], Written(table[d]))
                 two == Merge(table[d], Written(one))
             IN  /\ DOMAIN one = DOMAIN two
                 /\ Merge(one, Written(two)) = one
                 /\ \A n \in DOMAIN one :
                      /\ one[n].last_heard = two[n].last_heard
                      /\ \/ one[n] = two[n]
                         \/ /\ n \in DOMAIN table[c] /\ n \in DOMAIN table[d]
                            /\ table[c][n].last_heard = table[d][n].last_heard
  <2>1. RecordsOK(table[c]) /\ RecordsOK(table[d])
    BY <1>3 DEF WInv
  <2>2. \A e \in DBs : \A n \in DOMAIN table[e] : table[e][n].last_heard \in Nat
    BY <1>3 DEF IInv, TableOK
  <2> QED
    BY <2>1, <2>2, Converge
<1>4. IInv /\ WInv => ImportsConverge
  BY <1>3 DEF ImportsConverge
<1> QED
  BY <1>2, <1>4, InitInv, NextInv, PTL DEF Spec
===============================================================================
