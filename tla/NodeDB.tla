-------------------------------- MODULE NodeDB --------------------------------
(***************************************************************************)
(* NodeDB (src/src/protocol/nodedb.py): the table of known nodes, fed by   *)
(* received packets, expired, exported to JSON and merged from JSON.       *)
(* Several databases, each with the file it exports to; any of them may    *)
(* import any file.  Times are those of one clock that starts at 1.        *)
(*                                                                         *)
(* A NodeInfo is a record of the fields in Blank; SNR, hop limit, role and *)
(* the other names go the way of the fields kept, and packet_count is a    *)
(* statistic.                                                              *)
(***************************************************************************)
EXTENDS Packets, Functions

CONSTANTS
  Addresses,   (* node ids                                                 *)
  NotNodes,    (* 0 and 0xFFFFFFFF                                         *)
  DBs,         (* the databases, and the files they export to              *)
  Inbound,     (* Inbound[d]: the packets d may receive                    *)
  Garbage,     (* a payload that does not parse                            *)
  EXPIRY,      (* _expiry_seconds                                          *)
  STALE        (* DEFAULT_NODE_EXPIRY_SECONDS, which is_stale uses         *)

ASSUME NodeDBAssumption ==
  /\ Addresses \intersect NotNodes = {}
  /\ \A d \in DBs : \A p \in Inbound[d] : p.source \in Addresses \union NotNodes
  /\ EXPIRY \in Nat /\ STALE \in Nat

VARIABLES
  now,      (* time.time()                                                 *)
  table,    (* _nodes of each database: address -> NodeInfo                *)
  file,     (* the last export, or None: there is none, or it is cut short *)
  heardAt   (* when any database last heard a node, 0 if none did          *)

vars == <<now, table, file, heardAt>>

Blank ==
  [long_name |-> Nothing, hw_model |-> 0, is_licensed |-> FALSE,
   position |-> None, last_heard |-> 0, rssi |-> 0]

BlankPosition == [latitude |-> None, altitude |-> None, time |-> 0]

Empty == [n \in {} |-> Blank]

Init ==
  /\ now = 1
  /\ table = [d \in DBs |-> Empty]
  /\ file = [d \in DBs |-> None]
  /\ heardAt = [n \in Addresses |-> 0]

-----------------------------------------------------------------------------
(* to_dict and from_dict: what equals its default is left out of the file, *)
(* but for the fields always written; what is missing is the default.      *)
Dict(rec, blank, always) ==
  Restrict(rec, {f \in DOMAIN rec : f \in always \/ rec[f] # blank[f]})

Filled(dict, blank) ==
  [f \in DOMAIN blank |-> IF f \in DOMAIN dict THEN dict[f] ELSE blank[f]]

ToDict(info) ==
  LET d == Dict(info, Blank, {"last_heard", "rssi"})
  IN  IF info.position = None THEN d
      ELSE [d EXCEPT !.position = Dict(info.position, BlankPosition, {})]

(* A reader that ignores the flag, which is written only when set.         *)
MutFromDict(dict) ==
  LET i == [Filled(dict, Blank) EXCEPT !.is_licensed = FALSE]
  IN  IF i.position = None THEN i
      ELSE [i EXCEPT !.position = Filled(i.position, BlankPosition)]

(* A record read from a file counts as heard when it is read.              *)
MutFromDictNow(dict) == [Filled(dict, Blank) EXCEPT !.last_heard = now]

FromDict(dict) ==
  LET i == Filled(dict, Blank)
  IN  IF i.position = None THEN i
      ELSE [i EXCEPT !.position = Filled(i.position, BlankPosition)]

(* A position that was received is written as a dictionary, an empty one   *)
(* perhaps, and a dictionary is not Python's None.                         *)
ASSUME PositionAssumption ==
  \A d \in DBs : \A p \in Inbound[d] :
    p.decoded # None /\ p.decoded.payload \notin {Nothing, Garbage} /\ p.decoded.portnum = 3 =>
      Dict(DecodePosition(p.decoded.payload), BlankPosition, {}) # None

-----------------------------------------------------------------------------
(* _update_from_data: a position replaces the one before; a User message   *)
(* replaces the name and the model only if it has them, the licence always.*)
WithData(info, data) ==
  IF data = None THEN info
  ELSE IF data.payload \in {Nothing, Garbage} THEN info
  ELSE IF data.portnum = 3
       THEN [info EXCEPT !.position = DecodePosition(data.payload)]
  ELSE IF data.portnum = 4
       THEN LET u == DecodeUser(data.payload)
            IN  [info EXCEPT
                   !.long_name = IF u.long_name = Nothing THEN @ ELSE u.long_name,
                   !.hw_model = IF u.hw_model = 0 THEN @ ELSE u.hw_model,
                   !.is_licensed = u.is_licensed]
  ELSE info

InfoOf(d, n) == IF n \in DOMAIN table[d] THEN table[d][n] ELSE Blank

With(t, n, info) == [m \in DOMAIN t \union {n} |-> IF m = n THEN info ELSE t[m]]

(* A name that a later message without one takes away.                     *)
MutUpdate(d, p) ==
  /\ p.source \in Addresses
  /\ LET heard == [InfoOf(d, p.source) EXCEPT !.last_heard = now, !.rssi = p.rssi,
                                              !.long_name = Nothing]
     IN  table' = [table EXCEPT ![d] = With(@, p.source, WithData(heard, p.decoded))]
  /\ heardAt' = [heardAt EXCEPT ![p.source] = now]
  /\ UNCHANGED <<now, file>>

(* A table with entries for 0 and broadcast.                               *)
MutUpdateAny(d, p) ==
  /\ LET heard == [InfoOf(d, p.source) EXCEPT !.last_heard = now, !.rssi = p.rssi]
     IN  table' = [table EXCEPT ![d] = With(@, p.source, WithData(heard, p.decoded))]
  /\ heardAt' = [heardAt EXCEPT ![p.source] = now]
  /\ UNCHANGED <<now, file>>

(* update_from_packet; a packet whose source is no node changes nothing.   *)
Update(d, p) ==
  /\ p.source \in Addresses
  /\ LET heard == [InfoOf(d, p.source) EXCEPT !.last_heard = now, !.rssi = p.rssi]
     IN  table' = [table EXCEPT ![d] = With(@, p.source, WithData(heard, p.decoded))]
  /\ heardAt' = [heardAt EXCEPT ![p.source] = now]
  /\ UNCHANGED <<now, file>>

(* get_or_create, called by itself: an entry that was never heard.         *)
GetOrCreate(d, n) ==
  /\ n \notin DOMAIN table[d]
  /\ table' = [table EXCEPT ![d] = With(@, n, Blank)]
  /\ UNCHANGED <<now, file, heardAt>>

-----------------------------------------------------------------------------
(* is_stale, which get_all_nodes and summary filter by.                    *)
IsStale(info) == info.last_heard = 0 \/ now - info.last_heard > STALE

(* An expiry that takes a node heard exactly that long ago.                *)
MutIsExpired(info) == info.last_heard > 0 /\ info.last_heard <= now - EXPIRY

IsExpired(info) == info.last_heard > 0 /\ info.last_heard < now - EXPIRY

Survivors(t) == {n \in DOMAIN t : ~IsExpired(t[n])}

ExpireStale(d) ==
  /\ Survivors(table[d]) # DOMAIN table[d]
  /\ table' = [table EXCEPT ![d] = Restrict(@, Survivors(@))]
  /\ UNCHANGED <<now, file, heardAt>>

(* clear, or a process that begins with a new database.                    *)
Clear(d) ==
  /\ table' = [table EXCEPT ![d] = Empty]
  /\ UNCHANGED <<now, file, heardAt>>

(* export_json writes in place.                                            *)
Export(d) ==
  /\ file' = [file EXCEPT ![d] = [n \in DOMAIN table[d] |-> ToDict(table[d][n])]]
  /\ UNCHANGED <<now, table, heardAt>>

(* The process ends, or the disk is full, while the file is written.       *)
ExportCutShort(d) ==
  /\ file' = [file EXCEPT ![d] = None]
  /\ UNCHANGED <<now, table, heardAt>>

(* Last writer wins, whatever the records say.                             *)
MutMerge(t, dicts) ==
  [n \in DOMAIN t \union DOMAIN dicts |->
     IF n \in DOMAIN dicts THEN FromDict(dicts[n]) ELSE t[n]]

(* A record of the file replaces the one in the table, as a whole, if that *)
(* is missing or was heard earlier.                                        *)
Merge(t, dicts) ==
  [n \in DOMAIN t \union DOMAIN dicts |->
     IF n \in DOMAIN t
        /\ (n \in DOMAIN dicts => FromDict(dicts[n]).last_heard <= t[n].last_heard)
     THEN t[n] ELSE FromDict(dicts[n])]

(* import_json; json.load raises on a file that is absent or cut short.    *)
Import(d, f) ==
  /\ file[f] # None
  /\ table' = [table EXCEPT ![d] = Merge(@, file[f])]
  /\ UNCHANGED <<now, file, heardAt>>

Tick == now' = now + 1 /\ UNCHANGED <<table, file, heardAt>>

Next ==
  \/ \E d \in DBs :
       \/ \E p \in Inbound[d] : Update(d, p)
       \/ \E n \in Addresses : GetOrCreate(d, n)
       \/ ExpireStale(d) \/ Clear(d) \/ Export(d) \/ ExportCutShort(d)
       \/ \E f \in DBs : Import(d, f)
  \/ Tick

Spec == Init /\ [][Next]_vars

-----------------------------------------------------------------------------
(* Types; of a record, what the merge decides by.                          *)
TypeOK ==
  /\ now \in Nat \ {0}
  /\ heardAt \in [Addresses -> 0 .. now]
  /\ \A d \in DBs :
       /\ DOMAIN table[d] \subseteq Addresses
       /\ \A n \in DOMAIN table[d] :
            DOMAIN table[d][n] = DOMAIN Blank /\ table[d][n].last_heard \in 0 .. now
       /\ file[d] # None =>
            /\ DOMAIN file[d] \subseteq Addresses
            /\ \A n \in DOMAIN file[d] : file[d][n].last_heard \in 0 .. now

(* However tables are exported, merged and exported again, no copy of a    *)
(* record is fresher than the last packet anybody heard from that node     *)
(* (214 is the only source of last_heard; 332 compares it).                *)
HeardIsGenuine ==
  \A d \in DBs :
    /\ \A n \in DOMAIN table[d] : table[d][n].last_heard <= heardAt[n]
    /\ file[d] # None => \A n \in DOMAIN file[d] : file[d][n].last_heard <= heardAt[n]

(* A node that stays in a database is never recorded as heard earlier than *)
(* it was: "merge: keep the more recent data" (330).                       *)
HeardNeverFalls ==
  [][\A d \in DBs : \A n \in DOMAIN table[d] \intersect DOMAIN table'[d] :
       table'[d][n].last_heard >= table[d][n].last_heard]_vars

(* A name once learnt is lost only with its node, or by the import of a    *)
(* record heard later by a database that had not learnt it (333): not by   *)
(* packets (244), nor by an import of what is no news.                     *)
OnlyNewerImportForgets ==
  [][\A d \in DBs : \A n \in DOMAIN table[d] \intersect DOMAIN table'[d] :
       table[d][n].long_name # Nothing /\ table'[d][n].long_name = Nothing =>
         \E f \in DBs :
           /\ file[f] # None
           /\ n \in DOMAIN file[f]
           /\ file[f][n].last_heard > table[d][n].last_heard]_vars

(* After an import in each direction, two databases agree on when every    *)
(* node was heard, and on all they know of it unless both heard it at the  *)
(* same time (332: strictly newer); a second import changes nothing.       *)
Written(t) == [n \in DOMAIN t |-> ToDict(t[n])]

ImportsConverge ==
  \A c, d \in DBs :
    LET one == Merge(table[c], Written(table[d]))
        two == Merge(table[d], Written(one))
    IN  /\ DOMAIN one = DOMAIN two
        /\ Merge(one, Written(two)) = one
        /\ \A n \in DOMAIN one :
             /\ one[n].last_heard = two[n].last_heard
             /\ \/ one[n] = two[n]
                \/ /\ n \in DOMAIN table[c] /\ n \in DOMAIN table[d]
                   /\ table[c][n].last_heard = table[d][n].last_heard

(* expire_stale (268) and is_stale (101-103) draw the same line when the   *)
(* expiry is the default: what is listed as active survives, and only what *)
(* was never heard survives while listed as stale.                         *)
ExpiryAgreesWithStale ==
  EXPIRY = STALE =>
    \A d \in DBs : \A n \in DOMAIN table[d] :
      n \in Survivors(table[d]) <=>
        ~IsStale(table[d][n]) \/ table[d][n].last_heard = 0
===============================================================================
