-------------------------- MODULE DAFFMetadataImpl --------------------------
(***************************************************************************)
(* The metadata of a file (src/src/DAFFMetadataImpl.cpp) and the loading   *)
(* and releasing of its instances by the reader (DAFFReaderImpl.cpp).      *)
(*                                                                         *)
(* A metadata block is a sequence of instances, an instance a sequence of  *)
(* entries [type, name, value].  A key object is named by the instance and *)
(* the entry it was created for; one that is not deleted when the reader   *)
(* closes has leaked.                                                      *)
(***************************************************************************)
EXTENDS Integers, Sequences, FiniteSets

CONSTANTS Names,      \* spellings of key names
          EmptyName,  \* the empty string, one of them
          Upper,      \* spelling -> upper case spelling
          Blocks      \* the metadata blocks of the files

ASSUME UpperAssumption ==
  Upper \in [Names -> Names] /\ \A n \in Names : Upper[Upper[n]] = Upper[n]

KnownTypes == {"DAFF_BOOL", "DAFF_INT", "DAFF_FLOAT", "DAFF_STRING"}

ASSUME BlocksAssumption ==
  Blocks \subseteq Seq(Seq([type : KnownTypes \cup {"unknown"}, name : Names, value : Int]))

VARIABLES block,         \* the metadata block of the file
          m_vpMetadata,  \* the loaded instances: upper case name -> key object
          live,          \* key objects that have been created and not deleted
          state          \* "new" before the first load, then "open", "closed"

mvars == <<block, m_vpMetadata, live, state>>

Instance(i) == block[i]

(* Entries up to the first of an unknown type, where load() gives up. *)
Readable(i) ==
  LET bad == {j \in DOMAIN Instance(i) : Instance(i)[j].type \notin KnownTypes}
  IN  IF bad = {} THEN Len(Instance(i)) ELSE (CHOOSE j \in bad : \A k \in bad : j <= k) - 1

Loads(i) == Readable(i) = Len(Instance(i))

insertKeyOnce(keys, name, object) ==
  [n \in DOMAIN keys \cup {Upper[name]} |->
     IF n = Upper[name] /\ n \notin DOMAIN keys THEN object ELSE keys[n]]

(* insertKey: the upper case name is mapped to the new object; an object
   it was mapped to before is not deleted.                                 *)
insertKey(keys, name, object) ==
  [n \in DOMAIN keys \cup {Upper[name]} |-> IF n = Upper[name] THEN object ELSE keys[n]]

load(i) ==
  LET keys[j \in 0 .. Readable(i)] ==
        IF j = 0 THEN [n \in {} |-> <<0, 0>>]
        ELSE insertKey(keys[j-1], Instance(i)[j].name, <<i, j>>)
  IN  keys[Readable(i)]

Created(i) == {<<i, j>> : j \in 1 .. Readable(i)}

(* Instances before the first that does not load. *)
Intact == LET bad == {i \in DOMAIN block : ~Loads(i)}
          IN  IF bad = {} THEN Len(block) ELSE (CHOOSE i \in bad : \A k \in bad : i <= k) - 1

Owned(instances) == UNION {{instances[i][n] : n \in DOMAIN instances[i]} : i \in DOMAIN instances}

MInit == block \in Blocks /\ m_vpMetadata = <<>> /\ live = {} /\ state = "new"

(* loadMetadata of a block that can be read. *)
LoadSucceeds ==
  /\ state # "open" /\ Intact = Len(block)
  /\ state' = "open"
  /\ m_vpMetadata' = IF block = <<>> THEN <<[n \in {} |-> <<0, 0>>]>>
                     ELSE [i \in DOMAIN block |-> load(i)]
  /\ live' = live \cup UNION {Created(i) : i \in DOMAIN block}
  /\ UNCHANGED block

(* A slip: the instances before the one that fails are not deleted. *)
LoadFailsUntidy ==
  /\ state # "open" /\ Intact < Len(block)
  /\ state' = "closed"
  /\ live' = live \cup UNION {Created(i) : i \in 1 .. Intact + 1}
  /\ UNCHANGED <<block, m_vpMetadata>>

(* An instance with an unknown type: tidyup() deletes the instances before
   it; the instance itself was not yet in the list and stays allocated.    *)
LoadFails ==
  /\ state # "open" /\ Intact < Len(block)
  /\ state' = "closed"
  /\ live' = live \cup ((UNION {Created(i) : i \in 1 .. Intact + 1})
                         \ Owned([i \in 1 .. Intact |-> load(i)]))
  /\ UNCHANGED <<block, m_vpMetadata>>

(* tidyup() deletes the instances, their destructors the keys they map to. *)
Close ==
  /\ state = "open"
  /\ state' = "closed"
  /\ m_vpMetadata' = <<>>
  /\ live' = live \ Owned(m_vpMetadata)
  /\ UNCHANGED block

MNext == LoadSucceeds \/ LoadFails \/ Close

MSpec == MInit /\ [][MNext]_mvars

-----------------------------------------------------------------------------
(* Queries of an instance. *)

NoKey == <<0, 0>>

findKey(keys, name) ==
  IF name = EmptyName \/ Upper[name] \notin DOMAIN keys THEN NoKey ELSE keys[Upper[name]]

hasKey(keys, name) == findKey(keys, name) # NoKey

Entry(object) == block[object[1]][object[2]]

getKeyType(keys, name) == IF hasKey(keys, name) THEN Entry(findKey(keys, name)).type ELSE "none"

getKeyBool(keys, name) ==
  IF getKeyType(keys, name) = "DAFF_BOOL" THEN Entry(findKey(keys, name)).value # 0 ELSE FALSE

getKeyInt(keys, name) ==
  IF getKeyType(keys, name) = "DAFF_INT" THEN Entry(findKey(keys, name)).value ELSE 0

(* An integer is converted. *)
getKeyFloat(keys, name) ==
  IF getKeyType(keys, name) \in {"DAFF_FLOAT", "DAFF_INT"} THEN Entry(findKey(keys, name)).value ELSE 0

(* Any type is formatted. *)
getKeyString(keys, name) ==
  IF hasKey(keys, name) THEN <<getKeyType(keys, name), Entry(findKey(keys, name)).value>> ELSE <<>>

-----------------------------------------------------------------------------
(* In an open file every spelling of a name finds the entry of that name
   that stands last in the instance, with its type and value, and the key
   object that answers has not been deleted.                               *)
LookupIsLastSpelling ==
  \A i \in DOMAIN m_vpMetadata : \A name \in Names \ {EmptyName} :
    LET keys == m_vpMetadata[i]
        same == {j \in DOMAIN (IF block = <<>> THEN <<>> ELSE block[i]) : Upper[block[i][j].name] = Upper[name]}
    IN  IF same = {} THEN getKeyType(keys, name) = "none"
        ELSE LET e == block[i][CHOOSE j \in same : \A k \in same : j >= k]
             IN  /\ findKey(keys, name) \in live
                 /\ getKeyString(keys, name) = <<e.type, e.value>>
                 /\ e.type = "DAFF_INT" => getKeyInt(keys, name) = e.value
                 /\ e.type \in {"DAFF_INT", "DAFF_FLOAT"} => getKeyFloat(keys, name) = e.value
                 /\ getKeyBool(keys, name) = (e.type = "DAFF_BOOL" /\ e.value # 0)

(* Keys of an instance whose name comes back in it, in any spelling. *)
ComesBack(i) ==
  {<<i, j>> : j \in {j \in 1 .. Readable(i) :
     \E k \in j+1 .. Readable(i) : Upper[Instance(i)[k].name] = Upper[Instance(i)[j].name]}}

Leaked ==
  (UNION {ComesBack(i) : i \in 1 .. Intact})
    \cup IF Intact < Len(block) THEN Created(Intact + 1) ELSE {}

(* The keys that are not deleted are, while a file is open, all that were
   read, and once it has been closed or did not load, exactly those whose
   name came back and, where an instance did not load, all keys that were
   read of it; however often the file is opened.                           *)
OnlyKnownKeysLeak ==
  live = CASE state = "new" -> {}
           [] state = "open" -> UNION {Created(i) : i \in DOMAIN block}
           [] state = "closed" -> Leaked
=============================================================================
