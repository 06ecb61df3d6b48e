--------------------------- MODULE GenesisProofs ---------------------------
(***************************************************************************)
(* A database belongs to one genesis and its registry has the validators   *)
(* of that genesis, for any set of documents and any sequence of starts,   *)
(* errors and crashes.                                                     *)
(*                                                                         *)
(* The order of the writes carries the argument: the hash is the last one, *)
(* so it vouches for the validators, and a root is never stored before it. *)
(***************************************************************************)
EXTENDS Genesis, TLAPS

\* The validators of the documents whose initialisation began.
Begun == UNION {ValidatorsOf(d) : d \in attempted}

\* The first n validators of a document are in the bucket.
Stored(d, n) ==
    \A i \in 1 .. n : /\ Parses(DocOf[d].validators[i].address)
                      /\ AddressOf[DocOf[d].validators[i].address] \in genesisDB.validators

GenesisInv ==
    /\ genesisDB \in [hash : Docs \cup {NoDoc}, validators : SUBSET Begun, root : BOOLEAN]
    /\ phase # "off" => doc \in Docs
    /\ genesisDB.root => genesisDB.hash # NoDoc
    /\ genesisDB.hash # NoDoc => ValidatorsOf(genesisDB.hash) \subseteq genesisDB.validators
    /\ phase \in {"init", "validators"} => genesisDB.hash \in {NoDoc, doc}
    /\ phase \in {"registry", "started"} => genesisDB.hash = doc
    /\ phase \in {"off", "hash", "init"} => put = 0
    /\ phase = "validators" => /\ put \in Nat /\ put <= Len(DocOf[doc].validators)
                               /\ doc \in attempted /\ Stored(doc, put)
    /\ RegistryOfGenesis

\* A step that writes nothing and starts nothing.
LEMMA EndsKeeps ==
    ASSUME GenesisInv, Ends
    PROVE  GenesisInv'
BY DEF GenesisInv, Ends, Begun, RegistryOfGenesis, ValidatorsOf

LEMMA PhasesKeep ==
    ASSUME GenesisInv,
           \/ \E d \in Docs : LoadValidateGenesis(d)
           \/ HashGenesis \/ InitValidatorRegistry \/ FirstBlock
    PROVE  GenesisInv'
<1>1. CASE \E d \in Docs : LoadValidateGenesis(d)
  BY <1>1 DEF GenesisInv, LoadValidateGenesis, Begun, RegistryOfGenesis, ValidatorsOf
<1>2. CASE HashGenesis
  BY <1>2, EndsKeeps DEF GenesisInv, HashGenesis, Begun, RegistryOfGenesis, ValidatorsOf
<1>3. CASE InitValidatorRegistry
  BY <1>3, GenesisAssumption DEF GenesisInv, InitValidatorRegistry, Begun, RegistryOfGenesis, ValidatorsOf
<1>4. CASE FirstBlock
  BY <1>4, GenesisAssumption DEF GenesisInv, FirstBlock, Begun, RegistryOfGenesis, ValidatorsOf
<1> QED  BY <1>1, <1>2, <1>3, <1>4

LEMMA InitKeeps ==
    ASSUME GenesisInv, InitGenesisState
    PROVE  GenesisInv'
<1>1. CASE genesisDB.root
  BY <1>1 DEF GenesisInv, InitGenesisState, Begun, RegistryOfGenesis, ValidatorsOf
<1>2. CASE ~genesisDB.root /\ phase' = "validators"
  <2>1. /\ attempted' = attempted \cup {doc} /\ UNCHANGED <<doc, put, genesisDB, registry>>
        /\ phase = "init"
    BY <1>2 DEF InitGenesisState, Ends
  <2>2. Begun \subseteq Begun'
    BY <2>1 DEF Begun, ValidatorsOf
  <2>3. put = 0 /\ doc \in Docs /\ 0 <= Len(DocOf[doc].validators)
    BY <2>1, GenesisAssumption DEF GenesisInv
  <2> QED  BY <1>2, <2>1, <2>2, <2>3 DEF GenesisInv, RegistryOfGenesis, ValidatorsOf, Stored
<1> QED  BY <1>1, <1>2, EndsKeeps DEF InitGenesisState

LEMMA PutKeeps ==
    ASSUME GenesisInv, PutValidator
    PROVE  GenesisInv'
<1> DEFINE vs == DocOf[doc].validators
           v == vs[put + 1]
<1>1. /\ phase = "validators" /\ put < Len(vs) /\ put \in Nat /\ doc \in Docs
      /\ doc \in attempted /\ Stored(doc, put)
  BY DEF PutValidator, GenesisInv
<1>2. Len(vs) \in Nat /\ DOMAIN vs = 1 .. Len(vs)
  BY <1>1, GenesisAssumption
<1>3. CASE Ends
  BY <1>3, EndsKeeps
<1>4. CASE Parses(v.address) /\ v.keyIsHex
  <2>1. /\ put' = put + 1
        /\ genesisDB' = [genesisDB EXCEPT !.validators = @ \cup {AddressOf[v.address]}]
        /\ UNCHANGED <<phase, doc, registry, attempted>>
    BY <1>4 DEF PutValidator
  <2>2. Begun' = Begun /\ AddressOf[v.address] \in Begun
    <3>1. v \in Range(vs)
      BY <1>1, <1>2 DEF Range
    <3>2. AddressOf[v.address] \in ValidatorsOf(doc)
      BY <1>4, <3>1 DEF ValidatorsOf
    <3> QED  BY <1>1, <2>1, <3>2 DEF Begun, ValidatorsOf
  <2>3. genesisDB' \in [hash : Docs \cup {NoDoc}, validators : SUBSET Begun, root : BOOLEAN]
    BY <2>1, <2>2 DEF GenesisInv
  <2>4. /\ genesisDB'.hash = genesisDB.hash /\ genesisDB'.root = genesisDB.root
        /\ genesisDB'.validators = genesisDB.validators \cup {AddressOf[v.address]}
    BY <2>1 DEF GenesisInv
  <2>5. Stored(doc, put)'
    <3> SUFFICES ASSUME NEW i \in 1 .. put + 1
                 PROVE  Parses(vs[i].address) /\ AddressOf[vs[i].address] \in genesisDB'.validators
      BY <2>1 DEF Stored, Parses
    <3>1. CASE i = put + 1
      BY <1>4, <2>4, <3>1
    <3>2. CASE i \in 1 .. put
      BY <1>1, <2>4, <3>2 DEF Stored
    <3> QED  BY <1>1, <3>1, <3>2
  <2>6. put + 1 \in Nat /\ put + 1 <= Len(vs)
    BY <1>1, <1>2
  <2>7. (phase = "validators" => /\ put \in Nat /\ put <= Len(DocOf[doc].validators)
                                 /\ doc \in attempted /\ Stored(doc, put))'
    BY <1>1, <2>1, <2>5, <2>6
  <2>8. genesisDB.hash # NoDoc => (ValidatorsOf(genesisDB.hash) \subseteq genesisDB.validators)'
    BY <2>4 DEF GenesisInv, ValidatorsOf
  <2>9. RegistryOfGenesis'
    BY <1>1, <2>1 DEF RegistryOfGenesis
  <2> QED  BY <1>1, <2>1, <2>2, <2>3, <2>4, <2>7, <2>8, <2>9 DEF GenesisInv
<1> QED  BY <1>3, <1>4 DEF PutValidator

LEMMA HashKeeps ==
    ASSUME GenesisInv, StoreGenesisHash
    PROVE  GenesisInv'
<1> DEFINE vs == DocOf[doc].validators
<1>1. /\ phase = "validators" /\ put = Len(vs) /\ doc \in Docs /\ doc \in attempted
      /\ Stored(doc, Len(vs)) /\ phase' = "registry"
      /\ genesisDB' = [genesisDB EXCEPT !.hash = doc]
      /\ UNCHANGED <<doc, put, registry, attempted>>
  BY DEF StoreGenesisHash, GenesisInv
<1>2. DOMAIN vs = 1 .. Len(vs)
  BY <1>1, GenesisAssumption
<1>3. ValidatorsOf(doc) \subseteq genesisDB.validators
  BY <1>1, <1>2 DEF ValidatorsOf, Range, Stored
<1>4. Begun' = Begun
  BY <1>1 DEF Begun, ValidatorsOf
<1>5. /\ genesisDB' \in [hash : Docs \cup {NoDoc}, validators : SUBSET Begun, root : BOOLEAN]
      /\ genesisDB'.hash = doc /\ genesisDB'.validators = genesisDB.validators
  BY <1>1 DEF GenesisInv
<1>6. (ValidatorsOf(genesisDB.hash) \subseteq genesisDB.validators)'
  BY <1>1, <1>3, <1>5 DEF ValidatorsOf
<1>7. doc # NoDoc
  BY <1>1, GenesisAssumption
<1> QED  BY <1>1, <1>4, <1>5, <1>6, <1>7 DEF GenesisInv, RegistryOfGenesis

\* Every phase keeps the invariant, and none replaces a stored hash.
LEMMA GenesisStep ==
    ASSUME GenesisInv, [GenesisNext]_genesisVars
    PROVE  /\ GenesisInv'
           /\ genesisDB.hash # NoDoc => genesisDB'.hash = genesisDB.hash
<1>1. GenesisInv'
  <2>1. CASE UNCHANGED genesisVars
    BY <2>1 DEF genesisVars, GenesisInv, Begun, RegistryOfGenesis, ValidatorsOf, Stored, Parses
  <2>2. CASE GenesisNext
    BY <2>2, EndsKeeps, PhasesKeep, InitKeeps, PutKeeps, HashKeeps DEF GenesisNext, Killed
  <2> QED  BY <2>1, <2>2
<1>2. genesisDB.hash # NoDoc => genesisDB'.hash = genesisDB.hash
  <2>1. CASE StoreGenesisHash
    BY <2>1 DEF StoreGenesisHash, GenesisInv
  <2>2. CASE PutValidator
    BY <2>2 DEF PutValidator, Ends, GenesisInv
  <2>3. CASE FirstBlock
    BY <2>3 DEF FirstBlock, GenesisInv
  <2>4. CASE UNCHANGED genesisDB
    BY <2>4
  <2> QED
    BY <2>1, <2>2, <2>3, <2>4 DEF GenesisNext, genesisVars, LoadValidateGenesis,
       HashGenesis, InitGenesisState, InitValidatorRegistry, Killed, Ends
<1> QED  BY <1>1, <1>2

\* A database belongs to one genesis for good, and a started node runs on the
\* document of the stored hash (startup phases 5 to 7).
THEOREM GenesisFixed == GenesisSpec => GenesisIsFixed
<1>1. GenesisInit => GenesisInv
  BY GenesisAssumption DEF GenesisInit, GenesisInv, Begun, RegistryOfGenesis
<1>2. GenesisInv /\ [GenesisNext]_genesisVars => GenesisInv'
  BY GenesisStep
<1>3. GenesisInv /\ [GenesisNext]_genesisVars
         => [genesisDB.hash # NoDoc => genesisDB'.hash = genesisDB.hash]_genesisVars
  BY GenesisStep
<1>4. GenesisInv => (phase = "started" => doc = genesisDB.hash)
  BY DEF GenesisInv
<1> QED  BY <1>1, <1>2, <1>3, <1>4, PTL DEF GenesisSpec, GenesisIsFixed

\* A started node has the validators of its genesis, and no others but those of
\* documents whose initialisation did not get as far as the hash
\* (InitGenesisState, loadValidatorsFromDB).
THEOREM RegistryCorrect == GenesisSpec => []RegistryOfGenesis
<1>1. GenesisInit => GenesisInv
  BY GenesisAssumption DEF GenesisInit, GenesisInv, Begun, RegistryOfGenesis
<1>2. GenesisInv /\ [GenesisNext]_genesisVars => GenesisInv'
  BY GenesisStep
<1>3. GenesisInv => RegistryOfGenesis
  BY DEF GenesisInv
<1> QED  BY <1>1, <1>2, <1>3, PTL DEF GenesisSpec
=============================================================================
