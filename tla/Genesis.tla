------------------------------- MODULE Genesis ------------------------------
(***************************************************************************)
(* How a database comes to belong to a genesis document: startup phases 1  *)
(* to 9, ValidateGenesis and InitGenesisState.  A start runs its phases in *)
(* order and writes the database in several transactions; it can end       *)
(* between any two of them, by an error or a crash, and the operator can   *)
(* start the node again with another document.                             *)
(*                                                                         *)
(* A document is what is decided on.  Texts of addresses are distinguished *)
(* from the addresses they parse to: ValidateGenesis compares texts, and   *)
(* accepts some that do not parse.  The accounts InitGenesisState makes    *)
(* are in a state of its own that is dropped, so they are not modelled.    *)
(***************************************************************************)
EXTENDS Integers, Sequences, SequencesExt

CONSTANTS
    Docs,          \* genesis documents, by name
    DocOf,         \* their contents
    AddressOf,     \* parseAddress on the texts that parse
    NoDoc

\* The validators of a document are a sequence.
ASSUME GenesisAssumption ==
    /\ NoDoc \notin Docs
    /\ \A d \in Docs : LET vs == DocOf[d].validators
                      IN  Len(vs) \in Nat /\ DOMAIN vs = 1 .. Len(vs)

VARIABLES
    phase,       \* where Start is
    doc,         \* Node.genesisDoc
    put,         \* how many validators this start has stored
    genesisDB,   \* genesis_hash, the validators bucket, whether there is a root
    registry,    \* Node.validators
    attempted    \* the documents whose validators were being stored (history)

genesisVars == <<phase, doc, put, genesisDB, registry, attempted>>

GenesisInit ==
    /\ phase = "off" /\ doc = NoDoc /\ put = 0
    /\ genesisDB = [hash |-> NoDoc, validators |-> {}, root |-> FALSE]
    /\ registry = {} /\ attempted = {}

Parses(text) == text \in DOMAIN AddressOf

\* The empty text and short ones are accepted.
validateHexAddress(text) == text # "not hex"

\* The file is there and parses, and has a name and a time.
LoadGenesis(d) == d.chainID # "" /\ d.time # "none"

\* No text occurs twice.
Distinct(texts) == IsInjective(texts)

ValidateGenesis(d) ==
    /\ d.chainID # "" /\ d.time # "far ahead"
    /\ d.validators # <<>>
    /\ Distinct([i \in DOMAIN d.validators |-> d.validators[i].address])
    /\ Distinct([i \in DOMAIN d.validators |-> d.validators[i].pubKey])
    /\ \A v \in Range(d.validators) :
          /\ v.stake >= d.minimumStake /\ v.commission <= 10000
          /\ validateHexAddress(v.address)
    /\ \A a \in Range(d.balances) : validateHexAddress(a)

\* The addresses of the validators that parse.
ValidatorsOf(d) ==
    LET parsed == {v \in Range(DocOf[d].validators) : Parses(v.address)}
    IN  {AddressOf[v.address] : v \in parsed}
-----------------------------------------------------------------------------
\* A start that ends, by an error or with the process.
Ends ==
    /\ phase' = "off" /\ doc' = NoDoc /\ put' = 0 /\ registry' = {}
    /\ UNCHANGED <<genesisDB, attempted>>

Killed == phase # "off" /\ Ends

\* Phases 1 to 4.
LoadValidateGenesis(d) ==
    /\ phase = "off" /\ LoadGenesis(DocOf[d]) /\ ValidateGenesis(DocOf[d])
    /\ phase' = "hash" /\ doc' = d
    /\ UNCHANGED <<put, genesisDB, registry, attempted>>

\* Phases 5 and 6.
HashGenesis ==
    /\ phase = "hash"
    /\ IF genesisDB.hash \notin {NoDoc, doc}
       THEN Ends
       ELSE phase' = "init" /\ UNCHANGED <<doc, put, genesisDB, registry, attempted>>

\* Phase 7: a database with a root is loaded, one without is initialised,
\* unless an account's address does not parse.
InitGenesisState ==
    /\ phase = "init"
    /\ IF genesisDB.root
       THEN phase' = "registry" /\ UNCHANGED <<doc, put, genesisDB, registry, attempted>>
       ELSE IF \A a \in Range(DocOf[doc].balances) : Parses(a)
       THEN /\ phase' = "validators" /\ attempted' = attempted \cup {doc}
            /\ UNCHANGED <<doc, put, genesisDB, registry>>
       ELSE Ends

\* One validator, in a transaction of its own.
PutValidator ==
    LET v == DocOf[doc].validators[put + 1]
    IN  /\ phase = "validators" /\ put < Len(DocOf[doc].validators)
        /\ IF Parses(v.address) /\ v.keyIsHex
           THEN /\ put' = put + 1
                /\ genesisDB' = [genesisDB EXCEPT
                                   !.validators = @ \cup {AddressOf[v.address]}]
                /\ UNCHANGED <<phase, doc, registry, attempted>>
           ELSE Ends

\* Mutant of StoreGenesisHash: the last validator is left out.
StoreGenesisHashEarly ==
    /\ phase = "validators" /\ put >= Len(DocOf[doc].validators) - 1
    /\ genesisDB' = [genesisDB EXCEPT !.hash = doc]
    /\ phase' = "registry"
    /\ UNCHANGED <<doc, put, registry, attempted>>

\* The hash, after which Commit stores the root of no contents.
StoreGenesisHash ==
    /\ phase = "validators" /\ put = Len(DocOf[doc].validators)
    /\ genesisDB' = [genesisDB EXCEPT !.hash = doc]
    /\ phase' = "registry"
    /\ UNCHANGED <<doc, put, registry, attempted>>

\* Phases 8 and 9: loadValidatorsFromDB.
InitValidatorRegistry ==
    /\ phase = "registry"
    /\ phase' = "started" /\ registry' = genesisDB.validators
    /\ UNCHANGED <<doc, put, genesisDB, attempted>>

\* The first block stores a state; module Node has what follows.
FirstBlock ==
    /\ phase = "started" /\ ~ genesisDB.root
    /\ genesisDB' = [genesisDB EXCEPT !.root = TRUE]
    /\ UNCHANGED <<phase, doc, put, registry, attempted>>

GenesisNext ==
    \/ \E d \in Docs : LoadValidateGenesis(d)
    \/ HashGenesis \/ InitGenesisState \/ PutValidator \/ StoreGenesisHash
    \/ InitValidatorRegistry \/ FirstBlock \/ Killed

GenesisSpec == GenesisInit /\ [][GenesisNext]_genesisVars
-----------------------------------------------------------------------------

\* A database belongs to one genesis for good: the stored hash never changes,
\* and a node that has started runs on the document of that hash
\* (startupPhase5_HashGenesis, startupPhase7_InitGenesisState).
GenesisIsFixed ==
    /\ [][genesisDB.hash # NoDoc => genesisDB'.hash = genesisDB.hash]_genesisVars
    /\ [](phase = "started" => doc = genesisDB.hash)

\* A started node knows the validators of its genesis, and any other it knows
\* is of a document whose initialisation began and did not get as far as its
\* hash (InitGenesisState stores validators one transaction at a time).
RegistryOfGenesis ==
    phase = "started" =>
        /\ ValidatorsOf(doc) \subseteq registry
        /\ registry \subseteq UNION {ValidatorsOf(d) : d \in attempted}
=============================================================================
