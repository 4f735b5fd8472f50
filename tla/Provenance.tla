----------------------------- MODULE Provenance -----------------------------
(***************************************************************************)
(* Signed provenance records (crates/synapse-provenance) and the MCP       *)
(* server's provenance_sign and provenance_verify, which keep one key file *)
(* per agent.  Several servers share the database and the key files.       *)
(* Signatures and hashes are modelled by what they are computed from: a    *)
(* signature is the key with the signed message, a chain hash the document *)
(* with its signature and its parent's hash.                               *)
(***************************************************************************)
EXTENDS Integers, FiniteSets

CONSTANTS PvDocs, PvAgents, PvServers,
          PvMaxSigns     \* bound on calls of provenance_sign

ASSUME ProvAssumption == IsFiniteSet(PvDocs)

VARIABLES pvTable,    \* provenance: document -> record, or NoRec
          pvKeyFile,  \* agent -> key of agents/<agent>.json; "absent", "torn"
          pvKeys,     \* keys generated so far are 1..pvKeys
          pvCall,     \* server -> its provenance_sign call
          pvSigns,
          pvMade,     \* agent -> number of identities made for it
          pvAgain     \* documents whose record was replaced

pvVars == <<pvTable, pvKeyFile, pvKeys, pvCall, pvSigns, pvMade, pvAgain>>

NoRec == [agent |-> "none"]
NoParent == "none"
PvIdle == [at |-> "idle"]
Zeros == <<>>            \* an absent parent hash

ProvInit ==
    /\ pvTable = [d \in PvDocs |-> NoRec]
    /\ pvKeyFile = [a \in PvAgents |-> 0]
    /\ pvKeys = 0 /\ pvSigns = 0
    /\ pvCall = [s \in PvServers |-> PvIdle]
    /\ pvMade = [a \in PvAgents |-> 0]
    /\ pvAgain = {}

Absent == 0
Torn == -1              \* truncated, not written yet

sign_message(d, rec) == <<rec.content_hash, d, rec.agent, rec.parent_hash>>
\* Mutant of chain_hash.
ChainHashOfDoc(d, rec) == <<d>>

chain_hash(d, rec) == <<d, rec.signature, rec.parent_hash>>

\* A record as the table has it now, and the hash children name it by.
get_record(d) == pvTable[d]
get_chain_hash(d) == chain_hash(d, get_record(d))

\* Mutant of FindIdentity.
FindIdentityAnew(s, a, d, p, c) ==
    /\ pvCall[s] = PvIdle /\ pvSigns < PvMaxSigns
    /\ pvSigns' = pvSigns + 1 /\ pvKeys' = pvKeys + 1 /\ UNCHANGED <<pvTable, pvKeyFile, pvMade, pvAgain>>
    /\ pvCall' = [pvCall EXCEPT ![s] = [at |-> "truncate", agent |-> a, doc |-> d, parent |-> p, content |-> c, key |-> pvKeys + 1]]

\* provenance_sign looks for the agent's key file; without one it makes a
\* new identity.  An unreadable file fails the call.
FindIdentity(s, a, d, p, c) ==
    /\ pvCall[s] = PvIdle /\ pvSigns < PvMaxSigns
    /\ pvKeyFile[a] # Torn
    /\ pvSigns' = pvSigns + 1
    /\ LET Call(at, key) == [at |-> at, agent |-> a, doc |-> d, parent |-> p, content |-> c, key |-> key] IN
       IF pvKeyFile[a] # Absent
       THEN pvCall' = [pvCall EXCEPT ![s] = Call("sign", pvKeyFile[a])] /\ UNCHANGED <<pvKeys, pvMade>>
       ELSE /\ pvKeys' = pvKeys + 1
            /\ pvMade' = [pvMade EXCEPT ![a] = @ + 1]
            /\ pvCall' = [pvCall EXCEPT ![s] = Call("truncate", pvKeys + 1)]
    /\ UNCHANGED <<pvTable, pvKeyFile, pvAgain>>

\* OpenOptions create + truncate, then write_all.
WriteKeyFile(s) ==
    /\ \/ /\ pvCall[s].at = "truncate"
          /\ pvKeyFile' = [pvKeyFile EXCEPT ![pvCall[s].agent] = Torn]
          /\ pvCall' = [pvCall EXCEPT ![s].at = "write"]
       \/ /\ pvCall[s].at = "write"
          /\ pvKeyFile' = [pvKeyFile EXCEPT ![pvCall[s].agent] = pvCall[s].key]
          /\ pvCall' = [pvCall EXCEPT ![s].at = "sign"]
    /\ UNCHANGED <<pvTable, pvKeys, pvSigns, pvMade, pvAgain>>

\* sign_and_append, up to the insert: a parent that has no record fails.
SignRecord(s) ==
    LET c == pvCall[s]
        parent == IF c.parent = NoParent THEN Zeros ELSE get_chain_hash(c.parent)
        body == [agent |-> c.agent, content_hash |-> c.content, parent_hash |-> parent]
        rec == [agent |-> c.agent, content_hash |-> c.content, parent_hash |-> parent,
                signature |-> <<c.key, sign_message(c.doc, body)>>] IN
    /\ c.at = "sign"
    /\ pvCall' = [pvCall EXCEPT ![s] = IF c.parent # NoParent /\ pvTable[c.parent] = NoRec THEN PvIdle
                                       ELSE [at |-> "insert", doc |-> c.doc, rec |-> rec]]
    /\ UNCHANGED <<pvTable, pvKeyFile, pvKeys, pvSigns, pvMade, pvAgain>>

\* insert_record: INSERT OR REPLACE.
InsertRecord(s) ==
    /\ pvCall[s].at = "insert"
    /\ pvTable' = [pvTable EXCEPT ![pvCall[s].doc] = pvCall[s].rec]
    /\ pvAgain' = IF pvTable[pvCall[s].doc] = NoRec THEN pvAgain ELSE pvAgain \cup {pvCall[s].doc}
    /\ pvCall' = [pvCall EXCEPT ![s] = PvIdle]
    /\ UNCHANGED <<pvKeyFile, pvKeys, pvSigns, pvMade>>

ServerDies(s) ==
    /\ pvCall[s].at \in {"write", "insert"}
    /\ pvCall' = [pvCall EXCEPT ![s] = PvIdle]
    /\ UNCHANGED <<pvTable, pvKeyFile, pvKeys, pvSigns, pvMade, pvAgain>>

verify_signature(d, rec, key) == rec.signature = <<key, sign_message(d, rec)>>
\* The documents whose signature fails, or whose agent has no key in keys;
\* parent hashes are not looked at, though verify_all's comment says they are.
verify_all(keys) ==
    {d \in PvDocs : LET rec == get_record(d) IN
        rec # NoRec /\ ~ (rec.agent \in DOMAIN keys /\ verify_signature(d, rec, keys[rec.agent]))}
\* provenance_verify: the keys of the readable files, then verify_all.
provenance_verify ==
    verify_all([a \in {b \in PvAgents : pvKeyFile[b] > 0} |-> pvKeyFile[a]])

\* verify_chain follows parent hashes through the records as they are now,
\* a document per step.  The answer is "ok", "cycle" or what else was wrong.
ParentsOf(rec) == {q \in PvDocs : pvTable[q] # NoRec /\ get_chain_hash(q) = rec.parent_hash}
VerifyStep(w) ==
    LET rec == get_record(w.doc)
        Answer(a) == [w EXCEPT !.answer = a] IN
    IF w.answer # "walking" THEN w
    ELSE IF w.doc \in w.visited THEN Answer("cycle")
    ELSE IF rec = NoRec THEN Answer("not_found")
    ELSE IF w.doc \in provenance_verify THEN Answer("bad_signature")
    ELSE IF rec.parent_hash = Zeros THEN Answer("ok")
    ELSE IF ParentsOf(rec) = {} THEN Answer("missing_parent")
    ELSE [doc |-> CHOOSE q \in ParentsOf(rec) : TRUE, visited |-> w.visited \cup {w.doc}, answer |-> "walking"]
ChainWalk(d) ==
    LET w[n \in 0..(Cardinality(PvDocs) + 1)] ==
            IF n = 0 THEN [doc |-> d, visited |-> {}, answer |-> "walking"] ELSE VerifyStep(w[n - 1])
    IN w
prov_verify_chain(d) == ChainWalk(d)[Cardinality(PvDocs) + 1].answer

ProvNext ==
    \E s \in PvServers :
        \/ \E a \in PvAgents, d \in PvDocs, p \in PvDocs \cup {NoParent}, c \in {"c1", "c2"} : FindIdentity(s, a, d, p, c)
        \/ WriteKeyFile(s) \/ SignRecord(s) \/ InsertRecord(s) \/ ServerDies(s)

-----------------------------------------------------------------------------
(* Whatever order documents are signed and signed again in, by several      *)
(* servers, verify_chain comes to an end and never meets a document twice:  *)
(* a record can only name what its parent was when it was signed.           *)
ChainsHaveAnEnd == \A d \in PvDocs : prov_verify_chain(d) \notin {"cycle", "walking"}

(* A record fails provenance_verify only when the agent's key is gone, for  *)
(* servers that made an identity for the agent at the same time: a server   *)
(* that dies while it writes the key file has signed nothing with it, and   *)
(* signing again, under another parent or with other content, never         *)
(* invalidates another record.                                              *)
BadOnlyByLostKey == \A d \in provenance_verify : pvMade[pvTable[d].agent] > 1

(* verify_all's comment, "every parent_hash matches some existing record's  *)
(* chain_hash", holds of the table except below a document that was signed  *)
(* again: its children keep naming the record it replaced.  Nothing else    *)
(* leaves a parent behind that is not there, not a server that signs while  *)
(* another replaces the parent, nor one that dies before its insert.        *)
OrphansWereReplaced ==
    \A d \in PvDocs : LET rec == pvTable[d] IN
        \/ rec = NoRec \/ rec.parent_hash = Zeros
        \/ ParentsOf(rec) # {} \/ rec.parent_hash[1] \in pvAgain
=============================================================================
