------------------------------ MODULE Keyring ------------------------------
(***************************************************************************)
(* Envelope encryption per space (crates/synapse-crypto).  A host keeps a  *)
(* Keyring whose threads derive, cache and use data keys; rotate empties   *)
(* the cache.  The master key outlives the process as an encoded envelope; *)
(* a passphrase gives another master key each time, because its salt is    *)
(* drawn anew.  A derived key is modelled by what it is derived from, a    *)
(* cipher text by its key and plain text (GCM refuses any other key).      *)
(***************************************************************************)
EXTENDS Integers, FiniteSets

CONSTANTS KrSpaces, KrThreads,
          KrMaxMasters,    \* bound on master keys made
          KrMaxBlobs       \* bound on values encrypted

VARIABLES krMaster,    \* [bytes, salt] of the running keyring
          krEnvelope,  \* encode_master_key of some master key, kept on disk
          krDeks,      \* the cache: space -> data key, NoKey when absent
          krCall,      \* thread -> key it derived and has not cached yet
          krBlobs,     \* what was encrypted: [space, key, text, master]
          krMade

krVars == <<krMaster, krEnvelope, krDeks, krCall, krBlobs, krMade>>

NoKey == <<>>

\* MasterKey::random and from_passphrase: bytes and salt of their own.
NewMaster == [bytes |-> krMade + 1, salt |-> krMade + 1]
derive_space_dek(master, space) == <<master.bytes, master.salt, space>>

KeyringInit ==
    /\ krMade = 1
    /\ krMaster = [bytes |-> 1, salt |-> 1]
    /\ krEnvelope = krMaster
    /\ krDeks = [s \in KrSpaces |-> NoKey]
    /\ krCall = [t \in KrThreads |-> NoKey]
    /\ krBlobs = {}

Fresh(master) ==
    /\ krMaster' = master
    /\ krDeks' = [s \in KrSpaces |-> NoKey]
    /\ krCall' = [t \in KrThreads |-> NoKey]

\* dek: a hit, or derive now and insert after the lock is taken again.
Derive(t, s) ==
    /\ krCall[t] = NoKey /\ krDeks[s] = NoKey
    /\ krCall' = [krCall EXCEPT ![t] = <<s, derive_space_dek(krMaster, s)>>]
    /\ UNCHANGED <<krMaster, krEnvelope, krDeks, krBlobs, krMade>>

Encrypted(s, key) == krBlobs' = krBlobs \cup {[space |-> s, key |-> key, text |-> Cardinality(krBlobs), master |-> krMaster]}

\* encrypt_for_space after a miss, and after a hit.
InsertAndEncrypt(t) ==
    /\ krCall[t] # NoKey /\ Cardinality(krBlobs) < KrMaxBlobs
    /\ krDeks' = [krDeks EXCEPT ![krCall[t][1]] = krCall[t][2]]
    /\ Encrypted(krCall[t][1], krCall[t][2])
    /\ krCall' = [krCall EXCEPT ![t] = NoKey]
    /\ UNCHANGED <<krMaster, krEnvelope, krMade>>

HitAndEncrypt(s) ==
    /\ krDeks[s] # NoKey /\ Cardinality(krBlobs) < KrMaxBlobs
    /\ Encrypted(s, krDeks[s])
    /\ UNCHANGED <<krMaster, krEnvelope, krDeks, krCall, krMade>>

\* Mutant of rotate.
RotateResalts ==
    /\ krMaster' = [krMaster EXCEPT !.salt = 0]
    /\ UNCHANGED <<krEnvelope, krCall, krDeks, krBlobs, krMade>>

rotate ==
    /\ krDeks' = [s \in KrSpaces |-> NoKey]
    /\ UNCHANGED <<krMaster, krEnvelope, krCall, krBlobs, krMade>>

\* A new process: from the envelope (decode_master_key), or with a new
\* master key, whose envelope it may keep.
Restart ==
    \/ Fresh(krEnvelope) /\ UNCHANGED <<krEnvelope, krMade, krBlobs>>
    \/ /\ krMade < KrMaxMasters
       /\ Fresh(NewMaster)
       /\ krMade' = krMade + 1
       /\ krEnvelope' \in {krEnvelope, NewMaster}
       /\ UNCHANGED krBlobs

KeyringNext ==
    \/ \E t \in KrThreads : InsertAndEncrypt(t) \/ \E s \in KrSpaces : Derive(t, s)
    \/ \E s \in KrSpaces : HitAndEncrypt(s)
    \/ rotate \/ Restart

\* decrypt_for_space, by the running keyring: the text, or an error (-1).
DekNow(s) == IF krDeks[s] # NoKey THEN krDeks[s] ELSE derive_space_dek(krMaster, s)
decrypt_for_space(s, blob) == IF blob.key = DekNow(s) THEN blob.text ELSE -1

-----------------------------------------------------------------------------
(* Whatever was cached, rotated away, derived twice at once or lost with    *)
(* the process: a value encrypted for a space can be decrypted for that     *)
(* space, and for no other, exactly as long as the master key is the one it *)
(* was encrypted under.                                                     *)
BlobsReadable ==
    \A b \in krBlobs, s \in KrSpaces :
        decrypt_for_space(s, b) = IF s = b.space /\ b.master = krMaster THEN b.text ELSE -1
=============================================================================
