--------------------------- MODULE RecordsProofs ---------------------------
(***************************************************************************)
(* Proofs about the components of MCRecords, each for every value of its   *)
(* constants.  They share no state: a step moves one of them and leaves    *)
(* the others as they were, so each has an invariant of its own.           *)
(***************************************************************************)
EXTENDS MCRecords, CalendarProofs, NumberFacts

\* A step is a step of the component or leaves it alone.
LEMMA OneComponentMoves ==
  ASSUME [Next]_vars
  PROVE  /\ AccessNext \/ UNCHANGED raVars
         /\ ProvNext \/ UNCHANGED pvVars
         /\ KeyringNext \/ UNCHANGED krVars
         /\ EventLogNext \/ UNCHANGED evVars
         /\ TagsNext \/ UNCHANGED tgVars
         /\ MediaNext \/ UNCHANGED mdVars
         /\ MetaNext \/ UNCHANGED mrVars
         /\ LearnNext \/ UNCHANGED lnVars
         /\ CalTick \/ UNCHANGED calVars
         /\ AuditNext \/ UNCHANGED auVars
<1>1. CASE UNCHANGED vars
  BY <1>1 DEF vars
<1>2. CASE Next
  BY <1>2, Zenon DEF Next, Only
<1> QED BY <1>1, <1>2

-----------------------------------------------------------------------------
(* Keyring: every data key in the cache or in a thread's hands is derived   *)
(* from the running master key, a blob's key from the one it was written    *)
(* under; keys of different masters or spaces differ.                       *)
Masters == [bytes : Nat, salt : Nat]
DerivedNow(s, key) == key = derive_space_dek(krMaster, s)
KeyInv ==
    /\ krMade \in Nat /\ krMaster \in Masters /\ krEnvelope \in Masters
    /\ DOMAIN krDeks = KrSpaces /\ DOMAIN krCall = KrThreads
    /\ \A s \in KrSpaces : krDeks[s] = NoKey \/ DerivedNow(s, krDeks[s])
    /\ \A t \in KrThreads : krCall[t] = NoKey \/ \E s \in KrSpaces : krCall[t] = <<s, derive_space_dek(krMaster, s)>>
    /\ \A b \in krBlobs : b.master \in Masters /\ b.key = derive_space_dek(b.master, b.space)

LEMMA KeyInit == KeyringInit => KeyInv
BY DEF KeyringInit, KeyInv, Masters

LEMMA KeyStep ==
  ASSUME KeyInv, KeyringNext \/ UNCHANGED krVars
  PROVE  KeyInv'
<1> USE DEF NoKey, derive_space_dek, DerivedNow
<1>1. CASE UNCHANGED krVars
  BY <1>1 DEF krVars, KeyInv
<1>2. ASSUME NEW t \in KrThreads, InsertAndEncrypt(t) PROVE KeyInv'
  <2>1. PICK s \in KrSpaces : krCall[t] = <<s, derive_space_dek(krMaster, s)>>
    BY <1>2 DEF InsertAndEncrypt, KeyInv
  <2>2. /\ krDeks' = [krDeks EXCEPT ![s] = derive_space_dek(krMaster, s)]
        /\ krCall' = [krCall EXCEPT ![t] = NoKey]
        /\ krMaster' = krMaster /\ krEnvelope' = krEnvelope /\ krMade' = krMade
    BY <1>2, <2>1 DEF InsertAndEncrypt
  <2> DEFINE b == [space |-> s, key |-> derive_space_dek(krMaster, s),
                   text |-> Cardinality(krBlobs), master |-> krMaster]
  <2>3. krBlobs' = krBlobs \cup {b}
    BY <1>2, <2>1 DEF InsertAndEncrypt, Encrypted
  <2>4. b.master = krMaster /\ b.key = derive_space_dek(b.master, b.space)
    OBVIOUS
  <2> HIDE DEF b
  <2> QED BY <2>2, <2>3, <2>4 DEF KeyInv
<1>3. ASSUME NEW t \in KrThreads, NEW s \in KrSpaces, Derive(t, s) PROVE KeyInv'
  BY <1>3 DEF Derive, KeyInv
<1>4. ASSUME NEW s \in KrSpaces, HitAndEncrypt(s) PROVE KeyInv'
  <2>1. krDeks[s] = derive_space_dek(krMaster, s)
    BY <1>4 DEF HitAndEncrypt, KeyInv
  <2> DEFINE b == [space |-> s, key |-> derive_space_dek(krMaster, s),
                   text |-> Cardinality(krBlobs), master |-> krMaster]
  <2>2. krBlobs' = krBlobs \cup {b}
    BY <1>4, <2>1 DEF HitAndEncrypt, Encrypted
  <2>3. b.master = krMaster /\ b.key = derive_space_dek(b.master, b.space)
    OBVIOUS
  <2> HIDE DEF b
  <2> QED BY <1>4, <2>2, <2>3 DEF HitAndEncrypt, KeyInv
<1>5. CASE rotate
  BY <1>5 DEF rotate, KeyInv
<1>6. CASE Restart
  <2>1. NewMaster \in Masters
    BY DEF KeyInv, NewMaster, Masters
  <2>2. /\ krMaster' \in Masters /\ krEnvelope' \in Masters /\ krMade' \in Nat
        /\ krBlobs' = krBlobs
        /\ krDeks' = [s \in KrSpaces |-> NoKey] /\ krCall' = [t \in KrThreads |-> NoKey]
    BY <1>6, <2>1 DEF Restart, Fresh, KeyInv
  <2> QED BY <2>2 DEF KeyInv
<1> QED BY <1>1, <1>2, <1>3, <1>4, <1>5, <1>6 DEF KeyringNext

\* A keyring reads exactly the blobs written under its master key.
LEMMA KeyInvReads == KeyInv => BlobsReadable
<1> SUFFICES ASSUME KeyInv, NEW b \in krBlobs, NEW s \in KrSpaces
             PROVE  decrypt_for_space(s, b) = IF s = b.space /\ b.master = krMaster THEN b.text ELSE -1
  BY DEF BlobsReadable
<1>1. DekNow(s) = derive_space_dek(krMaster, s)
  BY DEF DekNow, KeyInv, DerivedNow
<1>2. b.key = derive_space_dek(b.master, b.space) /\ b.master \in Masters /\ krMaster \in Masters
  BY DEF KeyInv
<1>3. b.key = DekNow(s) <=> s = b.space /\ b.master = krMaster
  BY <1>1, <1>2 DEF derive_space_dek, Masters
<1> QED BY <1>3 DEF decrypt_for_space

-----------------------------------------------------------------------------
(* Access: outside raDirty and raLate the cache has the table's role or     *)
(* none, and a lookup that no change has overtaken carries the table's.     *)
Calls == [key : Keys, got : RoleNames, old : BOOLEAN]
CallIsRight(c) ==
    /\ c \in Calls
    /\ raOwner[c.key[1]] # NoRole
    /\ c.old = FALSE => c.got = raRoles[c.key]
RoleInv ==
    /\ DOMAIN raOwner = RaSpaces /\ raRoles \in [Keys -> RoleNames \cup {NoRole}]
    /\ DOMAIN raCache = Keys /\ DOMAIN raCall = RaThreads
    /\ raCreating = <<>> \/ raCreating \in Keys
    /\ \A k \in Keys : raCache[k] # NoRole => raOwner[k[1]] # NoRole
    /\ \A k \in Keys : k \in raDirty \/ k \in raLate \/ raCache[k] \in {NoRole, raRoles[k]}
    /\ \A t \in RaThreads : raCall[t] = NoCall \/ CallIsRight(raCall[t])

LEMMA RoleInit == AccessInit => RoleInv
BY DEF AccessInit, RoleInv

\* A change makes the lookups of its key old and leaves the others.
LEMMA ChangeKeepsRoleInv ==
  ASSUME RoleInv, NEW k \in Keys, NEW role \in RoleNames \cup {NoRole}, Changed(k, role),
         UNCHANGED <<raOwner, raCache, raLate>>, raCreating' = <<>> \/ raCreating' = raCreating
  PROVE  RoleInv'
<1>1. /\ raRoles' = [raRoles EXCEPT ![k] = role] /\ raDirty' = raDirty \cup {k}
      /\ raOwner' = raOwner /\ raCache' = raCache /\ raLate' = raLate
  BY DEF Changed
<1>2. raRoles' \in [Keys -> RoleNames \cup {NoRole}]
  BY <1>1 DEF RoleInv
<1>3. DOMAIN raCall' = RaThreads
  BY DEF Changed
<1>4. ASSUME NEW t \in RaThreads PROVE raCall'[t] = NoCall \/ CallIsRight(raCall[t])'
  <2>1. CASE raCall[t] = NoCall
    <3>1. raCall[t].key # k
      BY <2>1 DEF NoCall, Keys
    <3> QED BY <2>1, <3>1 DEF Changed
  <2>2. CASE CallIsRight(raCall[t]) /\ raCall[t].key # k
    <3>1. raCall'[t] = raCall[t]
      BY <2>2 DEF Changed
    <3>2. raRoles'[raCall[t].key] = raRoles[raCall[t].key]
      BY <1>1, <2>2 DEF RoleInv, CallIsRight, Calls
    <3> QED BY <1>1, <2>2, <3>1, <3>2 DEF CallIsRight
  <2>3. CASE CallIsRight(raCall[t]) /\ raCall[t].key = k
    <3>1. raCall'[t] = [raCall[t] EXCEPT !.old = TRUE]
      BY <2>3 DEF Changed
    <3>2. raCall'[t] \in Calls /\ raCall'[t].old = TRUE /\ raCall'[t].key = k
      BY <2>3, <3>1 DEF CallIsRight, Calls
    <3> QED BY <1>1, <2>3, <3>2 DEF CallIsRight
  <2> QED BY <2>1, <2>2, <2>3 DEF RoleInv
<1>5. ASSUME NEW j \in Keys PROVE j \in raDirty' \/ j \in raLate' \/ raCache'[j] \in {NoRole, raRoles'[j]}
  BY <1>1 DEF RoleInv
<1> QED BY <1>1, <1>2, <1>3, <1>4, <1>5 DEF RoleInv

LEMMA RoleStep ==
  ASSUME RoleInv, AccessNext \/ UNCHANGED raVars
  PROVE  RoleInv'
<1>1. CASE UNCHANGED raVars
  BY <1>1 DEF raVars, RoleInv, CallIsRight
<1>2. ASSUME NEW s \in RaSpaces, NEW u \in RaUsers, CreateSpace(s, u) PROVE RoleInv'
  <2>1. /\ raOwner[s] = NoRole /\ raOwner' = [raOwner EXCEPT ![s] = u] /\ raCreating' = <<s, u>>
        /\ UNCHANGED <<raRoles, raCache, raDirty, raCall, raLate>>
    BY <1>2 DEF CreateSpace
  <2>2. <<s, u>> \in Keys /\ \A k \in Keys : k[1] \in RaSpaces
    BY DEF Keys
  <2>3. \A x \in RaSpaces : raOwner[x] # NoRole => raOwner'[x] # NoRole
    BY <2>1 DEF RoleInv
  <2>4. ASSUME NEW t \in RaThreads PROVE raCall'[t] = NoCall \/ CallIsRight(raCall[t])'
    BY <2>1, <2>2, <2>3 DEF RoleInv, CallIsRight, Calls
  <2> QED BY <2>1, <2>2, <2>3, <2>4 DEF RoleInv
<1>3. ASSUME NEW s \in RaSpaces, NEW u \in RaUsers, NEW role \in RoleNames, GrantRole(s, u, role) PROVE RoleInv'
  <2>1. <<s, u>> \in Keys
    BY DEF Keys
  <2> QED BY <1>3, <2>1, ChangeKeepsRoleInv DEF GrantRole
<1>4. ASSUME NEW s \in RaSpaces, NEW u \in RaUsers, RevokeRole(s, u) PROVE RoleInv'
  <2>1. <<s, u>> \in Keys
    BY DEF Keys
  <2> QED BY <1>4, <2>1, ChangeKeepsRoleInv DEF RevokeRole
<1>5. CASE CreateOwnerRole
  <2>1. raCreating \in Keys /\ "owner" \in RoleNames
    BY <1>5 DEF CreateOwnerRole, RoleInv, RoleNames
  <2> QED BY <1>5, <2>1, ChangeKeepsRoleInv DEF CreateOwnerRole
<1>6. CASE AccessCrash
  BY <1>6 DEF AccessCrash, RoleInv
<1>7. ASSUME NEW ks, Invalidate(ks) PROVE RoleInv'
  BY <1>7 DEF Invalidate, RoleInv, CallIsRight
<1>8. ASSUME NEW t \in RaThreads, CachedPut(t) PROVE RoleInv'
  <2> DEFINE c == raCall[t]
  <2>1. CallIsRight(c)
    BY <1>8 DEF CachedPut, RoleInv
  <2>2. /\ raCache' = [raCache EXCEPT ![c.key] = c.got]
        /\ raLate' = IF c.old THEN raLate \cup {c.key} ELSE raLate \ {c.key}
        /\ raCall' = [raCall EXCEPT ![t] = NoCall]
        /\ UNCHANGED <<raOwner, raRoles, raCreating, raDirty>>
    BY <1>8 DEF CachedPut
  <2>3. c.key \in Keys /\ c.got \in RoleNames /\ c.old \in BOOLEAN
    BY <2>1 DEF CallIsRight, Calls
  <2> HIDE DEF c
  <2>4. ASSUME NEW k \in Keys PROVE k \in raDirty' \/ k \in raLate' \/ raCache'[k] \in {NoRole, raRoles'[k]}
    <3>1. CASE k # c.key
      <4>1. raCache'[k] = raCache[k] /\ (k \in raLate => k \in raLate')
        BY <2>2, <2>3, <3>1 DEF RoleInv
      <4> QED BY <2>2, <4>1 DEF RoleInv
    <3>2. CASE k = c.key /\ c.old = TRUE
      BY <2>2, <3>2
    <3>3. CASE k = c.key /\ c.old = FALSE
      BY <2>1, <2>2, <3>3 DEF RoleInv, CallIsRight
    <3> QED BY <2>3, <3>1, <3>2, <3>3
  <2>5. ASSUME NEW k \in Keys PROVE raCache'[k] # NoRole => raOwner'[k[1]] # NoRole
    BY <2>1, <2>2, <2>3 DEF RoleInv, CallIsRight
  <2>6. ASSUME NEW x \in RaThreads PROVE raCall'[x] = NoCall \/ CallIsRight(raCall[x])'
    BY <2>2 DEF RoleInv, CallIsRight
  <2> QED BY <2>2, <2>4, <2>5, <2>6 DEF RoleInv
<1>9. ASSUME NEW t \in RaThreads, NEW k \in Keys, CachedLookup(t, k) PROVE RoleInv'
  <2> DEFINE c == [key |-> k, got |-> raRoles[k], old |-> FALSE]
  <2>1. /\ raCall' = [raCall EXCEPT ![t] = c]
        /\ UNCHANGED <<raOwner, raRoles, raCache, raCreating, raDirty, raLate>>
        /\ raOwner[k[1]] # NoRole /\ raRoles[k] # NoRole
    BY <1>9 DEF CachedLookup
  <2>2. c \in Calls /\ c.key = k /\ c.got = raRoles[k]
    BY <2>1 DEF Calls, RoleInv
  <2> HIDE DEF c
  <2>3. ASSUME NEW x \in RaThreads PROVE raCall'[x] = NoCall \/ CallIsRight(raCall[x])'
    BY <2>1, <2>2 DEF RoleInv, CallIsRight
  <2> QED BY <2>1, <2>3 DEF RoleInv
<1> QED BY <1>1, <1>2, <1>3, <1>4, <1>5, <1>6, <1>7, <1>8, <1>9 DEF AccessNext, HostInvalidates

LEMMA RoleInvAgrees == RoleInv => CachedCheckAgrees
<1> SUFFICES ASSUME RoleInv, NEW s \in RaSpaces, NEW u \in RaUsers, NEW perm \in Permissions,
                    <<s, u>> \notin raDirty \cup raLate
             PROVE  enforce_cached(s, u, perm) <=> enforce(s, u, perm)
  BY DEF CachedCheckAgrees
<1>1. <<s, u>> \in Keys /\ <<s, u>>[1] = s
  BY DEF Keys
<1>2. /\ raCache[<<s, u>>] \in {NoRole, raRoles[<<s, u>>]}
      /\ raCache[<<s, u>>] # NoRole => raOwner[s] # NoRole
  BY <1>1 DEF RoleInv
<1> QED BY <1>2 DEF enforce_cached, enforce

-----------------------------------------------------------------------------
(* Provenance.  Until a second identity is made for an agent, its key file  *)
(* goes from absent to torn to the key once, by the one server that made    *)
(* the key; whoever signs, or has signed, has that key.                     *)
SignCalls == [at : {"sign", "truncate", "write"}, agent : PvAgents, doc : PvDocs,
              parent : PvDocs \cup {NoParent}, content : {"c1", "c2"}, key : Nat \ {0}]
\* f lists the hashes from an absent one up to h, each the parent of the next.
IsLineage(f, n, h) ==
    /\ f[0] = Zeros /\ f[n] = h
    /\ \A i \in 1..n : f[i] # Zeros /\ f[i][3] = f[i - 1]
HasDepth(h, n) == \E f : IsLineage(f, n, h)
RecordIsSound(d, rec) ==
    /\ rec.agent \in PvAgents
    /\ rec.signature = <<rec.signature[1], sign_message(d, rec)>>
    /\ \E n \in Nat : HasDepth(rec.parent_hash, n)
SignCallIsSound(c) ==
    \/ c = PvIdle
    \/ c \in SignCalls
    \/ c.at = "insert" /\ c.doc \in PvDocs /\ RecordIsSound(c.doc, c.rec)

Makes(c, a) == c.at \in {"truncate", "write"} /\ c.agent = a
RecordFits(rec, a) == pvKeyFile[a] > 0 /\ rec.signature[1] = pvKeyFile[a]
CallFits(c, a) ==
    /\ c.at = "truncate" /\ c.agent = a => pvKeyFile[a] = Absent /\ pvMade[a] = 1
    /\ c.at = "write" /\ c.agent = a => pvKeyFile[a] = Torn
    /\ c.at = "sign" /\ c.agent = a => c.key = pvKeyFile[a]
    /\ c.at = "insert" /\ c.rec.agent = a => RecordFits(c.rec, a)
OneKey(a) ==
    /\ \A s, t \in PvServers : Makes(pvCall[s], a) /\ Makes(pvCall[t], a) => s = t
    /\ \A s \in PvServers : CallFits(pvCall[s], a)
    /\ \A d \in PvDocs : pvTable[d] # NoRec /\ pvTable[d].agent = a => RecordFits(pvTable[d], a)
ProvInv ==
    /\ DOMAIN pvTable = PvDocs /\ DOMAIN pvCall = PvServers
    /\ pvKeyFile \in [PvAgents -> Nat \cup {Torn}] /\ pvMade \in [PvAgents -> Nat] /\ pvKeys \in Nat
    /\ \A s \in PvServers : SignCallIsSound(pvCall[s])
    /\ \A d \in PvDocs : pvTable[d] = NoRec \/ RecordIsSound(d, pvTable[d])
    /\ \A a \in PvAgents : pvMade[a] > 1 \/ OneKey(a)

LEMMA ProvStarts == ProvInit => ProvInv
BY DEF ProvInit, ProvInv, SignCallIsSound, OneKey, Makes, CallFits, PvIdle, Torn

\* The hash of a record names its parent's hash, one deeper.
LEMMA HashIsDeeper ==
  ASSUME NEW d, NEW rec, NEW n \in Nat, HasDepth(rec.parent_hash, n)
  PROVE  HasDepth(chain_hash(d, rec), n + 1)
<1>1. PICK f : IsLineage(f, n, rec.parent_hash)
  BY DEF HasDepth
<1> DEFINE h == chain_hash(d, rec)
           g == [i \in 0..(n + 1) |-> IF i = n + 1 THEN h ELSE f[i]]
<1>2. h # Zeros /\ h[3] = rec.parent_hash
  BY DEF chain_hash, Zeros
<1> HIDE DEF h
<1>3. g[0] = Zeros /\ g[n + 1] = h
  BY <1>1 DEF IsLineage
<1>4. ASSUME NEW i \in 1..(n + 1) PROVE g[i] # Zeros /\ g[i][3] = g[i - 1]
  <2>1. CASE i = n + 1
    <3>1. g[i] = h /\ g[i - 1] = f[n]
      BY <2>1
    <3> QED BY <1>1, <1>2, <3>1 DEF IsLineage
  <2>2. CASE i # n + 1
    <3>1. i \in 1..n /\ g[i] = f[i] /\ g[i - 1] = f[i - 1]
      BY <2>2
    <3> QED BY <1>1, <3>1 DEF IsLineage
  <2> QED BY <2>1, <2>2
<1> HIDE DEF g
<1>5. IsLineage(g, n + 1, h)
  BY <1>3, <1>4 DEF IsLineage
<1> QED BY <1>5 DEF HasDepth, h

\* A hash has one depth.
LEMMA DepthIsUnique ==
  ASSUME NEW h, NEW n \in Nat, NEW m \in Nat, HasDepth(h, n), HasDepth(h, m), n <= m
  PROVE  n = m
<1>1. PICK f : IsLineage(f, n, h)
  BY DEF HasDepth
<1>2. PICK g : IsLineage(g, m, h)
  BY DEF HasDepth
<1> DEFINE Bad == {i \in 0..n : f[n - i] # g[m - i]}
<1>3. Bad = {}
  <2> SUFFICES ASSUME Bad # {} PROVE FALSE
    OBVIOUS
  <2>1. Bad \subseteq Nat
    OBVIOUS
  <2>2. PICK i \in Bad : \A j \in Bad : i <= j
    <3> HIDE DEF Bad
    <3> QED BY <2>1, LeastNat
  <2>3. i \in 0..n /\ f[n - i] # g[m - i]
    OBVIOUS
  <2>4. i # 0
    <3>1. f[n] = g[m]
      BY <1>1, <1>2 DEF IsLineage
    <3> QED BY <2>3, <3>1
  <2>5. i - 1 \in 0..n /\ i - 1 \notin Bad
    <3>1. i - 1 \in 0..n /\ ~(i <= i - 1)
      BY <2>3, <2>4
    <3> HIDE DEF Bad
    <3> QED BY <2>2, <3>1
  <2>6. f[n - (i - 1)] = g[m - (i - 1)]
    BY <2>5
  <2>7. /\ n - (i - 1) \in 1..n /\ m - (i - 1) \in 1..m
        /\ (n - (i - 1)) - 1 = n - i /\ (m - (i - 1)) - 1 = m - i
    BY <2>3, <2>4
  <2>8. f[n - (i - 1)][3] = f[n - i] /\ g[m - (i - 1)][3] = g[m - i]
    BY <1>1, <1>2, <2>7 DEF IsLineage
  <2> QED BY <2>3, <2>6, <2>8
<1>4. f[0] = g[m - n]
  <2>1. n \in 0..n
    OBVIOUS
  <2>2. f[n - n] = g[m - n]
    BY <1>3, <2>1
  <2> QED BY <2>2
<1>5. f[0] = Zeros
  BY <1>1 DEF IsLineage
<1>6. CASE n # m
  <2>1. m - n \in 1..m
    BY <1>6
  <2> QED BY <1>2, <1>4, <1>5, <2>1 DEF IsLineage
<1> QED BY <1>6

LEMMA FindIdentityKeeps ==
  ASSUME ProvInv, NEW s \in PvServers, NEW a \in PvAgents, NEW d \in PvDocs,
         NEW p \in PvDocs \cup {NoParent}, NEW c \in {"c1", "c2"}, FindIdentity(s, a, d, p, c)
  PROVE  ProvInv'
<1> DEFINE call == [at |-> "sign", agent |-> a, doc |-> d, parent |-> p, content |-> c, key |-> pvKeyFile[a]]
           made == [at |-> "truncate", agent |-> a, doc |-> d, parent |-> p, content |-> c, key |-> pvKeys + 1]
<1>1. pvTable' = pvTable /\ pvKeyFile' = pvKeyFile
  BY DEF FindIdentity
<1>2. pvKeyFile[a] \in Nat \cup {Torn} /\ pvKeyFile[a] # Torn /\ pvMade[a] \in Nat /\ pvKeys \in Nat
  BY DEF ProvInv, FindIdentity
<1>3. ASSUME NEW b \in PvAgents, pvMade'[b] <= 1, pvMade'[b] = pvMade[b] PROVE OneKey(b)
  BY <1>3 DEF ProvInv
<1>4. CASE pvKeyFile[a] # Absent
  <2>1. pvCall' = [pvCall EXCEPT ![s] = call] /\ pvMade' = pvMade /\ pvKeys' = pvKeys
    BY <1>4 DEF FindIdentity
  <2>2. call \in SignCalls /\ call.at = "sign" /\ call.agent = a /\ call.key = pvKeyFile[a]
    BY <1>2, <1>4 DEF SignCalls, Absent, Torn
  <2> HIDE DEF call
  <2>3. ASSUME NEW t \in PvServers PROVE SignCallIsSound(pvCall'[t])
    BY <2>1, <2>2 DEF ProvInv, SignCallIsSound
  <2>4. ASSUME NEW b \in PvAgents PROVE pvMade'[b] > 1 \/ OneKey(b)'
    <3>1. CASE pvMade[b] <= 1
      <4>1. OneKey(b)
        BY <1>3, <2>1, <3>1
      <4>2. ASSUME NEW t \in PvServers PROVE CallFits(pvCall[t], b)'
        <5>1. CASE t = s
          BY <1>1, <2>1, <2>2, <5>1 DEF CallFits, ProvInv
        <5>2. CASE t # s
          BY <1>1, <2>1, <4>1, <5>2 DEF CallFits, OneKey, RecordFits, ProvInv
        <5> QED BY <5>1, <5>2
      <4>3. ASSUME NEW t \in PvServers, Makes(pvCall'[t], b) PROVE Makes(pvCall[t], b) /\ t # s
        BY <2>1, <2>2, <4>3 DEF Makes, ProvInv
      <4> QED BY <1>1, <4>1, <4>2, <4>3 DEF OneKey, RecordFits, Makes
    <3>2. CASE ~(pvMade[b] <= 1)
      <4>1. pvMade[b] \in Nat
        BY DEF ProvInv
      <4> QED BY <2>1, <3>2, <4>1
    <3> QED BY <3>1, <3>2
  <2> QED BY <1>1, <2>1, <2>3, <2>4 DEF ProvInv, SignCallIsSound
<1>5. CASE pvKeyFile[a] = Absent
  <2>1. /\ pvCall' = [pvCall EXCEPT ![s] = made]
        /\ pvMade' = [pvMade EXCEPT ![a] = @ + 1] /\ pvKeys' = pvKeys + 1
    BY <1>5 DEF FindIdentity
  <2>2. made \in SignCalls /\ made.at = "truncate" /\ made.agent = a
    BY <1>2 DEF SignCalls
  <2> HIDE DEF made
  <2>3. ASSUME NEW t \in PvServers PROVE SignCallIsSound(pvCall'[t])
    BY <2>1, <2>2 DEF ProvInv, SignCallIsSound
  <2>4. /\ pvMade' \in [PvAgents -> Nat] /\ pvMade'[a] = pvMade[a] + 1
        /\ \A b \in PvAgents \ {a} : pvMade'[b] = pvMade[b]
    BY <2>1 DEF ProvInv
  <2>5. ASSUME NEW b \in PvAgents \ {a}, pvMade'[b] <= 1 PROVE OneKey(b)'
    <3>1. OneKey(b)
      BY <1>3, <2>4, <2>5
    <3>2. ASSUME NEW t \in PvServers PROVE CallFits(pvCall[t], b)'
      <4>1. CASE t = s
        BY <2>1, <2>2, <4>1 DEF CallFits, ProvInv
      <4>2. CASE t # s
        BY <1>1, <2>1, <2>4, <3>1, <4>2 DEF CallFits, OneKey, RecordFits, ProvInv
      <4> QED BY <4>1, <4>2
    <3>3. ASSUME NEW t \in PvServers, Makes(pvCall'[t], b) PROVE Makes(pvCall[t], b) /\ t # s
      BY <2>1, <2>2, <3>3 DEF Makes, ProvInv
    <3> QED BY <1>1, <3>1, <3>2, <3>3 DEF OneKey, RecordFits, Makes
  <2>6. ASSUME pvMade'[a] <= 1 PROVE OneKey(a)'
    <3>1. pvMade[a] = 0 /\ pvMade'[a] = 1
      BY <1>2, <2>4, <2>6
    <3>2. OneKey(a)
      BY <3>1 DEF ProvInv
    <3>3. \A t \in PvServers : ~Makes(pvCall[t], a)
      BY <1>5, <3>1, <3>2 DEF OneKey, CallFits, Makes, Absent, Torn
    <3>4. ASSUME NEW t \in PvServers PROVE CallFits(pvCall[t], a)'
      <4>1. CASE t = s
        BY <1>1, <1>5, <2>1, <2>2, <3>1, <4>1 DEF CallFits, ProvInv
      <4>2. CASE t # s
        <5>1. pvCall'[t] = pvCall[t] /\ CallFits(pvCall[t], a) /\ ~Makes(pvCall[t], a)
          BY <2>1, <3>2, <3>3, <4>2 DEF OneKey, ProvInv
        <5> QED BY <1>1, <5>1 DEF CallFits, RecordFits, Makes
      <4> QED BY <4>1, <4>2
    <3>5. ASSUME NEW t \in PvServers, Makes(pvCall'[t], a) PROVE t = s
      BY <2>1, <3>3, <3>5 DEF Makes, ProvInv
    <3> QED BY <1>1, <3>2, <3>4, <3>5 DEF OneKey, RecordFits, Makes
  <2>7. ASSUME NEW b \in PvAgents PROVE pvMade'[b] > 1 \/ OneKey(b)'
    <3>1. pvMade'[b] \in Nat
      BY <2>4
    <3>2. CASE pvMade'[b] <= 1
      BY <2>5, <2>6, <3>2
    <3> QED BY <3>1, <3>2
  <2>8. pvKeys' \in Nat
    BY <1>2, <2>1
  <2> QED BY <1>1, <2>1, <2>3, <2>4, <2>7, <2>8 DEF ProvInv, SignCallIsSound
<1> QED BY <1>4, <1>5

\* The key file: torn by the one server that made the key, then written.
LEMMA WriteKeyFileKeeps ==
  ASSUME ProvInv, NEW s \in PvServers, WriteKeyFile(s)
  PROVE  ProvInv'
<1> DEFINE c == pvCall[s]
<1>0. PICK a : a = c.agent
  OBVIOUS
<1>1. pvTable' = pvTable /\ pvKeys' = pvKeys /\ pvMade' = pvMade
  BY DEF WriteKeyFile
<1>2. c.at \in {"truncate", "write"}
  BY DEF WriteKeyFile
<1>3. c \in SignCalls /\ a \in PvAgents /\ c.key \in Nat \ {0}
  <2>1. c \in SignCalls
    BY <1>2 DEF ProvInv, SignCallIsSound, PvIdle
  <2> QED BY <1>0, <2>1 DEF SignCalls
<1>4. PICK at, new : /\ at \in {"write", "sign"} /\ new \in Nat \cup {Torn}
                     /\ c.at = "truncate" => at = "write" /\ new = Torn
                     /\ c.at = "write" => at = "sign" /\ new = c.key
                     /\ pvKeyFile' = [pvKeyFile EXCEPT ![a] = new]
                     /\ pvCall' = [pvCall EXCEPT ![s] = [c EXCEPT !.at = at]]
  <2>1. CASE c.at = "truncate"
    BY <1>0, <2>1 DEF WriteKeyFile
  <2>2. CASE c.at = "write"
    BY <1>0, <1>3, <2>2 DEF WriteKeyFile
  <2> QED BY <1>2, <2>1, <2>2
<1>5. pvCall'[s] = [c EXCEPT !.at = at] /\ \A t \in PvServers \ {s} : pvCall'[t] = pvCall[t]
  BY <1>4 DEF ProvInv
<1>6. /\ pvCall'[s] \in SignCalls /\ pvCall'[s].at = at /\ pvCall'[s].agent = a /\ pvCall'[s].key = c.key
  BY <1>0, <1>3, <1>4, <1>5 DEF SignCalls
<1>7. /\ pvKeyFile'[a] = new /\ \A b \in PvAgents \ {a} : pvKeyFile'[b] = pvKeyFile[b]
      /\ pvKeyFile' \in [PvAgents -> Nat \cup {Torn}]
  BY <1>3, <1>4 DEF ProvInv
<1> HIDE DEF c
<1>8. ASSUME NEW t \in PvServers PROVE SignCallIsSound(pvCall'[t])
  BY <1>5, <1>6 DEF ProvInv, SignCallIsSound
<1>9. ASSUME NEW b \in PvAgents \ {a}, OneKey(b) PROVE OneKey(b)'
  <2>1. ASSUME NEW t \in PvServers PROVE CallFits(pvCall[t], b)'
    <3>1. CASE t = s
      BY <1>4, <1>6, <3>1 DEF CallFits
    <3>2. CASE t # s
      <4>1. CallFits(pvCall[t], b) /\ pvCall'[t] = pvCall[t]
        BY <1>5, <1>9, <3>2 DEF OneKey
      <4> QED BY <1>1, <1>7, <4>1 DEF CallFits, RecordFits
    <3> QED BY <3>1, <3>2
  <2>2. ASSUME NEW t \in PvServers, Makes(pvCall'[t], b) PROVE Makes(pvCall[t], b)
    BY <1>5, <1>6, <2>2 DEF Makes
  <2> QED BY <1>1, <1>7, <1>9, <2>1, <2>2 DEF OneKey, RecordFits, Makes
<1>10. ASSUME OneKey(a) PROVE OneKey(a)'
  <2>1. Makes(pvCall[s], a)
    BY <1>0, <1>2 DEF Makes, c
  <2>2. ASSUME NEW t \in PvServers \ {s} PROVE ~Makes(pvCall[t], a)
    BY <1>10, <2>1 DEF OneKey
  <2>3. pvKeyFile[a] \in {Absent, Torn} /\ ~(pvKeyFile[a] > 0)
    BY <1>0, <1>2, <1>10 DEF OneKey, CallFits, c, Absent, Torn
  <2>4. ASSUME NEW t \in PvServers PROVE CallFits(pvCall[t], a)'
    <3>1. CASE t = s
      BY <1>2, <1>4, <1>6, <1>7, <3>1 DEF CallFits
    <3>2. CASE t # s
      <4>1. pvCall'[t] = pvCall[t] /\ CallFits(pvCall[t], a) /\ ~Makes(pvCall[t], a)
        BY <1>5, <1>10, <2>2, <3>2 DEF OneKey
      <4>2. ~(pvCall[t].at = "sign" /\ pvCall[t].agent = a)
        <5> SUFFICES ASSUME pvCall[t].at = "sign" /\ pvCall[t].agent = a PROVE FALSE
          OBVIOUS
        <5>1. pvCall[t] \in SignCalls
          BY DEF ProvInv, SignCallIsSound, PvIdle
        <5>2. pvCall[t].key \in Nat \ {0} /\ pvCall[t].key = pvKeyFile[a]
          BY <4>1, <5>1 DEF SignCalls, CallFits
        <5> QED BY <2>3, <5>2
      <4>3. ~(pvCall[t].at = "insert" /\ pvCall[t].rec.agent = a)
        BY <2>3, <4>1 DEF CallFits, RecordFits
      <4> QED BY <4>1, <4>2, <4>3 DEF CallFits, Makes
    <3> QED BY <3>1, <3>2
  <2>5. ASSUME NEW t \in PvServers, Makes(pvCall'[t], a) PROVE t = s
    BY <1>5, <2>2, <2>5 DEF Makes
  <2>6. \A d \in PvDocs : ~(pvTable[d] # NoRec /\ pvTable[d].agent = a)
    BY <1>10, <2>3 DEF OneKey, RecordFits
  <2> QED BY <1>1, <2>4, <2>5, <2>6 DEF OneKey, Makes
<1>11. ASSUME NEW b \in PvAgents PROVE pvMade'[b] > 1 \/ OneKey(b)'
  BY <1>1, <1>9, <1>10 DEF ProvInv
<1>12. DOMAIN pvCall' = PvServers
  BY <1>4 DEF ProvInv
<1> QED BY <1>1, <1>7, <1>8, <1>11, <1>12 DEF ProvInv, SignCallIsSound

\* A call ends, or goes on with a record that fits, and the table may get it.
LEMMA CallEndsKeeps ==
  ASSUME ProvInv, NEW s \in PvServers, NEW c, pvCall' = [pvCall EXCEPT ![s] = c],
         c = PvIdle \/ (c.at = "insert" /\ c.doc \in PvDocs /\ RecordIsSound(c.doc, c.rec)
                        /\ \A a \in PvAgents : OneKey(a) /\ c.rec.agent = a => RecordFits(c.rec, a)),
         UNCHANGED <<pvKeyFile, pvKeys, pvMade>>,
         \/ pvTable' = pvTable
         \/ pvCall[s].at = "insert" /\ pvTable' = [pvTable EXCEPT ![pvCall[s].doc] = pvCall[s].rec]
  PROVE  ProvInv'
<1>1. pvCall'[s] = c /\ \A t \in PvServers \ {s} : pvCall'[t] = pvCall[t]
  BY DEF ProvInv
<1>2. ASSUME NEW t \in PvServers PROVE SignCallIsSound(pvCall'[t])
  BY <1>1 DEF ProvInv, SignCallIsSound
<1>3. ASSUME NEW d \in PvDocs
      PROVE  \/ pvTable'[d] = pvTable[d]
             \/ pvCall[s].at = "insert" /\ d = pvCall[s].doc /\ pvTable'[d] = pvCall[s].rec
  BY DEF ProvInv
<1>4. ASSUME pvCall[s].at = "insert" PROVE RecordIsSound(pvCall[s].doc, pvCall[s].rec)
  BY <1>4 DEF ProvInv, SignCallIsSound, SignCalls, PvIdle
<1>5. ASSUME NEW d \in PvDocs PROVE pvTable'[d] = NoRec \/ RecordIsSound(d, pvTable'[d])
  BY <1>3, <1>4 DEF ProvInv
<1>6. ASSUME NEW a \in PvAgents, OneKey(a) PROVE OneKey(a)'
  <2>1. ASSUME NEW t \in PvServers PROVE CallFits(pvCall[t], a)'
    <3>1. CASE t # s
      BY <1>1, <1>6, <3>1 DEF OneKey, CallFits, RecordFits
    <3>2. CASE t = s /\ c = PvIdle
      BY <1>1, <3>2 DEF CallFits, PvIdle
    <3>3. CASE t = s /\ c # PvIdle
      <4>1. c.at = "insert" /\ (c.rec.agent = a => RecordFits(c.rec, a))
        BY <1>6, <3>3
      <4> QED BY <1>1, <3>3, <4>1 DEF CallFits, RecordFits
    <3> QED BY <3>1, <3>2, <3>3
  <2>2. ASSUME NEW t \in PvServers, Makes(pvCall'[t], a) PROVE Makes(pvCall[t], a)
    BY <1>1, <2>2 DEF Makes, PvIdle
  <2>3. ASSUME NEW d \in PvDocs, pvTable'[d] # NoRec, pvTable'[d].agent = a PROVE RecordFits(pvTable[d], a)'
    <3>1. RecordFits(pvTable'[d], a)
      BY <1>3, <1>6, <2>3 DEF OneKey, CallFits
    <3> QED BY <3>1 DEF RecordFits
  <2> QED BY <1>6, <2>1, <2>2, <2>3 DEF OneKey, Makes
<1>7. ASSUME NEW a \in PvAgents PROVE pvMade'[a] > 1 \/ OneKey(a)'
  BY <1>6 DEF ProvInv
<1>8. DOMAIN pvCall' = PvServers /\ DOMAIN pvTable' = PvDocs
  BY DEF ProvInv
<1> QED BY <1>2, <1>5, <1>7, <1>8 DEF ProvInv, SignCallIsSound

LEMMA SignRecordKeeps ==
  ASSUME ProvInv, NEW s \in PvServers, SignRecord(s)
  PROVE  ProvInv'
<1> DEFINE c == pvCall[s]
           parent == IF c.parent = NoParent THEN Zeros ELSE get_chain_hash(c.parent)
           body == [agent |-> c.agent, content_hash |-> c.content, parent_hash |-> parent]
           rec == [agent |-> c.agent, content_hash |-> c.content, parent_hash |-> parent,
                   signature |-> <<c.key, sign_message(c.doc, body)>>]
           next == [at |-> "insert", doc |-> c.doc, rec |-> rec]
<1>1. c \in SignCalls /\ c.at = "sign"
  BY DEF SignRecord, ProvInv, SignCallIsSound, PvIdle
<1>2. /\ c.agent \in PvAgents /\ c.doc \in PvDocs /\ c.parent \in PvDocs \cup {NoParent}
      /\ c.key \in Nat \ {0}
  BY <1>1 DEF SignCalls
<1>3. UNCHANGED <<pvTable, pvKeyFile, pvKeys, pvMade>>
  BY DEF SignRecord
<1>4. CASE c.parent # NoParent /\ pvTable[c.parent] = NoRec
  <2>1. pvCall' = [pvCall EXCEPT ![s] = PvIdle]
    BY <1>4 DEF SignRecord
  <2> QED BY <1>3, <2>1, CallEndsKeeps
<1>5. CASE ~(c.parent # NoParent /\ pvTable[c.parent] = NoRec)
  <2>1. pvCall' = [pvCall EXCEPT ![s] = next]
    BY <1>5 DEF SignRecord
  <2>2. \E n \in Nat : HasDepth(parent, n)
    <3>1. CASE c.parent = NoParent
      <4> DEFINE f == [i \in {0} |-> Zeros]
      <4>1. IsLineage(f, 0, Zeros)
        BY DEF IsLineage
      <4>2. parent = Zeros
        BY <3>1
      <4> QED BY <4>1, <4>2 DEF HasDepth
    <3>2. CASE c.parent # NoParent
      <4>1. c.parent \in PvDocs /\ RecordIsSound(c.parent, pvTable[c.parent])
        BY <1>2, <1>5, <3>2 DEF ProvInv
      <4>2. PICK n \in Nat : HasDepth(pvTable[c.parent].parent_hash, n)
        BY <4>1 DEF RecordIsSound
      <4>3. HasDepth(chain_hash(c.parent, pvTable[c.parent]), n + 1)
        BY <4>2, HashIsDeeper
      <4>4. parent = chain_hash(c.parent, pvTable[c.parent])
        BY <3>2 DEF get_chain_hash, get_record
      <4>5. n + 1 \in Nat
        OBVIOUS
      <4> QED BY <4>3, <4>4, <4>5
    <3> QED BY <3>1, <3>2
  <2> HIDE DEF parent, c
  <2>3. sign_message(c.doc, body) = sign_message(c.doc, rec)
    BY DEF sign_message
  <2>4. rec.agent = c.agent /\ rec.parent_hash = parent /\ rec.signature = <<c.key, sign_message(c.doc, body)>>
    OBVIOUS
  <2>5. next.at = "insert" /\ next.doc = c.doc /\ next.rec = rec
    OBVIOUS
  <2> HIDE DEF rec, body, next
  <2>6. RecordIsSound(c.doc, rec)
    BY <1>2, <2>2, <2>3, <2>4 DEF RecordIsSound
  <2>7. ASSUME NEW a \in PvAgents, OneKey(a), rec.agent = a PROVE RecordFits(rec, a)
    <3>1. CallFits(c, a)
      BY <2>7 DEF OneKey, c
    <3> QED BY <1>1, <1>2, <2>4, <2>7, <3>1 DEF CallFits, RecordFits
  <2>8. /\ next.doc \in PvDocs /\ RecordIsSound(next.doc, next.rec)
        /\ \A a \in PvAgents : OneKey(a) /\ next.rec.agent = a => RecordFits(next.rec, a)
    BY <1>2, <2>5, <2>6, <2>7
  <2> QED BY <1>3, <2>1, <2>5, <2>8, CallEndsKeeps
<1> QED BY <1>4, <1>5

LEMMA ProvStep ==
  ASSUME ProvInv, ProvNext \/ UNCHANGED pvVars
  PROVE  ProvInv'
<1>1. CASE UNCHANGED pvVars
  BY <1>1 DEF pvVars, ProvInv, SignCallIsSound, OneKey, Makes, CallFits, RecordFits
<1>2. CASE ProvNext
  <2>1. PICK s \in PvServers :
          \/ \E a \in PvAgents, d \in PvDocs, p \in PvDocs \cup {NoParent}, c \in {"c1", "c2"} : FindIdentity(s, a, d, p, c)
          \/ WriteKeyFile(s) \/ SignRecord(s) \/ InsertRecord(s) \/ ServerDies(s)
    BY <1>2 DEF ProvNext
  <2>2. CASE InsertRecord(s)
    BY <2>2, CallEndsKeeps DEF InsertRecord
  <2>3. CASE ServerDies(s)
    BY <2>3, CallEndsKeeps DEF ServerDies
  <2> QED BY <2>1, <2>2, <2>3, FindIdentityKeeps, WriteKeyFileKeeps, SignRecordKeeps
<1> QED BY <1>1, <1>2

\* With one identity, the agent's records verify under its key file.
LEMMA ProvInvVerifies == ProvInv => BadOnlyByLostKey
<1> SUFFICES ASSUME ProvInv, NEW d \in provenance_verify, ~(pvMade[pvTable[d].agent] > 1) PROVE FALSE
  BY DEF BadOnlyByLostKey
<1> DEFINE keys == [a \in {b \in PvAgents : pvKeyFile[b] > 0} |-> pvKeyFile[a]]
           rec == pvTable[d]
<1>1. d \in PvDocs /\ rec # NoRec /\ ~(rec.agent \in DOMAIN keys /\ verify_signature(d, rec, keys[rec.agent]))
  BY DEF provenance_verify, verify_all, get_record
<1>2. RecordIsSound(d, rec)
  BY <1>1 DEF ProvInv
<1>3. rec.agent \in PvAgents /\ rec.signature = <<rec.signature[1], sign_message(d, rec)>>
  BY <1>2 DEF RecordIsSound
<1>4. RecordFits(rec, rec.agent)
  BY <1>1, <1>3 DEF ProvInv, OneKey
<1>5. rec.agent \in DOMAIN keys /\ keys[rec.agent] = pvKeyFile[rec.agent]
  BY <1>3, <1>4 DEF RecordFits
<1> HIDE DEF keys, rec
<1> QED BY <1>1, <1>3, <1>4, <1>5 DEF RecordFits, verify_signature

\* The walk's function is the one its equation describes: it exists.
LEMMA WalkSteps ==
  ASSUME NEW d, ProvInv
  PROVE  \A n \in 0..(Cardinality(PvDocs) + 1) :
            ChainWalk(d)[n] = IF n = 0 THEN [doc |-> d, visited |-> {}, answer |-> "walking"]
                              ELSE VerifyStep(ChainWalk(d)[n - 1])
<1> DEFINE max == Cardinality(PvDocs) + 1
           start == [doc |-> d, visited |-> {}, answer |-> "walking"]
           IsWalkTo(f, m) == f = [n \in 0..m |-> IF n = 0 THEN start ELSE VerifyStep(f[n - 1])]
           Bad == {m \in 0..max : ~\E f : IsWalkTo(f, m)}
<1>0. Cardinality(PvDocs) \in Nat /\ max \in Nat
  BY ProvAssumption, FS_CardinalityType
<1> HIDE DEF start, max
<1>1. \A m \in 0..max : \E f : IsWalkTo(f, m)
  <2> SUFFICES ASSUME Bad # {} PROVE FALSE
    OBVIOUS
  <2>1. Bad \subseteq Nat
    BY <1>0
  <2>2. PICK k \in Bad : \A j \in Bad : k <= j
    <3> HIDE DEF Bad
    <3> QED BY <2>1, LeastNat
  <2>3. k \in 0..max /\ ~\E f : IsWalkTo(f, k)
    OBVIOUS
  <2>4. k # 0
    <3> SUFFICES ASSUME k = 0 PROVE FALSE
      OBVIOUS
    <3> DEFINE g == [n \in 0..0 |-> start]
    <3>1. IsWalkTo(g, 0)
      OBVIOUS
    <3> HIDE DEF g, IsWalkTo
    <3> QED BY <2>3, <3>1
  <2>5. k - 1 \in 0..max /\ k - 1 \notin Bad
    <3>1. k - 1 \in 0..max /\ ~(k <= k - 1)
      BY <1>0, <2>3, <2>4
    <3> HIDE DEF Bad
    <3> QED BY <2>2, <3>1
  <2>6. PICK f : IsWalkTo(f, k - 1)
    BY <2>5
  <2> DEFINE g == [n \in 0..k |-> IF n = k THEN VerifyStep(f[k - 1]) ELSE f[n]]
  <2>7. ASSUME NEW n \in 0..k PROVE g[n] = IF n = 0 THEN start ELSE VerifyStep(g[n - 1])
    <3>1. CASE n = k
      <4>1. k - 1 \in 0..k /\ k - 1 # k
        BY <2>3, <2>4
      <4>2. g[k - 1] = f[k - 1] /\ g[n] = VerifyStep(f[k - 1])
        BY <3>1, <4>1
      <4> QED BY <2>4, <3>1, <4>2
    <3>2. CASE n # k
      <4>1. n \in 0..(k - 1) /\ (n # 0 => n - 1 \in 0..k /\ n - 1 # k)
        BY <2>3, <3>2
      <4>2. f[n] = IF n = 0 THEN start ELSE VerifyStep(f[n - 1])
        BY <2>6, <4>1
      <4>3. g[n] = f[n] /\ (n # 0 => g[n - 1] = f[n - 1])
        BY <3>2, <4>1
      <4> QED BY <4>2, <4>3
    <3> QED BY <3>1, <3>2
  <2>8. g = [n \in 0..k |-> g[n]]
    OBVIOUS
  <2> HIDE DEF g
  <2>9. IsWalkTo(g, k)
    BY <2>7, <2>8
  <2> HIDE DEF IsWalkTo
  <2> QED BY <2>3, <2>9
<1>2. \E f : IsWalkTo(f, max)
  <2> HIDE DEF IsWalkTo
  <2> QED BY <1>0, <1>1
<1>3. ChainWalk(d) = CHOOSE f : IsWalkTo(f, max)
  BY DEF ChainWalk, start, max
<1>4. IsWalkTo(ChainWalk(d), max)
  <2> HIDE DEF IsWalkTo
  <2> QED BY <1>2, <1>3
<1> DEFINE w == ChainWalk(d)
<1>5. w = [n \in 0..max |-> IF n = 0 THEN start ELSE VerifyStep(w[n - 1])]
  BY <1>4
<1>6. \A n \in 0..max : w[n] = IF n = 0 THEN start ELSE VerifyStep(w[n - 1])
  <2> HIDE DEF w
  <2> QED BY <1>5
<1> QED BY <1>6 DEF start, max

\* A walk: the documents it has visited are all deeper than where it is.
Deeper(x, y) ==
    \E n, m \in Nat : /\ HasDepth(pvTable[x].parent_hash, n)
                      /\ HasDepth(pvTable[y].parent_hash, m) /\ n > m
ChainAnswers == {"walking", "cycle", "not_found", "bad_signature", "ok", "missing_parent"}
ChainStates == [doc : PvDocs, visited : SUBSET PvDocs, answer : ChainAnswers]
WalkDescends(w, n) ==
    /\ w.answer # "cycle"
    /\ w.answer = "walking" => /\ Cardinality(w.visited) = n
                               /\ \A x \in w.visited : Deeper(x, w.doc)

LEMMA SameDepth ==
  ASSUME NEW h, NEW n \in Nat, NEW m \in Nat, HasDepth(h, n), HasDepth(h, m)
  PROVE  n = m
BY DepthIsUnique

LEMMA ParentIsHigher ==
  ASSUME ProvInv, NEW y \in PvDocs, NEW q \in ParentsOf(pvTable[y])
  PROVE  /\ Deeper(y, q)
         /\ \A x : Deeper(x, y) => Deeper(x, q)
<1>1. q \in PvDocs /\ pvTable[q] # NoRec /\ chain_hash(q, pvTable[q]) = pvTable[y].parent_hash
  BY DEF ParentsOf, get_chain_hash, get_record
<1>2. RecordIsSound(q, pvTable[q])
  BY <1>1 DEF ProvInv
<1>3. PICK m \in Nat : HasDepth(pvTable[q].parent_hash, m)
  BY <1>2 DEF RecordIsSound
<1>4. HasDepth(pvTable[y].parent_hash, m + 1) /\ m + 1 \in Nat /\ m + 1 > m
  BY <1>1, <1>3, HashIsDeeper
<1>5. Deeper(y, q)
  BY <1>3, <1>4 DEF Deeper
<1>6. ASSUME NEW x, Deeper(x, y) PROVE Deeper(x, q)
  <2>1. PICK k \in Nat, j \in Nat : /\ HasDepth(pvTable[x].parent_hash, k)
                                    /\ HasDepth(pvTable[y].parent_hash, j) /\ k > j
    BY <1>6 DEF Deeper
  <2>2. j = m + 1
    BY <1>4, <2>1, SameDepth
  <2>3. k > m
    BY <2>1, <2>2
  <2> QED BY <1>3, <2>1, <2>3 DEF Deeper
<1> QED BY <1>5, <1>6

LEMMA VerifyStepDescends ==
  ASSUME ProvInv, NEW w \in ChainStates, NEW n \in Nat, WalkDescends(w, n)
  PROVE  VerifyStep(w) \in ChainStates /\ WalkDescends(VerifyStep(w), n + 1)
<1> DEFINE v == VerifyStep(w)
           rec == get_record(w.doc)
<1>1. /\ w.doc \in PvDocs /\ w.visited \in SUBSET PvDocs /\ w.answer \in ChainAnswers
  BY DEF ChainStates
<1>2. CASE w.answer # "walking"
  BY <1>2 DEF VerifyStep, WalkDescends
<1>3. ASSUME NEW a \in ChainAnswers, a \notin {"cycle", "walking"}, v = [w EXCEPT !.answer = a]
      PROVE  v \in ChainStates /\ WalkDescends(v, n + 1)
  <2>1. v \in ChainStates /\ v.answer = a
    BY <1>3 DEF ChainStates
  <2> HIDE DEF v
  <2> QED BY <1>3, <2>1 DEF WalkDescends
<1>4. ASSUME w.answer = "walking" PROVE w.doc \notin w.visited
  <2> SUFFICES ASSUME Deeper(w.doc, w.doc) PROVE FALSE
    BY <1>4 DEF WalkDescends
  <2>1. PICK k \in Nat, j \in Nat : /\ HasDepth(pvTable[w.doc].parent_hash, k)
                                    /\ HasDepth(pvTable[w.doc].parent_hash, j) /\ k > j
    BY DEF Deeper
  <2>2. k = j
    BY <2>1, SameDepth
  <2> QED BY <2>1, <2>2
<1>5. CASE /\ w.answer = "walking"
           /\ rec = NoRec \/ w.doc \in provenance_verify \/ rec.parent_hash = Zeros \/ ParentsOf(rec) = {}
  <2>1. \E a \in {"not_found", "bad_signature", "ok", "missing_parent"} : v = [w EXCEPT !.answer = a]
    BY <1>4, <1>5 DEF VerifyStep
  <2>2. PICK a \in {"not_found", "bad_signature", "ok", "missing_parent"} : v = [w EXCEPT !.answer = a]
    BY <2>1
  <2>3. a \in ChainAnswers /\ a \notin {"cycle", "walking"}
    BY DEF ChainAnswers
  <2> HIDE DEF v
  <2>4. v \in ChainStates /\ WalkDescends(v, n + 1)
    BY <1>3, <2>2, <2>3
  <2> QED BY <2>4 DEF v
<1>6. CASE /\ w.answer = "walking"
           /\ ~(rec = NoRec \/ w.doc \in provenance_verify \/ rec.parent_hash = Zeros \/ ParentsOf(rec) = {})
  <2> DEFINE q == CHOOSE q \in ParentsOf(rec) : TRUE
  <2>1. v = [doc |-> q, visited |-> w.visited \cup {w.doc}, answer |-> "walking"]
    BY <1>4, <1>6 DEF VerifyStep
  <2>2. q \in ParentsOf(pvTable[w.doc])
    BY <1>6 DEF get_record
  <2>3. q \in PvDocs
    BY <2>2 DEF ParentsOf
  <2> HIDE DEF q, v
  <2>4. v \in ChainStates /\ v.doc = q /\ v.visited = w.visited \cup {w.doc} /\ v.answer = "walking"
    <3>1. w.visited \cup {w.doc} \in SUBSET PvDocs /\ "walking" \in ChainAnswers
      BY <1>1 DEF ChainAnswers
    <3>2. v \in ChainStates
      BY <2>1, <2>3, <3>1, Zenon DEF ChainStates
    <3> QED BY <2>1, <3>2
  <2>5. \A x \in v.visited : Deeper(x, q)
    BY <1>1, <1>6, <2>2, <2>4, ParentIsHigher DEF WalkDescends
  <2>6. Cardinality(v.visited) = n + 1
    <3>1. IsFiniteSet(w.visited)
      BY <1>1, ProvAssumption, FS_Subset
    <3>2. Cardinality(w.visited) = n /\ w.doc \notin w.visited
      BY <1>4, <1>6 DEF WalkDescends
    <3> QED BY <2>4, <3>1, <3>2, FS_AddElement, ZenonT(40)
  <2> QED BY <2>4, <2>5, <2>6 DEF WalkDescends, v
<1> QED BY <1>2, <1>5, <1>6

LEMMA ProvInvEnds == ProvInv => ChainsHaveAnEnd
<1> SUFFICES ASSUME ProvInv, NEW d \in PvDocs
             PROVE  prov_verify_chain(d) \notin {"cycle", "walking"}
  BY DEF ChainsHaveAnEnd
<1> DEFINE max == Cardinality(PvDocs) + 1
           w == ChainWalk(d)
           Good(n) == w[n] \in ChainStates /\ WalkDescends(w[n], n)
           Bad == {n \in 0..max : ~Good(n)}
<1>0. Cardinality(PvDocs) \in Nat /\ max \in Nat
  BY ProvAssumption, FS_CardinalityType
<1>1. \A n \in 0..max : w[n] = IF n = 0 THEN [doc |-> d, visited |-> {}, answer |-> "walking"] ELSE VerifyStep(w[n - 1])
  BY WalkSteps
<1> HIDE DEF w
<1>2. Good(0)
  <2>0. 0 \in 0..max
    BY <1>0
  <2>1. w[0] = [doc |-> d, visited |-> {}, answer |-> "walking"]
    BY <1>1, <2>0
  <2>2. w[0].visited = {} /\ w[0].answer = "walking"
    BY <2>1
  <2>3. d \in PvDocs /\ {} \in SUBSET PvDocs /\ "walking" \in ChainAnswers
    BY DEF ChainAnswers
  <2>4. w[0] \in ChainStates
    <3>1. PICK e \in SUBSET PvDocs : e = {}
      BY <2>3
    <3>2. w[0] = [doc |-> d, visited |-> e, answer |-> "walking"]
      BY <2>1, <3>1
    <3>3. [doc |-> d, visited |-> e, answer |-> "walking"] \in ChainStates
      BY <2>3, <3>1, Zenon DEF ChainStates
    <3> QED BY <3>2, <3>3
  <2> QED BY <2>2, <2>4, FS_EmptySet DEF WalkDescends
<1>3. Bad = {}
  <2> SUFFICES ASSUME Bad # {} PROVE FALSE
    OBVIOUS
  <2>1. Bad \subseteq Nat
    BY <1>0
  <2>2. PICK k \in Bad : \A j \in Bad : k <= j
    <3> HIDE DEF Bad
    <3> QED BY <2>1, LeastNat
  <2>3. k \in 0..max /\ ~Good(k)
    OBVIOUS
  <2>4. k # 0
    <3> HIDE DEF Good
    <3> QED BY <1>2, <2>3
  <2>5. k - 1 \in 0..max /\ k - 1 \in Nat /\ ~(k <= k - 1) /\ (k - 1) + 1 = k
    BY <1>0, <2>3, <2>4
  <2>6. Good(k - 1)
    <3>1. k - 1 \notin Bad
      <4> HIDE DEF Bad
      <4> QED BY <2>2, <2>5
    <3> HIDE DEF Good
    <3> QED BY <2>5, <3>1
  <2>7. w[k] = VerifyStep(w[k - 1])
    BY <1>1, <2>3, <2>4
  <2>8. Good(k)
    BY <2>5, <2>6, <2>7, VerifyStepDescends
  <2> QED BY <2>3, <2>8
<1>4. Good(max)
  <2> HIDE DEF Good
  <2> QED BY <1>0, <1>3
<1>5. w[max].answer # "walking"
  <2> SUFFICES ASSUME w[max].answer = "walking" PROVE FALSE
    OBVIOUS
  <2>1. Cardinality(w[max].visited) = max /\ w[max].visited \subseteq PvDocs
    BY <1>4 DEF WalkDescends, ChainStates
  <2>2. Cardinality(w[max].visited) <= Cardinality(PvDocs)
    BY <2>1, ProvAssumption, FS_Subset
  <2> QED BY <1>0, <2>1, <2>2
<1> QED BY <1>4, <1>5 DEF WalkDescends, prov_verify_chain, w

\* A parent hash is that of a record, or its document was signed again.
ParentIsKnown(h) ==
    \/ h = Zeros
    \/ /\ h[1] \in PvDocs /\ pvTable[h[1]] # NoRec
       /\ h[1] \in pvAgain \/ get_chain_hash(h[1]) = h
ParentInv ==
    /\ \A d \in PvDocs : pvTable[d] = NoRec \/ ParentIsKnown(pvTable[d].parent_hash)
    /\ \A s \in PvServers : pvCall[s].at = "insert" =>
          pvCall[s].rec # NoRec /\ ParentIsKnown(pvCall[s].rec.parent_hash)

LEMMA ParentStarts == ProvInit => ParentInv
BY DEF ProvInit, ParentInv, PvIdle

\* A step that leaves the table alone, and takes up no record to insert but
\* one whose parent is known.
TakesKnown(s) ==
    \/ pvCall'[s] = pvCall[s]
    \/ pvCall'[s].at # "insert"
    \/ pvCall'[s].rec # NoRec /\ ParentIsKnown(pvCall'[s].rec.parent_hash)
LEMMA ParentFrame ==
  ASSUME ParentInv, UNCHANGED <<pvTable, pvAgain>>, \A s \in PvServers : TakesKnown(s)
  PROVE  ParentInv'
BY DEF TakesKnown, ParentInv, ParentIsKnown, get_chain_hash, get_record

LEMMA ParentStep ==
  ASSUME ProvInv, ParentInv, ProvNext \/ UNCHANGED pvVars
  PROVE  ParentInv'
<1>0. DOMAIN pvTable = PvDocs /\ DOMAIN pvCall = PvServers
  BY DEF ProvInv
<1>1. CASE UNCHANGED pvVars
  <2>1. UNCHANGED <<pvTable, pvAgain, pvCall>>
    BY <1>1 DEF pvVars
  <2>2. \A x \in PvServers : TakesKnown(x)
    BY <2>1 DEF TakesKnown
  <2> QED BY <2>1, <2>2, ParentFrame
<1>2. ASSUME NEW s \in PvServers, NEW a \in PvAgents, NEW d \in PvDocs,
             NEW p \in PvDocs \cup {NoParent}, NEW c \in {"c1", "c2"}, FindIdentity(s, a, d, p, c)
      PROVE  ParentInv'
  <2> DEFINE call == [at |-> "sign", agent |-> a, doc |-> d, parent |-> p, content |-> c, key |-> pvKeyFile[a]]
             made == [at |-> "truncate", agent |-> a, doc |-> d, parent |-> p, content |-> c, key |-> pvKeys + 1]
  <2>1. UNCHANGED <<pvTable, pvAgain>> /\ call.at = "sign" /\ made.at = "truncate"
    BY <1>2 DEF FindIdentity
  <2>2. pvCall' = [pvCall EXCEPT ![s] = call] \/ pvCall' = [pvCall EXCEPT ![s] = made]
    BY <1>2 DEF FindIdentity
  <2> HIDE DEF call, made
  <2>8. \A x \in PvServers : TakesKnown(x)
    BY <1>0, <2>1, <2>2 DEF TakesKnown
  <2> QED BY <1>0, <2>1, <2>2, <2>8, ParentFrame
<1>3. ASSUME NEW s \in PvServers, WriteKeyFile(s) PROVE ParentInv'
  <2>1. pvCall[s].at \in {"truncate", "write"} /\ UNCHANGED <<pvTable, pvAgain>>
    BY <1>3 DEF WriteKeyFile
  <2>2. pvCall[s] \in SignCalls
    BY <2>1 DEF ProvInv, SignCallIsSound, PvIdle
  <2>3. PICK at \in {"write", "sign"} : pvCall' = [pvCall EXCEPT ![s] = [pvCall[s] EXCEPT !.at = at]]
    BY <1>3 DEF WriteKeyFile
  <2>4. pvCall'[s].at = at /\ \A t \in PvServers \ {s} : pvCall'[t] = pvCall[t]
    BY <1>0, <2>2, <2>3 DEF SignCalls
  <2>8. \A x \in PvServers : TakesKnown(x)
    BY <2>1, <2>4 DEF TakesKnown
  <2> QED BY <2>1, <2>4, <2>8, ParentFrame
<1>4. ASSUME NEW s \in PvServers, SignRecord(s) PROVE ParentInv'
  <2> DEFINE c == pvCall[s]
             parent == IF c.parent = NoParent THEN Zeros ELSE get_chain_hash(c.parent)
  <2>1. UNCHANGED <<pvTable, pvAgain>> /\ c.at = "sign"
    BY <1>4 DEF SignRecord
  <2>2. c \in SignCalls
    BY <2>1 DEF ProvInv, SignCallIsSound, PvIdle
  <2>3. c.parent \in PvDocs \cup {NoParent}
    BY <2>2 DEF SignCalls
  <2>4. CASE c.parent # NoParent /\ pvTable[c.parent] = NoRec
    <3>1. pvCall' = [pvCall EXCEPT ![s] = PvIdle]
      BY <1>4, <2>4 DEF SignRecord
    <3>8. \A x \in PvServers : TakesKnown(x)
      BY <1>0, <2>1, <3>1 DEF TakesKnown, PvIdle
    <3> QED BY <1>0, <2>1, <3>1, <3>8, ParentFrame
  <2>5. CASE ~(c.parent # NoParent /\ pvTable[c.parent] = NoRec)
    <3>1. ParentIsKnown(parent)
      <4>1. CASE c.parent = NoParent
        BY <4>1 DEF ParentIsKnown
      <4>2. CASE c.parent # NoParent
        <5>1. parent = get_chain_hash(c.parent) /\ parent[1] = c.parent
          BY <4>2 DEF get_chain_hash, chain_hash
        <5> QED BY <2>3, <2>5, <4>2, <5>1 DEF ParentIsKnown
      <4> QED BY <4>1, <4>2
    <3> DEFINE body == [agent |-> c.agent, content_hash |-> c.content, parent_hash |-> parent]
               rec == [agent |-> c.agent, content_hash |-> c.content, parent_hash |-> parent,
                       signature |-> <<c.key, sign_message(c.doc, body)>>]
               next == [at |-> "insert", doc |-> c.doc, rec |-> rec]
    <3>2. pvCall' = [pvCall EXCEPT ![s] = next]
      BY <1>4, <2>5 DEF SignRecord
    <3> HIDE DEF parent
    <3>4. rec.parent_hash = parent /\ next.rec = rec
      OBVIOUS
    <3>5. rec # NoRec
      <4>1. "parent_hash" \in DOMAIN rec /\ "parent_hash" \notin DOMAIN NoRec
        BY DEF NoRec
      <4> HIDE DEF rec
      <4> QED BY <4>1
    <3> HIDE DEF rec, next
    <3>3. /\ pvCall'[s].rec # NoRec /\ pvCall'[s].rec.parent_hash = parent
          /\ \A t \in PvServers \ {s} : pvCall'[t] = pvCall[t]
      BY <1>0, <3>2, <3>4, <3>5
    <3>8. \A x \in PvServers : TakesKnown(x)
      BY <2>1, <3>1, <3>3 DEF TakesKnown
    <3> QED BY <2>1, <3>1, <3>3, <3>8, ParentFrame
  <2> QED BY <2>4, <2>5
<1>5. ASSUME NEW s \in PvServers, InsertRecord(s) PROVE ParentInv'
  <2> DEFINE d == pvCall[s].doc
             rec == pvCall[s].rec
  <2>1. /\ pvCall[s].at = "insert" /\ pvTable' = [pvTable EXCEPT ![d] = rec]
        /\ pvAgain' = IF pvTable[d] = NoRec THEN pvAgain ELSE pvAgain \cup {d}
        /\ pvCall' = [pvCall EXCEPT ![s] = PvIdle]
    BY <1>5 DEF InsertRecord
  <2>2. d \in PvDocs /\ RecordIsSound(d, rec)
    BY <2>1 DEF ProvInv, SignCallIsSound, SignCalls, PvIdle
  <2>3. rec # NoRec
    BY <2>1 DEF ParentInv
  <2> HIDE DEF d, rec
  <2>4. pvTable'[d] = rec /\ \A q \in PvDocs \ {d} : pvTable'[q] = pvTable[q]
    BY <1>0, <2>1, <2>2
  <2>5. ASSUME NEW h, ParentIsKnown(h) PROVE ParentIsKnown(h)'
    BY <2>1, <2>2, <2>3, <2>4, <2>5 DEF ParentIsKnown, get_chain_hash, get_record
  <2>6. ParentIsKnown(rec.parent_hash)
    BY <2>1 DEF ParentInv, rec
  <2>7. ASSUME NEW q \in PvDocs PROVE pvTable'[q] = NoRec \/ ParentIsKnown(pvTable[q].parent_hash)'
    BY <2>4, <2>5, <2>6 DEF ParentInv
  <2>8. ASSUME NEW t \in PvServers, pvCall'[t].at = "insert"
        PROVE  pvCall'[t].rec # NoRec /\ ParentIsKnown(pvCall[t].rec.parent_hash)'
    <3>1. t # s /\ pvCall'[t] = pvCall[t]
      BY <1>0, <2>1, <2>8 DEF PvIdle
    <3> QED BY <2>5, <2>8, <3>1 DEF ParentInv
  <2> QED BY <2>7, <2>8 DEF ParentInv
<1>6. ASSUME NEW s \in PvServers, ServerDies(s) PROVE ParentInv'
  <2>1. UNCHANGED <<pvTable, pvAgain>> /\ pvCall' = [pvCall EXCEPT ![s] = PvIdle]
    BY <1>6 DEF ServerDies
  <2>8. \A x \in PvServers : TakesKnown(x)
    BY <1>0, <2>1 DEF TakesKnown, PvIdle
  <2> QED BY <1>0, <2>1, <2>8, ParentFrame
<1> QED BY <1>1, <1>2, <1>3, <1>4, <1>5, <1>6 DEF ProvNext

LEMMA ParentInvNames == ParentInv => OrphansWereReplaced
BY DEF ParentInv, ParentIsKnown, OrphansWereReplaced, ParentsOf

\* Keys: chains end, a signature fails only by a key another server replaced,
\* a parent hash matches no record only below a document signed again, and
\* blobs stay readable under their master key.
THEOREM KeysAreNeverLost == Spec => []KeysAreKept
<1>1. Init => KeyInv /\ ProvInv /\ ParentInv
  BY KeyInit, ProvStarts, ParentStarts DEF Init
<1>2. KeyInv /\ ProvInv /\ ParentInv /\ [Next]_vars => (KeyInv /\ ProvInv /\ ParentInv)'
  BY OneComponentMoves, KeyStep, ProvStep, ParentStep
<1>3. KeyInv /\ ProvInv /\ ParentInv => KeysAreKept
  BY KeyInvReads, ProvInvEnds, ProvInvVerifies, ParentInvNames DEF KeysAreKept
<1> QED BY <1>1, <1>2, <1>3, PTL DEF Spec

\* Roles: between a change and its invalidation apart, and but for an entry put
\* back from an older lookup, enforce_cached answers what enforce answers.
THEOREM CachedRolesAgree == Spec => []CachedCheckAgrees
<1>1. Init => RoleInv
  BY RoleInit DEF Init
<1>2. RoleInv /\ [Next]_vars => RoleInv'
  BY OneComponentMoves, RoleStep
<1> QED BY <1>1, <1>2, RoleInvAgrees, PTL DEF Spec

-----------------------------------------------------------------------------
(* Event log.  A row's id is above whatever a running ingest has seen; a    *)
(* batch whose snapshot is the newest has only new events; a running        *)
(* archive has copied every old row up to the id it saw last, and what the  *)
(* lake has of a row that is plain text has the text.                       *)
LakeIds == {evLake[i].id : i \in DOMAIN evLake}
SingleIsSound(c) ==
    /\ c \in [at : {"session", "insert"}, ev : EvEvents, seen : 0..evLastId]
    /\ \A r \in evRows : dedup_key(r) = dedup_key(c.ev) => c.seen < r.id
    /\ c.at = "insert" /\ c.ev.session # NoSession => c.ev.session \in DOMAIN evSess
BatchIsSound(c) ==
    /\ c \in [at : {"batch"}, bad : BOOLEAN, new : {c.new}, old : BOOLEAN]
    /\ c.new \in Seq(Range(c.new))
    /\ \A i, j \in DOMAIN c.new : dedup_key(c.new[i]) = dedup_key(c.new[j]) => i = j
    /\ c.old = FALSE => \A i \in DOMAIN c.new : ~Stored(c.new[i])
ArchiveIsSound(c) ==
    /\ c.at = "archive" /\ c.last \in 0..evLastId
    /\ \A r \in evRows : r.ts < c.cutoff /\ r.id <= c.last => r.id \in LakeIds
EvCallIsSound(c) == c = EvIdle \/ SingleIsSound(c) \/ BatchIsSound(c) \/ ArchiveIsSound(c)
LakeFits ==
    /\ \A i \in DOMAIN evLake : evLake[i].id <= evLastId
    /\ \A i \in DOMAIN evLake, r \in evRows : evLake[i].id = r.id /\ ~r.big => evLake[i].text
LogInv ==
    /\ evLastId \in Nat /\ DOMAIN evPc = EvProcs /\ evLake \in Seq([id : Nat, text : BOOLEAN])
    /\ \A r \in evRows : r.id \in 1..evLastId
    /\ \A r, s \in evRows : r.id = s.id => r = s
    /\ TwiceOnlyByOverlap /\ GoneOnlyIfLate /\ LogIsSearchable /\ LakeFits
    /\ \A p \in EvProcs : EvCallIsSound(evPc[p])

LEMMA LogInit == EventLogInit => LogInv
<1> SUFFICES ASSUME EventLogInit PROVE LogInv
  OBVIOUS
<1>1. evRows = {} /\ evLastId = 0 /\ evFts = {} /\ evGone = {} /\ evLake = <<>>
  BY DEF EventLogInit
<1>2. evLake \in Seq([id : Nat, text : BOOLEAN])
  BY <1>1
<1>3. evFts = Fts(evRows)
  BY <1>1 DEF Fts
<1>4. DOMAIN evPc = EvProcs /\ \A p \in EvProcs : EvCallIsSound(evPc[p])
  BY DEF EventLogInit, EvCallIsSound
<1>5. LakeFits
  BY <1>1 DEF LakeFits
<1> QED BY <1>1, <1>2, <1>3, <1>4, <1>5 DEF LogInv, TwiceOnlyByOverlap, GoneOnlyIfLate, LogIsSearchable

\* The n-th number of a set: one for each n up to the size, each number once.
LEMMA NthFacts ==
  ASSUME NEW m \in Nat, NEW F, F \subseteq 1..m
  PROVE  /\ Cardinality(F) \in Nat
         /\ \A n \in 1..Cardinality(F) : Nth(F, n) \in F
         /\ \A n, k \in 1..Cardinality(F) : Nth(F, n) = Nth(F, k) => n = k
         /\ \A x \in F : \E n \in 1..Cardinality(F) : Nth(F, n) = x
<1>1. /\ Cardinality(F) \in 0..m
      /\ \A k \in F : Rank(F, k) \in 1..Cardinality(F)
      /\ \A j, k \in F : j < k => Rank(F, j) < Rank(F, k)
      /\ \A r \in 1..Cardinality(F) : \E k \in F : Rank(F, k) = r
  BY RankFacts
<1>2. \A n : Nth(F, n) = CHOOSE k \in F : Rank(F, k) = n
  BY DEF Nth, Rank, Upto
<1>3. \A n \in 1..Cardinality(F) : Nth(F, n) \in F /\ Rank(F, Nth(F, n)) = n
  BY <1>1, <1>2
<1>4. ASSUME NEW x \in F PROVE \E n \in 1..Cardinality(F) : Nth(F, n) = x
  <2> DEFINE n == Rank(F, x)
             y == Nth(F, n)
  <2>1. n \in 1..Cardinality(F)
    BY <1>1
  <2>2. y \in F /\ Rank(F, y) = n
    BY <1>3, <2>1
  <2>3. x \in Nat /\ y \in Nat /\ Rank(F, x) \in Nat /\ Rank(F, y) \in Nat
    <3>1. \A k \in F : k \in Nat
      OBVIOUS
    <3>2. \A k \in 1..Cardinality(F) : k \in Nat
      BY <1>1
    <3> QED BY <1>1, <2>2, <3>1, <3>2
  <2> HIDE DEF y
  <2>4. ~(x < y) /\ ~(y < x)
    BY <1>1, <2>2, <2>3
  <2>5. x = y
    BY <2>3, <2>4
  <2> QED BY <2>1, <2>5 DEF y
<1> QED BY <1>1, <1>3, <1>4

\* The new lines of a file as a sequence: unknown keys, each once.
LEMMA BatchNewFacts ==
  ASSUME NEW f, f \in Seq(Range(f))
  PROVE  /\ BatchNew(f) \in Seq(Range(BatchNew(f)))
         /\ \A i, j \in DOMAIN BatchNew(f) : dedup_key(BatchNew(f)[i]) = dedup_key(BatchNew(f)[j]) => i = j
         /\ \A i \in DOMAIN BatchNew(f) : ~Stored(BatchNew(f)[i])
<1> DEFINE F == NewLines(f)
           new == BatchNew(f)
           n == Cardinality(F)
<1>1. Len(f) \in Nat /\ F \subseteq 1..Len(f)
  BY DEF NewLines
<1>2. /\ n \in Nat
      /\ \A i \in 1..n : Nth(F, i) \in F
      /\ \A i, k \in 1..n : Nth(F, i) = Nth(F, k) => i = k
  BY <1>1, NthFacts
<1>3. new = [i \in 1..n |-> f[Nth(F, i)]]
  BY DEF BatchNew
<1>4. \A k \in F : /\ k \in Nat /\ ~Stored(f[k])
                   /\ \A i \in 1..(k - 1) : dedup_key(f[i]) # dedup_key(f[k])
  BY <1>1 DEF NewLines
<1> HIDE DEF F, new, n
<1>5. DOMAIN new = 1..n /\ \A i \in 1..n : new[i] = f[Nth(F, i)]
  BY <1>3
<1>6. new \in Seq(Range(new))
  <2>1. new \in [1..n -> Range(new)]
    BY <1>3, <1>5 DEF Range
  <2> QED BY <1>2, <2>1
<1>7. ASSUME NEW i \in 1..n, NEW j \in 1..n, dedup_key(new[i]) = dedup_key(new[j]) PROVE i = j
  <2> DEFINE x == Nth(F, i)
             y == Nth(F, j)
  <2>1. x \in F /\ y \in F /\ dedup_key(f[x]) = dedup_key(f[y])
    BY <1>2, <1>5, <1>7
  <2> HIDE DEF x, y
  <2>2. x \in Nat /\ y \in Nat /\ x \in 1..Len(f) /\ y \in 1..Len(f)
    BY <1>1, <1>4, <2>1
  <2>3. ~(x \in 1..(y - 1)) /\ ~(y \in 1..(x - 1))
    BY <1>4, <2>1
  <2>4. x = y
    BY <1>1, <2>2, <2>3
  <2> QED BY <1>2, <2>4 DEF x, y
<1>8. ASSUME NEW i \in 1..n PROVE ~Stored(new[i])
  BY <1>2, <1>4, <1>5
<1> QED BY <1>5, <1>6, <1>7, <1>8 DEF new

\* The rows of an archive: exactly those before the cutoff.
LEMMA ByIdFacts ==
  ASSUME LogInv, NEW R, R \subseteq evRows
  PROVE  /\ \E n \in Nat : DOMAIN ById(R) = 1..n
         /\ \A n \in DOMAIN ById(R) : ById(R)[n] \in R
         /\ \A r \in R : \E n \in DOMAIN ById(R) : ById(R)[n] = r
<1> DEFINE ids == {r.id : r \in R}
           n == Cardinality(ids)
           seq == ById(R)
<1>1. ids \subseteq 1..evLastId /\ evLastId \in Nat
  BY DEF LogInv
<1> HIDE DEF ids
<1>2. /\ n \in Nat
      /\ \A i \in 1..n : Nth(ids, i) \in ids
      /\ \A x \in ids : \E i \in 1..n : Nth(ids, i) = x
  BY <1>1, NthFacts
<1>3. seq = [i \in 1..n |-> CHOOSE r \in R : r.id = Nth(ids, i)]
  BY DEF ById, ids
<1> HIDE DEF n, seq
<1>4. DOMAIN seq = 1..n /\ \A i \in 1..n : seq[i] = CHOOSE r \in R : r.id = Nth(ids, i)
  BY <1>3
<1>5. ASSUME NEW i \in 1..n PROVE seq[i] \in R /\ seq[i].id = Nth(ids, i)
  <2>1. \E r \in R : r.id = Nth(ids, i)
    BY <1>2 DEF ids
  <2> QED BY <1>4, <2>1
<1>6. ASSUME NEW r \in R PROVE \E i \in 1..n : seq[i] = r
  <2>1. r.id \in ids
    BY DEF ids
  <2>2. PICK i \in 1..n : Nth(ids, i) = r.id
    BY <1>2, <2>1
  <2>3. seq[i] \in R /\ seq[i].id = r.id
    BY <1>5, <2>2
  <2>4. seq[i] = r
    BY <2>3 DEF LogInv
  <2> QED BY <2>4
<1> QED BY <1>2, <1>4, <1>5, <1>6 DEF seq

\* Only the call of p changes.
LEMMA EvCallKeeps ==
  ASSUME LogInv, NEW p \in EvProcs, NEW c, evPc' = [evPc EXCEPT ![p] = c], EvCallIsSound(c),
         UNCHANGED <<evRows, evLastId, evFts, evSess, evLake, evGone>>
  PROVE  LogInv'
<1>1. ASSUME NEW q \in EvProcs PROVE EvCallIsSound(evPc[q])'
  <2>1. EvCallIsSound(evPc'[q])
    BY DEF LogInv
  <2>2. SingleIsSound(evPc'[q]) => SingleIsSound(evPc[q])'
    BY DEF SingleIsSound
  <2>3. BatchIsSound(evPc'[q]) => BatchIsSound(evPc[q])'
    BY DEF BatchIsSound, Stored
  <2>4. ArchiveIsSound(evPc'[q]) => ArchiveIsSound(evPc[q])'
    BY DEF ArchiveIsSound, LakeIds
  <2> QED BY <2>1, <2>2, <2>3, <2>4 DEF EvCallIsSound
<1> QED BY <1>1 DEF LogInv, TwiceOnlyByOverlap, GoneOnlyIfLate, LogIsSearchable, LakeFits

\* What a commit leaves of the calls of the others.
LEMMA OthersAfterCommit ==
  ASSUME LogInv, NEW p \in EvProcs, NEW next, evPc' = Moved(p, next), NEW q \in EvProcs, q # p,
         evLastId' \in Nat, evLastId <= evLastId', evLake' = evLake, DOMAIN evSess \subseteq DOMAIN evSess',
         \A r \in evRows' : r \in evRows \/ (r.id \in Int /\ evLastId < r.id)
  PROVE  EvCallIsSound(evPc[q])'
<1> DEFINE c == evPc[q]
<1>0. EvCallIsSound(c) /\ evLastId \in Nat
  BY DEF LogInv
<1>1. CASE c = EvIdle
  <2>1. evPc'[q] = EvIdle
    BY <1>1 DEF Moved, EvIdle
  <2> QED BY <2>1 DEF EvCallIsSound
<1>2. CASE SingleIsSound(c)
  <2>0. c \in [at : {"session", "insert"}, ev : EvEvents, seen : 0..evLastId] /\ c.seen \in 0..evLastId
    BY <1>2 DEF SingleIsSound
  <2>1. evPc'[q] = c
    BY <2>0 DEF Moved
  <2>2. c \in [at : {"session", "insert"}, ev : EvEvents, seen : 0..evLastId']
    <3>1. c.seen \in 0..evLastId'
      BY <1>0, <2>0
    <3> QED BY <2>0, <3>1
  <2>3. ASSUME NEW r \in evRows', dedup_key(r) = dedup_key(c.ev) PROVE c.seen < r.id
    <3>1. CASE r \in evRows
      BY <1>2, <2>3, <3>1 DEF SingleIsSound
    <3>2. CASE r.id \in Int /\ evLastId < r.id
      BY <1>0, <2>0, <3>2
    <3> QED BY <3>1, <3>2
  <2>4. SingleIsSound(evPc[q])'
    BY <1>2, <2>1, <2>2, <2>3 DEF SingleIsSound
  <2> QED BY <2>4 DEF EvCallIsSound
<1>3. CASE BatchIsSound(c)
  <2>1. c \in [at : {"batch"}, bad : BOOLEAN, new : {c.new}, old : BOOLEAN] /\ c.at = "batch"
    BY <1>3 DEF BatchIsSound
  <2>2. evPc'[q] = [c EXCEPT !.old = TRUE]
    BY <2>1 DEF Moved
  <2>3. /\ evPc'[q] \in [at : {"batch"}, bad : BOOLEAN, new : {c.new}, old : BOOLEAN]
        /\ evPc'[q].new = c.new /\ evPc'[q].old = TRUE
    BY <2>1, <2>2
  <2>5. BatchIsSound(evPc[q])'
    BY <1>3, <2>3 DEF BatchIsSound
  <2> QED BY <2>5 DEF EvCallIsSound
<1>4. CASE ArchiveIsSound(c)
  <2>1. evPc'[q] = c
    BY <1>4 DEF Moved, ArchiveIsSound
  <2>2. c.last \in 0..evLastId'
    BY <1>0, <1>4 DEF ArchiveIsSound
  <2>3. ASSUME NEW r \in evRows', r.ts < c.cutoff, r.id <= c.last PROVE r.id \in LakeIds
    <3>1. CASE r \in evRows
      BY <1>4, <2>3, <3>1 DEF ArchiveIsSound
    <3>2. CASE r.id \in Int /\ evLastId < r.id
      BY <1>0, <1>4, <2>3, <3>2 DEF ArchiveIsSound
    <3> QED BY <3>1, <3>2
  <2>4. LakeIds' = LakeIds
    BY DEF LakeIds
  <2>5. ArchiveIsSound(evPc[q])'
    BY <1>4, <2>1, <2>2, <2>3, <2>4 DEF ArchiveIsSound
  <2> QED BY <2>5 DEF EvCallIsSound
<1> QED BY <1>0, <1>1, <1>2, <1>3, <1>4 DEF EvCallIsSound

LEMMA EntriesAreTyped ==
  ASSUME NEW S, NEW s \in Seq(S)
  PROVE  \A i \in DOMAIN s : s[i] \in S
OBVIOUS

\* Rows with new ids are added and the call of p ends.
LEMMA RowsAddedKeep ==
  ASSUME LogInv, NEW p \in EvProcs, NEW R, NEW n \in Nat,
         evRows' = evRows \cup R, evFts' = evFts \cup Fts(R), evLastId' = evLastId + n,
         \A r \in R : r.id \in (evLastId + 1)..(evLastId + n),
         \A r, s \in R : r.id = s.id => r = s,
         \A r \in evRows \cup R, s \in R : r.id < s.id /\ dedup_key(r) = dedup_key(s) => s.seen < r.id,
         DOMAIN evSess \subseteq DOMAIN evSess',
         \A r \in R : r.session # NoSession => r.session \in DOMAIN evSess',
         evPc' = Moved(p, EvIdle), UNCHANGED <<evLake, evGone>>
  PROVE  LogInv'
<1>1. evLastId \in Nat /\ evLastId' \in Nat /\ evLastId <= evLastId'
  BY DEF LogInv
<1>2. \A r \in R : r.id \in Int /\ evLastId < r.id
  BY <1>1
<1>3. \A r \in evRows : r.id \in 1..evLastId
  BY DEF LogInv
<1>4. \A r \in evRows' : r.id \in 1..evLastId'
  BY <1>1, <1>3
<1>5. ASSUME NEW r \in evRows', NEW s \in evRows', r.id = s.id PROVE r = s
  <2>1. \A x \in evRows, y \in R : x.id # y.id
    BY <1>1, <1>2, <1>3
  <2>2. \A x, y \in evRows : x.id = y.id => x = y
    BY DEF LogInv
  <2> QED BY <1>5, <2>1, <2>2
<1>6. ASSUME NEW r \in evRows', NEW s \in evRows', r.id < s.id, dedup_key(r) = dedup_key(s) PROVE s.seen < r.id
  <2>1. CASE s \in R
    BY <1>6, <2>1
  <2>2. CASE s \in evRows /\ r \in R
    BY <1>1, <1>2, <1>3, <1>6, <2>2
  <2>3. CASE s \in evRows /\ r \in evRows
    BY <1>6, <2>3 DEF LogInv, TwiceOnlyByOverlap
  <2> QED BY <2>1, <2>2, <2>3
<1>7. evFts' = Fts(evRows')
  BY DEF LogInv, LogIsSearchable, Fts
<1>8. ASSUME NEW r \in evRows', r.session # NoSession PROVE r.session \in DOMAIN evSess'
  BY <1>8 DEF LogInv, LogIsSearchable
<1>9. ASSUME NEW q \in EvProcs PROVE EvCallIsSound(evPc[q])'
  <2>1. CASE q = p
    <3>1. evPc'[q] = EvIdle
      BY <2>1 DEF Moved
    <3> QED BY <3>1 DEF EvCallIsSound
  <2>2. CASE q # p
    BY <1>1, <1>2, <2>2, OthersAfterCommit
  <2> QED BY <2>1, <2>2
<1>10. DOMAIN evPc' = EvProcs /\ evLake' = evLake /\ evGone' = evGone
  BY DEF Moved
<1>11. TwiceOnlyByOverlap'
  BY <1>6 DEF TwiceOnlyByOverlap
<1>12. LogIsSearchable' /\ GoneOnlyIfLate'
  <2>1. Fts(evRows') = Fts(evRows)'
    BY DEF Fts
  <2> QED BY <1>7, <1>8, <1>10, <2>1 DEF LogInv, LogIsSearchable, GoneOnlyIfLate
<1>13. LakeFits'
  <2>0. evLake \in Seq([id : Nat, text : BOOLEAN])
    BY DEF LogInv
  <2>1. LakeFits /\ \A i \in DOMAIN evLake : evLake[i].id \in Nat
    <3>1. \A i \in DOMAIN evLake : evLake[i] \in [id : Nat, text : BOOLEAN]
      BY ONLY <2>0, EntriesAreTyped
    <3>2. LakeFits
      BY DEF LogInv
    <3> QED BY <3>1, <3>2
  <2>2. \A i \in DOMAIN evLake : evLake[i].id <= evLastId'
    BY <1>1, <2>1 DEF LakeFits
  <2>3. ASSUME NEW i \in DOMAIN evLake, NEW r \in evRows', evLake[i].id = r.id PROVE r \in evRows
    BY <1>1, <1>2, <2>1, <2>3 DEF LakeFits
  <2> QED BY <1>10, <2>1, <2>2, <2>3 DEF LakeFits
<1> QED BY <1>1, <1>4, <1>5, <1>9, <1>10, <1>11, <1>12, <1>13 DEF LogInv

\* What a call is, by where it is.
LEMMA EvCallKinds ==
  ASSUME LogInv, NEW p \in EvProcs
  PROVE  /\ evPc[p].at \in {"session", "insert"} => SingleIsSound(evPc[p])
         /\ evPc[p].at = "batch" => BatchIsSound(evPc[p])
         /\ evPc[p].at = "archive" => ArchiveIsSound(evPc[p])
<1> DEFINE c == evPc[p]
<1>1. EvCallIsSound(c)
  BY DEF LogInv
<1>2. EvIdle.at = "idle"
  BY DEF EvIdle
<1>3. SingleIsSound(c) => c.at \in {"session", "insert"}
  BY DEF SingleIsSound
<1>4. BatchIsSound(c) => c.at = "batch"
  BY DEF BatchIsSound
<1>5. ArchiveIsSound(c) => c.at = "archive"
  BY DEF ArchiveIsSound
<1> QED BY <1>1, <1>2, <1>3, <1>4, <1>5 DEF EvCallIsSound

LEMMA IngestSessionKeeps ==
  ASSUME LogInv, NEW p \in EvProcs, IngestSession(p)
  PROVE  LogInv'
<1> DEFINE c == evPc[p]
           next == [c EXCEPT !.at = "insert"]
<1>1. /\ c.at = "session" /\ evSess' = Upserted(evSess, c.ev) /\ evPc' = Moved(p, next)
      /\ UNCHANGED <<evRows, evLastId, evFts, evLake, evGone>>
  BY DEF IngestSession
<1>2. SingleIsSound(c)
  BY <1>1, EvCallKinds
<1>3. /\ DOMAIN evSess \subseteq DOMAIN evSess'
      /\ c.ev.session # NoSession => c.ev.session \in DOMAIN evSess'
  BY <1>1 DEF Upserted
<1>4. ASSUME NEW q \in EvProcs PROVE EvCallIsSound(evPc[q])'
  <2>1. CASE q # p
    <3>1. evLastId \in Nat /\ evLastId' = evLastId /\ \A r \in evRows' : r \in evRows
      BY <1>1 DEF LogInv
    <3> QED BY <1>1, <1>3, <2>1, <3>1, OthersAfterCommit
  <2>2. CASE q = p
    <3>1. evPc'[q] = next
      BY <1>1, <2>2 DEF Moved
    <3>2. next \in [at : {"session", "insert"}, ev : EvEvents, seen : 0..evLastId]
      BY <1>2 DEF SingleIsSound
    <3>3. next.ev = c.ev /\ next.seen = c.seen
      BY <1>2 DEF SingleIsSound
    <3> HIDE DEF next
    <3>4. SingleIsSound(evPc[q])'
      BY <1>1, <1>2, <1>3, <3>1, <3>2, <3>3 DEF SingleIsSound
    <3> QED BY <3>4 DEF EvCallIsSound
  <2> QED BY <2>1, <2>2
<1>5. DOMAIN evPc' = EvProcs
  BY <1>1 DEF Moved
<1>6. LogIsSearchable'
  BY <1>1, <1>3 DEF LogInv, LogIsSearchable, Fts
<1> QED BY <1>1, <1>4, <1>5, <1>6 DEF LogInv, TwiceOnlyByOverlap, GoneOnlyIfLate, LakeFits

LEMMA IngestInsertKeeps ==
  ASSUME LogInv, NEW p \in EvProcs, IngestInsert(p)
  PROVE  LogInv'
<1> DEFINE c == evPc[p]
           row == EventRow(c.ev, evLastId + 1, c.seen)
           R == {row}
<1>1. /\ c.at = "insert" /\ evRows' = evRows \cup R /\ evFts' = evFts \cup Fts(R)
      /\ evLastId' = evLastId + 1 /\ evPc' = Moved(p, EvIdle)
      /\ UNCHANGED <<evSess, evLake, evGone>>
  BY DEF IngestInsert
<1>2. SingleIsSound(c) /\ evLastId \in Nat
  BY <1>1, EvCallKinds DEF LogInv
<1>3. /\ row.id = evLastId + 1 /\ row.seen = c.seen /\ row.session = c.ev.session
      /\ dedup_key(row) = dedup_key(c.ev)
  BY DEF EventRow, dedup_key
<1> HIDE DEF row
<1>4. ASSUME NEW r \in evRows \cup R, NEW s \in R, r.id < s.id, dedup_key(r) = dedup_key(s) PROVE s.seen < r.id
  <2>1. s = row /\ r # row
    BY <1>2, <1>3, <1>4
  <2> QED BY <1>2, <1>3, <1>4, <2>1 DEF SingleIsSound
<1>5. ASSUME NEW r \in R PROVE /\ r.id \in (evLastId + 1)..(evLastId + 1)
                               /\ r.session # NoSession => r.session \in DOMAIN evSess
  BY <1>1, <1>2, <1>3 DEF SingleIsSound
<1>6. \A r, s \in R : r.id = s.id => r = s
  OBVIOUS
<1> HIDE DEF R, c
<1> QED BY <1>1, <1>4, <1>5, <1>6, RowsAddedKeep

LEMMA BatchBeginKeeps ==
  ASSUME LogInv, NEW p \in EvProcs, BatchBegin(p)
  PROVE  LogInv'
<1>1. PICK f \in EvFiles :
        evPc' = [evPc EXCEPT ![p] = [at |-> "batch", bad |-> BadLine \in Range(f), new |-> BatchNew(f), old |-> FALSE]]
  BY DEF BatchBegin
<1>2. f \in Seq(Range(f))
  BY EventLogAssumption
<1>3. PICK b \in BOOLEAN : b = (BadLine \in Range(f))
  <2>1. (BadLine \in Range(f)) \in BOOLEAN
    OBVIOUS
  <2> QED BY <2>1
<1> DEFINE c == [at |-> "batch", bad |-> b, new |-> BatchNew(f), old |-> FALSE]
<1>4. evPc' = [evPc EXCEPT ![p] = c]
  BY <1>1, <1>3
<1>5. c \in [at : {"batch"}, bad : BOOLEAN, new : {c.new}, old : BOOLEAN] /\ c.new = BatchNew(f)
  <2>1. c \in [at : {"batch"}, bad : BOOLEAN, new : {BatchNew(f)}, old : BOOLEAN]
    BY Zenon
  <2>2. c.new = BatchNew(f)
    OBVIOUS
  <2> QED BY <2>1, <2>2
<1> HIDE DEF c
<1>6. BatchIsSound(c)
  BY <1>2, <1>5, BatchNewFacts DEF BatchIsSound
<1> QED BY <1>4, <1>6, EvCallKeeps DEF EvCallIsSound, BatchBegin

LEMMA BatchCommitKeeps ==
  ASSUME LogInv, NEW p \in EvProcs, BatchCommit(p)
  PROVE  LogInv'
<1> DEFINE c == evPc[p]
           new == c.new
           R == {EventRow(new[i], evLastId + i, evLastId + i - 1) : i \in DOMAIN new}
<1>1. /\ c.at = "batch" /\ (new = <<>> \/ ~c.old)
      /\ evRows' = evRows \cup R /\ evFts' = evFts \cup Fts(R) /\ evLastId' = evLastId + Len(new)
      /\ evSess' = UpsertedAll(evSess, new)
      /\ evPc' = IF new = <<>> THEN [evPc EXCEPT ![p] = EvIdle] ELSE Moved(p, EvIdle)
      /\ UNCHANGED <<evLake, evGone>>
  BY DEF BatchCommit, BatchRefused
<1>2. BatchIsSound(c) /\ evLastId \in Nat
  BY <1>1, EvCallKinds DEF LogInv
<1>3. new \in Seq(Range(new)) /\ Len(new) \in Nat /\ DOMAIN new = 1..Len(new)
  BY <1>2 DEF BatchIsSound
<1>4. CASE new = <<>>
  <2>1. Len(new) = 0 /\ DOMAIN new = {}
    BY <1>4
  <2>2. R = {} /\ Fts(R) = {}
    BY <2>1 DEF Fts
  <2> HIDE DEF R
  <2>3. evRows' = evRows /\ evFts' = evFts /\ evLastId' = evLastId
    BY <1>1, <1>2, <2>1, <2>2
  <2>4. DOMAIN evSess \subseteq DOMAIN evSess'
    BY <1>1 DEF UpsertedAll
  <2>5. evPc' = [evPc EXCEPT ![p] = EvIdle]
    BY <1>1, <1>4
  <2>6. ASSUME NEW q \in EvProcs PROVE EvCallIsSound(evPc[q])'
    <3>1. evPc'[q] = EvIdle \/ evPc'[q] = evPc[q]
      BY <2>5 DEF LogInv
    <3>2. EvCallIsSound(evPc'[q])
      BY <3>1 DEF LogInv, EvCallIsSound
    <3>3. SingleIsSound(evPc'[q]) => SingleIsSound(evPc[q])'
      BY <2>3, <2>4 DEF SingleIsSound
    <3>4. BatchIsSound(evPc'[q]) => BatchIsSound(evPc[q])'
      BY <2>3 DEF BatchIsSound, Stored
    <3>5. ArchiveIsSound(evPc'[q]) => ArchiveIsSound(evPc[q])'
      BY <1>1, <2>3 DEF ArchiveIsSound, LakeIds
    <3> QED BY <3>2, <3>3, <3>4, <3>5 DEF EvCallIsSound
  <2>7. LogIsSearchable'
    BY <2>3, <2>4 DEF LogInv, LogIsSearchable, Fts
  <2>8. DOMAIN evPc' = EvProcs
    BY <2>5 DEF LogInv
  <2> QED BY <1>1, <2>3, <2>6, <2>7, <2>8 DEF LogInv, TwiceOnlyByOverlap, GoneOnlyIfLate, LakeFits
<1>5. CASE new # <<>>
  <2>1. evPc' = Moved(p, EvIdle)
    BY <1>1, <1>5
  <2>2. c.old = FALSE
    <3>1. c.old \in BOOLEAN
      BY <1>2 DEF BatchIsSound
    <3> QED BY <1>1, <1>5, <3>1
  <2>3. ASSUME NEW i \in DOMAIN new
        PROVE  LET r == EventRow(new[i], evLastId + i, evLastId + i - 1)
               IN  /\ r.id = evLastId + i /\ r.seen = evLastId + i - 1 /\ r.session = new[i].session
                   /\ dedup_key(r) = dedup_key(new[i])
    BY DEF EventRow, dedup_key
  <2>4. ASSUME NEW r \in R
        PROVE  \E i \in DOMAIN new : /\ r.id = evLastId + i /\ r.session = new[i].session
                                     /\ dedup_key(r) = dedup_key(new[i])
                                     /\ r = EventRow(new[i], evLastId + i, evLastId + i - 1)
    BY <2>3
  <2> HIDE DEF new
  <2>5. \A r \in R : r.id \in (evLastId + 1)..(evLastId + Len(new))
    BY <1>2, <1>3, <2>4
  <2>6. ASSUME NEW r \in R, NEW s \in R, r.id = s.id \/ dedup_key(r) = dedup_key(s) PROVE r = s
    <3>1. PICK i \in DOMAIN new : /\ r.id = evLastId + i /\ dedup_key(r) = dedup_key(new[i])
                                  /\ r = EventRow(new[i], evLastId + i, evLastId + i - 1)
      BY <2>4
    <3>2. PICK j \in DOMAIN new : /\ s.id = evLastId + j /\ dedup_key(s) = dedup_key(new[j])
                                  /\ s = EventRow(new[j], evLastId + j, evLastId + j - 1)
      BY <2>4
    <3>3. CASE r.id = s.id
      <4>1. i = j
        BY <1>2, <1>3, <3>1, <3>2, <3>3
      <4> QED BY <3>1, <3>2, <4>1
    <3>4. CASE dedup_key(r) = dedup_key(s)
      <4>1. i = j
        BY <1>2, <3>1, <3>2, <3>4 DEF BatchIsSound, new
      <4> QED BY <3>1, <3>2, <4>1
    <3> QED BY <2>6, <3>3, <3>4
  <2>7. ASSUME NEW r \in evRows, NEW s \in R PROVE dedup_key(r) # dedup_key(s)
    <3>1. PICK j \in DOMAIN new : dedup_key(s) = dedup_key(new[j])
      BY <2>4
    <3> QED BY <1>2, <2>2, <3>1 DEF BatchIsSound, Stored, new
  <2>8. ASSUME NEW r \in evRows \cup R, NEW s \in R, r.id < s.id, dedup_key(r) = dedup_key(s) PROVE s.seen < r.id
    <3>1. r \in R /\ r = s
      BY <2>6, <2>7, <2>8
    <3>2. s.id \in Int /\ s.id < s.id
      BY <1>2, <1>3, <2>5, <2>8, <3>1
    <3> QED BY <3>2
  <2>9. /\ DOMAIN evSess \subseteq DOMAIN evSess'
        /\ \A i \in DOMAIN new : new[i].session # NoSession => new[i].session \in DOMAIN evSess'
    BY <1>1 DEF UpsertedAll
  <2>10. ASSUME NEW r \in R, r.session # NoSession PROVE r.session \in DOMAIN evSess'
    BY <2>4, <2>9, <2>10
  <2> HIDE DEF R
  <2> QED BY <1>1, <1>3, <2>1, <2>5, <2>6, <2>8, <2>9, <2>10, RowsAddedKeep
<1> QED BY <1>4, <1>5

\* The entries of two sequences, one after the other.
LEMMA ConcatFacts ==
  ASSUME NEW S, NEW s \in Seq(S), NEW t \in Seq(S)
  PROVE  /\ s \o t \in Seq(S) /\ DOMAIN (s \o t) = 1..(Len(s) + Len(t))
         /\ \A i \in 1..Len(s) : (s \o t)[i] = s[i]
         /\ \A i \in 1..Len(t) : (s \o t)[Len(s) + i] = t[i]
<1>1. s \o t \in Seq(S) /\ Len(s \o t) = Len(s) + Len(t)
  OBVIOUS
<1>2. Len(s) \in Nat /\ Len(t) \in Nat
  OBVIOUS
<1>3. \A i \in 1..Len(s) : (s \o t)[i] = s[i]
  OBVIOUS
<1>4. ASSUME NEW i \in 1..Len(t) PROVE (s \o t)[Len(s) + i] = t[i]
  <2>1. Len(s) + i \in 1..(Len(s) + Len(t)) /\ ~(Len(s) + i <= Len(s)) /\ (Len(s) + i) - Len(s) = i
    BY <1>2
  <2> QED BY <2>1
<1> QED BY <1>1, <1>3, <1>4

LEMMA ArchiveCopyKeeps ==
  ASSUME LogInv, NEW p \in EvProcs, ArchiveCopy(p)
  PROVE  LogInv'
<1>1. PICK k \in EvCutoffs :
        /\ evLake' = evLake \o [i \in DOMAIN ById(Old(evRows, k)) |->
                                  [id |-> ById(Old(evRows, k))[i].id, text |-> ~ById(Old(evRows, k))[i].big]]
        /\ evPc' = [evPc EXCEPT ![p] = [at |-> "archive", cutoff |-> k, last |-> evLastId]]
  BY DEF ArchiveCopy
<1>2. UNCHANGED <<evRows, evLastId, evFts, evSess, evGone>>
  BY DEF ArchiveCopy
<1> DEFINE R == Old(evRows, k)
           copy == ById(R)
           Entry(i) == [id |-> copy[i].id, text |-> ~copy[i].big]
           add == [i \in DOMAIN copy |-> Entry(i)]
           Entries == [id : Nat, text : BOOLEAN]
           c == [at |-> "archive", cutoff |-> k, last |-> evLastId]
<1>3. R \subseteq evRows
  BY DEF Old
<1>4. /\ \A n \in DOMAIN copy : copy[n] \in R
      /\ \A r \in R : \E n \in DOMAIN copy : copy[n] = r
  <2> HIDE DEF R
  <2> QED BY <1>3, ByIdFacts
<1>5. PICK n \in Nat : DOMAIN copy = 1..n
  <2> HIDE DEF R
  <2> QED BY <1>3, ByIdFacts
<1> HIDE DEF R, copy
<1>6. ASSUME NEW i \in DOMAIN copy PROVE Entry(i) \in Entries /\ Entry(i).id = copy[i].id
  <2>1. copy[i].id \in Nat
    BY <1>3, <1>4 DEF LogInv
  <2>2. (~copy[i].big) \in BOOLEAN
    OBVIOUS
  <2>3. Entry(i) \in Entries
    BY <2>1, <2>2, Zenon
  <2> QED BY <2>3
<1>6a. ASSUME NEW i \in DOMAIN copy, ~copy[i].big PROVE Entry(i).text
  <2>1. Entry(i).text = ~copy[i].big
    OBVIOUS
  <2> QED BY <1>6a, <2>1
<1> HIDE DEF Entry, Entries
<1>7. add \in [1..n -> Entries]
  BY <1>5, <1>6
<1>8. /\ add \in Seq(Entries) /\ Len(add) = n /\ DOMAIN add = 1..n
      /\ \A i \in 1..n : add[i].id = copy[i].id /\ (~copy[i].big => add[i].text)
  <2>1. DOMAIN add = 1..n /\ \A i \in 1..n : add[i] = Entry(i)
    BY <1>5
  <2>2. add \in Seq(Entries) /\ Len(add) = n
    BY <1>7
  <2> HIDE DEF add
  <2>3. \A i \in 1..n : add[i].id = copy[i].id
    BY <1>5, <1>6, <2>1
  <2>4. \A i \in 1..n : ~copy[i].big => add[i].text
    BY <1>5, <1>6a, <2>1
  <2> QED BY <2>1, <2>2, <2>3, <2>4
<1>9. evLake' = evLake \o add
  BY <1>1 DEF Entry, R, copy
<1> HIDE DEF add
<1>10. evLake \in Seq(Entries) /\ Len(evLake) \in Nat /\ DOMAIN evLake = 1..Len(evLake)
  BY DEF LogInv, Entries
<1>11. /\ evLake' \in Seq(Entries) /\ DOMAIN evLake' = 1..(Len(evLake) + n)
       /\ \A i \in 1..Len(evLake) : evLake'[i] = evLake[i]
       /\ \A i \in 1..n : evLake'[Len(evLake) + i] = add[i]
  <2>1. PICK a \in Seq(Entries), b \in Seq(Entries) : a = evLake /\ b = add
    BY <1>8, <1>10, Zenon
  <2>2. /\ a \o b \in Seq(Entries) /\ DOMAIN (a \o b) = 1..(Len(a) + Len(b))
        /\ \A i \in 1..Len(a) : (a \o b)[i] = a[i]
        /\ \A i \in 1..Len(b) : (a \o b)[Len(a) + i] = b[i]
    BY ONLY a \in Seq(Entries), b \in Seq(Entries), ConcatFacts
  <2> QED BY <1>8, <1>9, <2>1, <2>2, Zenon
<1>12. LakeIds \subseteq LakeIds'
  <2>1. \A i \in DOMAIN evLake : i \in DOMAIN evLake' /\ evLake'[i] = evLake[i]
    BY <1>10, <1>11
  <2> QED BY <2>1 DEF LakeIds
<1>13. ASSUME NEW r \in R PROVE r.id \in LakeIds'
  <2>1. PICK i \in 1..n : copy[i] = r
    BY <1>4, <1>5
  <2>2. Len(evLake) + i \in DOMAIN evLake' /\ evLake'[Len(evLake) + i].id = r.id
    BY <1>8, <1>10, <1>11, <2>1
  <2> QED BY <2>2, Zenon DEF LakeIds
<1>14. /\ evPc' = [evPc EXCEPT ![p] = c]
       /\ c.at = "archive" /\ c.cutoff = k /\ c.last = evLastId
  BY <1>1
<1> HIDE DEF c
<1>15. ASSUME NEW q \in EvProcs PROVE EvCallIsSound(evPc[q])'
  <2>1. CASE q = p
    <3>1. evPc'[q] = c
      BY <1>14, <2>1 DEF LogInv
    <3>2. ArchiveIsSound(evPc[q])'
      BY <1>2, <1>13, <1>14, <3>1 DEF ArchiveIsSound, LogInv, R, Old
    <3> QED BY <3>2 DEF EvCallIsSound
  <2>2. CASE q # p
    <3>1. evPc'[q] = evPc[q] /\ EvCallIsSound(evPc[q])
      BY <1>14, <2>2 DEF LogInv
    <3>2. SingleIsSound(evPc[q]) => SingleIsSound(evPc[q])'
      BY <1>2, <3>1 DEF SingleIsSound
    <3>3. BatchIsSound(evPc[q]) => BatchIsSound(evPc[q])'
      BY <1>2, <3>1 DEF BatchIsSound, Stored
    <3>4. ArchiveIsSound(evPc[q]) => ArchiveIsSound(evPc[q])'
      BY <1>2, <1>12, <3>1 DEF ArchiveIsSound
    <3> QED BY <3>1, <3>2, <3>3, <3>4 DEF EvCallIsSound
  <2> QED BY <2>1, <2>2
<1>16. DOMAIN evPc' = EvProcs
  BY <1>14 DEF LogInv
<1>17. LakeFits'
  <2>1. \A r, s \in evRows : r.id = s.id => r = s
    BY DEF LogInv
  <2>2. ASSUME NEW i \in DOMAIN evLake'
        PROVE  \/ i \in DOMAIN evLake /\ evLake'[i] = evLake[i]
               \/ \E j \in 1..n : evLake'[i] = add[j]
    <3>1. i \in Int /\ i <= Len(evLake) + n /\ 1 <= i
      BY <1>10, <1>11
    <3>2. CASE i <= Len(evLake)
      BY <1>10, <1>11, <3>1, <3>2
    <3>3. CASE ~(i <= Len(evLake))
      <4>1. i - Len(evLake) \in 1..n /\ Len(evLake) + (i - Len(evLake)) = i
        BY <1>10, <3>1, <3>3
      <4> QED BY <1>11, <4>1
    <3> QED BY <3>2, <3>3
  <2>3. \A j \in 1..n : copy[j] \in evRows
    BY <1>3, <1>4, <1>5
  <2>4. ASSUME NEW i \in DOMAIN evLake' PROVE evLake'[i].id <= evLastId
    <3>1. CASE i \in DOMAIN evLake /\ evLake'[i] = evLake[i]
      BY <3>1 DEF LogInv, LakeFits
    <3>2. CASE \E j \in 1..n : evLake'[i] = add[j]
      <4>1. PICK j \in 1..n : evLake'[i] = add[j]
        BY <3>2
      <4>2. evLake'[i].id = copy[j].id
        BY <1>8, <4>1
      <4> QED BY <2>3, <4>2 DEF LogInv
    <3> QED BY <2>2, <3>1, <3>2
  <2>5. ASSUME NEW i \in DOMAIN evLake', NEW r \in evRows, evLake'[i].id = r.id, ~r.big PROVE evLake'[i].text
    <3>1. CASE i \in DOMAIN evLake /\ evLake'[i] = evLake[i]
      BY <2>5, <3>1 DEF LogInv, LakeFits
    <3>2. CASE \E j \in 1..n : evLake'[i] = add[j]
      <4>1. PICK j \in 1..n : evLake'[i] = add[j]
        BY <3>2
      <4>2. copy[j].id = r.id
        BY <1>8, <2>5, <4>1
      <4>3. copy[j] = r
        BY <2>1, <2>3, <4>2
      <4> QED BY <1>8, <2>5, <4>1, <4>3
    <3> QED BY <2>2, <3>1, <3>2
  <2> QED BY <1>2, <2>4, <2>5 DEF LakeFits
<1> QED BY <1>2, <1>11, <1>15, <1>16, <1>17
        DEF LogInv, TwiceOnlyByOverlap, GoneOnlyIfLate, LogIsSearchable, Fts, Entries

LEMMA ArchiveDeleteKeeps ==
  ASSUME LogInv, NEW p \in EvProcs, ArchiveDelete(p)
  PROVE  LogInv'
<1> DEFINE c == evPc[p]
           del == Old(evRows, c.cutoff)
           whole == {evLake[i].id : i \in {j \in DOMAIN evLake : evLake[j].text}}
           Lost(r) == [id |-> r.id, last |-> c.last, bare |-> r.id \in LakeIds, big |-> r.big]
           lost == {Lost(r) : r \in {x \in del : x.id \notin whole}}
<1>1. /\ c.at = "archive" /\ evRows' = evRows \ del /\ evFts' = evFts \ Fts(del)
      /\ evGone' = evGone \cup lost /\ evPc' = Moved(p, EvIdle)
      /\ UNCHANGED <<evLastId, evSess, evLake>>
  BY DEF ArchiveDelete, ArchiveDeletes, LakeIds
<1>2. ArchiveIsSound(c) /\ evLastId \in Nat
  BY <1>1, EvCallKinds DEF LogInv
<1>3. ASSUME NEW g \in lost PROVE IF g.bare THEN g.big ELSE g.id > g.last
  <2>1. PICK r \in del : r.id \notin whole /\ g = Lost(r)
    OBVIOUS
  <2>4. g.id = r.id /\ g.last = c.last /\ (g.bare <=> r.id \in LakeIds) /\ (g.big <=> r.big)
    BY <2>1
  <2> HIDE DEF Lost, lost
  <2>2. r \in evRows /\ r.ts < c.cutoff /\ r.id \in Int /\ c.last \in Int
    BY <1>2 DEF Old, LogInv, ArchiveIsSound
  <2>3. CASE r.id \in LakeIds
    <3>1. PICK i \in DOMAIN evLake : evLake[i].id = r.id
      BY <2>3 DEF LakeIds
    <3>2. ~evLake[i].text
      BY <2>1, <3>1
    <3>3. r.big
      BY <2>2, <3>1, <3>2 DEF LogInv, LakeFits
    <3> QED BY <2>3, <2>4, <3>3
  <2>5. CASE r.id \notin LakeIds
    <3>1. ~(r.id <= c.last)
      BY <1>2, <2>2, <2>5 DEF ArchiveIsSound
    <3> QED BY <2>2, <2>4, <2>5, <3>1
  <2> QED BY <2>3, <2>5
<1> HIDE DEF lost, Lost, whole
<1>4. GoneOnlyIfLate'
  BY <1>1, <1>3 DEF LogInv, GoneOnlyIfLate
<1>5. evFts' = Fts(evRows')
  <2>1. del \subseteq evRows
    BY DEF Old
  <2>2. evFts = Fts(evRows) /\ \A r, s \in evRows : r.id = s.id => r = s
    BY DEF LogInv, LogIsSearchable
  <2> HIDE DEF del
  <2>3. Fts(evRows) \ Fts(del) = Fts(evRows \ del)
    BY <2>1, <2>2 DEF Fts
  <2> QED BY <1>1, <2>2, <2>3
<1>6. ASSUME NEW q \in EvProcs PROVE EvCallIsSound(evPc[q])'
  <2>1. CASE q = p
    <3>1. evPc'[q] = EvIdle
      BY <1>1, <2>1 DEF Moved
    <3> QED BY <3>1 DEF EvCallIsSound
  <2>2. CASE q # p
    <3>1. evLastId' \in Nat /\ evLastId <= evLastId' /\ \A r \in evRows' : r \in evRows
      BY <1>1, <1>2
    <3> QED BY <1>1, <2>2, <3>1, OthersAfterCommit
  <2> QED BY <2>1, <2>2
<1>7. DOMAIN evPc' = EvProcs
  BY <1>1 DEF Moved
<1>8. \A r \in evRows' : r \in evRows
  BY <1>1
<1>9. LogIsSearchable'
  <2>1. Fts(evRows') = Fts(evRows)'
    BY DEF Fts
  <2> QED BY <1>1, <1>5, <1>8, <2>1 DEF LogInv, LogIsSearchable
<1>10. TwiceOnlyByOverlap'
  BY <1>8 DEF LogInv, TwiceOnlyByOverlap
<1>11. LakeFits'
  BY <1>1, <1>8 DEF LogInv, LakeFits
<1> QED BY <1>1, <1>4, <1>6, <1>7, <1>8, <1>9, <1>10, <1>11 DEF LogInv

LEMMA LogStep ==
  ASSUME LogInv, EventLogNext \/ UNCHANGED evVars
  PROVE  LogInv'
<1>1. CASE UNCHANGED evVars \/ LakeInit
  <2>1. UNCHANGED <<evRows, evLastId, evFts, evSess, evLake, evPc, evGone>>
    BY <1>1 DEF evVars, LakeInit
  <2>2. ASSUME NEW q \in EvProcs PROVE EvCallIsSound(evPc[q])'
    BY <2>1 DEF LogInv, EvCallIsSound, SingleIsSound, BatchIsSound, ArchiveIsSound, Stored, LakeIds
  <2> QED BY <2>1, <2>2 DEF LogInv, TwiceOnlyByOverlap, GoneOnlyIfLate, LogIsSearchable, Fts, LakeFits
<1>2. ASSUME NEW p \in EvProcs, IngestLook(p) PROVE LogInv'
  <2>1. PICK e \in EvEvents :
          ~Stored(e) /\ evPc' = [evPc EXCEPT ![p] = [at |-> "session", ev |-> e, seen |-> evLastId]]
    BY <1>2 DEF IngestLook
  <2> DEFINE c == [at |-> "session", ev |-> e, seen |-> evLastId]
  <2>2. evLastId \in 0..evLastId
    BY DEF LogInv
  <2>3. c \in [at : {"session", "insert"}, ev : EvEvents, seen : 0..evLastId] /\ c.ev = e /\ c.at = "session"
    BY <2>2
  <2>4. evPc' = [evPc EXCEPT ![p] = c]
    BY <2>1
  <2> HIDE DEF c
  <2>5. SingleIsSound(c)
    BY <2>1, <2>3 DEF SingleIsSound, Stored
  <2> QED BY <1>2, <2>4, <2>5, EvCallKeeps DEF EvCallIsSound, IngestLook
<1>3. ASSUME NEW p \in EvProcs, BatchFails(p) \/ EvCrash(p) PROVE LogInv'
  BY <1>3, EvCallKeeps DEF BatchFails, EvCrash, EvCallIsSound
<1> QED BY <1>1, <1>2, <1>3, IngestSessionKeeps, IngestInsertKeeps, BatchBeginKeeps, BatchCommitKeeps,
           ArchiveCopyKeeps, ArchiveDeleteKeeps DEF EventLogNext

\* The event log: no event twice but by overlapping ingests, none lost to the
\* archive but late ones and the contents over 1024 bytes, every shorter row
\* searchable and every row in a listed session.
THEOREM EventsAreNeverLost == Spec => []EventsAreKept
<1>1. Init => LogInv
  BY LogInit DEF Init
<1>2. LogInv /\ [Next]_vars => LogInv'
  BY OneComponentMoves, LogStep
<1>3. LogInv => EventsAreKept
  BY DEF LogInv, EventsAreKept
<1> QED BY <1>1, <1>2, <1>3, PTL DEF Spec

-----------------------------------------------------------------------------
(* Tags: a tag id is never used for two names, at once or one after the     *)
(* other, so the id an operation read is that of the name it read it under  *)
(* or of no tag at all, whatever happened since.                            *)
TgAll == TgNames \cup {r[2] : r \in TgRules}
Items == TgDocs \X TgAll
OnlyIdOf(id, n) == id \in Nat /\ id < tgNext /\ \A m \in DOMAIN tgTags : tgTags[m] = id => m = n
Todo(c) == c.todo \in Seq(Items) /\ c.todo # <<>>
TgCallIsSound(c) ==
    \/ c = TgIdle
    \/ c.at = "create" /\ Todo(c)
    \/ c.at = "insert" /\ Todo(c) /\ OnlyIdOf(c.id, Head(c.todo)[2])
    \/ c.at = "into" /\ c.into \in TgAll /\ OnlyIdOf(c.id, c.from)
    \/ c.at = "move" /\ c.into \in TgAll /\ OnlyIdOf(c.id, c.from) /\ OnlyIdOf(c.to, c.into)
    \/ c.at \in {"drop", "tag"}
    \/ c.at = "export" /\ c.tags \subseteq TgAll
TagsNamed == DOMAIN tgTags \subseteq TgAll /\ tgNext \in Nat /\ \A n \in DOMAIN tgTags : OnlyIdOf(tgTags[n], n)
FileNamed ==
    /\ tgFile.tags \subseteq TgAll /\ tgFile.docs \in Seq(Items)
    /\ DOMAIN tgFile.rules \subseteq TgRules
OwedHeld == \A o \in tgOwed : o \in Items /\ Held(o)
TagInv ==
    /\ TagsNamed /\ FileNamed /\ OwedHeld
    /\ DOMAIN tgRules \subseteq TgRules /\ DOMAIN tgPc = TgProcs
    /\ \A p \in TgProcs : TgCallIsSound(tgPc[p])

\* SetToSeq lists a finite set, every element at one place.
LEMMA SetToSeqFacts ==
  ASSUME NEW S, IsFiniteSet(S)
  PROVE  /\ Cardinality(S) \in Nat
         /\ SetToSeq(S) \in [1..Cardinality(S) -> S]
         /\ \A x \in S : \E i \in 1..Cardinality(S) : SetToSeq(S)[i] = x
<1> DEFINE n == Cardinality(S)
           D == 1..n
<1>1. n \in Nat /\ ExistsBijection(D, S)
  BY FS_CardinalityType
<1>2. IsFiniteSet(D) /\ Cardinality(D) = n
  BY <1>1, FS_Interval
<1>3. \E f \in [D -> S] : IsInjective(f)
  BY <1>1 DEF ExistsBijection, Bijection, Injection
<1>4. SetToSeq(S) \in [D -> S] /\ IsInjective(SetToSeq(S))
  <2> HIDE DEF IsInjective, D, n
  <2>1. SetToSeq(S) = CHOOSE f \in [D -> S] : IsInjective(f)
    BY DEF SetToSeq, D, n
  <2> QED BY <1>3, <2>1, Zenon
<1>5. SetToSeq(S) \in Injection(D, S)
  BY <1>4, Zenon DEF Injection
<1>6. SetToSeq(S) \in Surjection(D, S)
  <2> HIDE DEF D, n
  <2>1. Cardinality(D) = Cardinality(S)
    BY <1>2 DEF n
  <2> QED BY <1>2, <1>5, <2>1, FS_Injection, Zenon
<1> QED BY <1>1, <1>4, <1>6, Zenon DEF Surjection

LEMMA ItemsFinite == IsFiniteSet(TgAll) /\ IsFiniteSet(Items)
<1> DEFINE T == {r[2] : r \in TgRules}
           f == [r \in TgRules |-> r[2]]
<1>1. f \in Surjection(TgRules, T)
  BY Zenon DEF Surjection
<1> HIDE DEF f, T
<1>2. IsFiniteSet(T)
  BY <1>1, TagsAssumption, FS_Surjection
<1>3. IsFiniteSet(TgAll)
  <2>1. IsFiniteSet(TgNames \cup T)
    BY <1>2, TagsAssumption, FS_Union
  <2> QED BY <2>1 DEF TgAll, T
<1> QED BY <1>3, TagsAssumption, FS_Product DEF Items

\* A list of items to tag: SetToSeq of some of the items.
LEMMA ItemsListed ==
  ASSUME NEW S, S \subseteq Items
  PROVE  SetToSeq(S) \in Seq(Items)
<1>1. IsFiniteSet(S)
  BY ItemsFinite, FS_Subset
<1>2. Cardinality(S) \in Nat /\ SetToSeq(S) \in [1..Cardinality(S) -> S]
  BY <1>1, SetToSeqFacts
<1>3. PICK n, s : n \in Nat /\ s \in [1..n -> S] /\ s = SetToSeq(S)
  BY <1>2, Zenon
<1>4. s \in Seq(Items)
  BY <1>3
<1> QED BY <1>3, <1>4, Zenon

LEMMA TaggingIsSound ==
  ASSUME NEW s \in Seq(Items)
  PROVE  TgCallIsSound(Tagging(s))
<1>1. CASE s = <<>>
  BY <1>1 DEF Tagging, TgCallIsSound
<1>2. CASE s # <<>>
  <2>1. Tagging(s) = [at |-> "create", todo |-> s]
    BY <1>2, Zenon DEF Tagging
  <2>2. Tagging(s).at = "create" /\ Tagging(s).todo = s
    BY <2>1
  <2> QED BY <1>2, <2>2 DEF TgCallIsSound, Todo
<1> QED BY <1>1, <1>2

LEMMA TagInit == TagsInit => TagInv
<1> SUFFICES ASSUME TagsInit PROVE TagInv
  OBVIOUS
<1>1. DOMAIN tgTags = {} /\ DOMAIN tgRules = {} /\ tgNext \in Nat /\ tgOwed = {} /\ DOMAIN tgPc = TgProcs
  BY DEF TagsInit
<1>2. tgFile.tags = {} /\ tgFile.docs = <<>> /\ tgFile.rules = <<>>
  BY DEF TagsInit, NoExport
<1>3. \A p \in TgProcs : TgCallIsSound(tgPc[p])
  BY DEF TagsInit, TgCallIsSound
<1> QED BY <1>1, <1>2, <1>3 DEF TagInv, TagsNamed, FileNamed, OwedHeld

\* What a step does to the tags: it deletes some, and gives new ids.
TagsEvolve ==
    /\ tgNext' \in Nat /\ tgNext <= tgNext'
    /\ \A m \in DOMAIN tgTags' :
          \/ m \in DOMAIN tgTags /\ tgTags'[m] = tgTags[m]
          \/ tgTags'[m] \in Nat /\ tgNext <= tgTags'[m]
TagsStay == \A m \in DOMAIN tgTags : m \in DOMAIN tgTags' /\ tgTags'[m] = tgTags[m]

LEMMA OnlyIdKept ==
  ASSUME TagInv, TagsEvolve, NEW id, NEW n, OnlyIdOf(id, n)
  PROVE  OnlyIdOf(id, n)'
<1>1. id \in Nat /\ id < tgNext /\ tgNext \in Nat /\ tgNext' \in Nat /\ tgNext <= tgNext'
  BY DEF OnlyIdOf, TagInv, TagsNamed, TagsEvolve
<1>2. ASSUME NEW m \in DOMAIN tgTags', tgTags'[m] = id PROVE m = n
  <2>1. ~(tgNext <= tgTags'[m])
    BY <1>1, <1>2
  <2>2. m \in DOMAIN tgTags /\ tgTags[m] = id
    BY <1>2, <2>1, Zenon DEF TagsEvolve
  <2> QED BY <2>2, Zenon DEF OnlyIdOf
<1> QED BY <1>1, <1>2 DEF OnlyIdOf

LEMMA TgCallKept ==
  ASSUME TagInv, TagsEvolve, NEW c, TgCallIsSound(c)
  PROVE  TgCallIsSound(c)'
BY OnlyIdKept, Zenon DEF TgCallIsSound, Todo

\* A step of process p: the calls of the others stay sound.
LEMMA TgCallsKeep ==
  ASSUME TagInv, TagsEvolve, NEW p \in TgProcs, NEW c, Goto(p, c), TgCallIsSound(c)'
  PROVE  DOMAIN tgPc' = TgProcs /\ \A q \in TgProcs : TgCallIsSound(tgPc[q])'
<1>1. tgPc' = [tgPc EXCEPT ![p] = c] /\ DOMAIN tgPc = TgProcs
  BY DEF Goto, TagInv
<1>2. ASSUME NEW q \in TgProcs PROVE TgCallIsSound(tgPc[q])'
  <2>1. CASE q = p
    <3>1. tgPc'[q] = c
      BY <1>1, <2>1
    <3> QED BY <3>1 DEF TgCallIsSound, Todo, OnlyIdOf
  <2>2. CASE q # p
    <3>1. PICK d : d = tgPc[q]
      OBVIOUS
    <3>2. tgPc'[q] = d
      BY <1>1, <2>2, <3>1
    <3>3. TgCallIsSound(d)'
      BY <3>1, TgCallKept DEF TagInv
    <3> QED BY <3>2, <3>3 DEF TgCallIsSound, Todo, OnlyIdOf
  <2> QED BY <2>1, <2>2
<1> QED BY <1>1, <1>2

LEMMA TagsSame ==
  ASSUME TagInv, UNCHANGED <<tgTags, tgNext>>
  PROVE  TagsEvolve /\ TagsStay /\ TagsNamed'
BY DEF TagsEvolve, TagsStay, TagInv, TagsNamed, OnlyIdOf

LEMMA CreateFacts ==
  ASSUME TagInv, NEW n \in TgAll, create_tag(n)
  PROVE  /\ TagsEvolve /\ TagsStay /\ TagsNamed'
         /\ \A id : id = WithTag(n)[n] => OnlyIdOf(id, n)'
<1>1. CASE n \in DOMAIN tgTags
  <2>1. UNCHANGED <<tgTags, tgNext>> /\ WithTag(n) = tgTags
    BY <1>1 DEF create_tag, WithTag
  <2>2. \A id : id = WithTag(n)[n] => OnlyIdOf(id, n)'
    BY <1>1, <2>1 DEF TagInv, TagsNamed, OnlyIdOf
  <2> QED BY <2>1, <2>2, TagsSame
<1>2. CASE n \notin DOMAIN tgTags
  <2>1. /\ tgTags' = WithTag(n) /\ tgNext' = tgNext + 1 /\ tgNext \in Nat
        /\ WithTag(n) = [x \in DOMAIN tgTags \cup {n} |-> IF x = n THEN tgNext ELSE tgTags[x]]
    BY <1>2 DEF create_tag, WithTag, TagInv, TagsNamed
  <2>2. DOMAIN tgTags' = DOMAIN tgTags \cup {n} /\ tgTags'[n] = tgNext
    BY <2>1
  <2>3. \A m \in DOMAIN tgTags : m \in DOMAIN tgTags' /\ tgTags'[m] = tgTags[m] /\ tgTags[m] \in Nat /\ tgTags[m] < tgNext
    BY <1>2, <2>1 DEF TagInv, TagsNamed, OnlyIdOf
  <2>4. TagsEvolve /\ TagsStay
    BY <2>1, <2>2, <2>3 DEF TagsEvolve, TagsStay
  <2>5. ASSUME NEW m \in DOMAIN tgTags' PROVE OnlyIdOf(tgTags[m], m)'
    <3>1. CASE m = n
      BY <2>1, <2>2, <2>3, <3>1 DEF OnlyIdOf
    <3>2. CASE m # n
      <4>1. m \in DOMAIN tgTags /\ tgTags'[m] = tgTags[m]
        BY <2>2, <2>3, <3>2
      <4>2. ASSUME NEW k \in DOMAIN tgTags', tgTags'[k] = tgTags'[m] PROVE k = m
        <5>1. k # n
          BY <2>1, <2>2, <2>3, <4>1, <4>2
        <5> QED BY <2>2, <2>3, <4>1, <4>2, <5>1 DEF TagInv, TagsNamed, OnlyIdOf
      <4> QED BY <2>1, <2>3, <4>1, <4>2 DEF OnlyIdOf
    <3> QED BY <3>1, <3>2
  <2>6. TagsNamed'
    BY <2>1, <2>2, <2>5 DEF TagInv, TagsNamed
  <2>7. \A id : id = WithTag(n)[n] => OnlyIdOf(id, n)'
    BY <2>1, <2>2, <2>5 DEF OnlyIdOf
  <2> QED BY <2>4, <2>6, <2>7
<1> QED BY <1>1, <1>2

LEMMA HeldStays ==
  ASSUME TagInv, TagsStay, tgOwed' \subseteq tgOwed, tgDocs \subseteq tgDocs'
  PROVE  OwedHeld'
BY DEF TagInv, TagsStay, OwedHeld, Held

LEMMA TagStartKeeps ==
  ASSUME TagInv, NEW p \in TgProcs, TagStart(p)
  PROVE  TagInv'
<1>1. UNCHANGED <<tgTags, tgNext, tgDocs, tgRules, tgFile, tgOwed>>
  BY DEF TagStart
<1>2. PICK s : s \in Seq(Items) /\ Goto(p, Tagging(s))
  <2>1. CASE \E d \in TgDocs, n \in TgNames : Goto(p, Tagging(<<<<d, n>>>>))
    <3>1. PICK d \in TgDocs, n \in TgNames : Goto(p, Tagging(<<<<d, n>>>>))
      BY <2>1
    <3>2. <<d, n>> \in Items
      BY DEF Items, TgAll
    <3>3. <<<<d, n>>>> \in Seq(Items)
      BY <3>2
    <3> QED BY <3>1, <3>3
  <2>2. CASE \E n \in TgNames : Goto(p, Tagging(SetToSeq({<<d, n>> : d \in TgDocs})))
    <3>1. PICK n \in TgNames : Goto(p, Tagging(SetToSeq({<<d, n>> : d \in TgDocs})))
      BY <2>2
    <3> DEFINE S == {<<d, n>> : d \in TgDocs}
    <3>2. S \subseteq Items
      BY DEF Items, TgAll
    <3> HIDE DEF S
    <3>3. SetToSeq(S) \in Seq(Items)
      BY <3>2, ItemsListed
    <3> QED BY <3>1, <3>3 DEF S
  <2>3. CASE \E d \in TgDocs :
               LET hits == {r \in DOMAIN tgRules : tgRules[r] /\ r[1] \in TgWords[d]}
               IN hits # {} /\ Goto(p, Tagging(SetToSeq({<<d, r[2]>> : r \in hits})))
    <3>1. PICK d \in TgDocs : Goto(p, Tagging(SetToSeq(
              {<<d, r[2]>> : r \in {x \in DOMAIN tgRules : tgRules[x] /\ x[1] \in TgWords[d]}})))
      BY <2>3
    <3> DEFINE S == {<<d, r[2]>> : r \in {x \in DOMAIN tgRules : tgRules[x] /\ x[1] \in TgWords[d]}}
    <3>2. S \subseteq Items
      BY DEF Items, TgAll, TagInv
    <3> HIDE DEF S
    <3>3. SetToSeq(S) \in Seq(Items)
      BY <3>2, ItemsListed
    <3> QED BY <3>1, <3>3 DEF S
  <2> QED BY <2>1, <2>2, <2>3 DEF TagStart
<1>3. PICK c : c = Tagging(s)
  OBVIOUS
<1>4. Goto(p, c) /\ TgCallIsSound(c)
  BY <1>2, <1>3, TaggingIsSound
<1>5. TagsEvolve /\ TagsStay /\ TagsNamed'
  BY <1>1, TagsSame
<1>6. DOMAIN tgPc' = TgProcs /\ \A q \in TgProcs : TgCallIsSound(tgPc[q])'
  BY <1>4, <1>5, TgCallKept, TgCallsKeep
<1>7. OwedHeld'
  BY <1>1, <1>5, HeldStays
<1> QED BY <1>1, <1>5, <1>6, <1>7 DEF TagInv, FileNamed

\* A step that leaves the associations and the file alone.
LEMMA TgMoveKeeps ==
  ASSUME TagInv, TagsEvolve, TagsStay, TagsNamed', NEW p \in TgProcs, NEW c,
         Goto(p, c), TgCallIsSound(c)', UNCHANGED <<tgDocs, tgRules, tgFile, tgOwed>>
  PROVE  TagInv'
<1>1. DOMAIN tgPc' = TgProcs /\ \A q \in TgProcs : TgCallIsSound(tgPc[q])'
  BY TgCallsKeep
<1>2. OwedHeld'
  BY HeldStays
<1> QED BY <1>1, <1>2 DEF TagInv, FileNamed

\* The first item of a list to work on, and the rest.
LEMMA HeadItem ==
  ASSUME NEW s \in Seq(Items), s # <<>>
  PROVE  Head(s) \in Items /\ Tail(s) \in Seq(Items) /\ Head(s)[2] \in TgAll
<1>1. Head(s) \in Items /\ Tail(s) \in Seq(Items)
  <2> HIDE DEF Items
  <2> QED OBVIOUS
<1> QED BY <1>1 DEF Items

LEMMA TagCreateKeeps ==
  ASSUME TagInv, NEW p \in TgProcs, TagCreate(p)
  PROVE  TagInv'
<1>1. PICK s, n : s = tgPc[p].todo /\ n = Head(s)[2]
  OBVIOUS
<1>2. tgPc[p].at = "create" /\ create_tag(n) /\ UNCHANGED <<tgDocs, tgRules, tgFile, tgOwed>>
  BY <1>1 DEF TagCreate
<1>3. s \in Seq(Items) /\ s # <<>>
  BY <1>1, <1>2 DEF TagInv, TgCallIsSound, Todo, TgIdle
<1>4. n \in TgAll
  BY <1>1, <1>3, HeadItem
<1>5. /\ TagsEvolve /\ TagsStay /\ TagsNamed'
      /\ \A id : id = WithTag(n)[n] => OnlyIdOf(id, n)'
  BY <1>2, <1>4, CreateFacts
<1>6. PICK id : id = WithTag(n)[n]
  OBVIOUS
<1>7. PICK c : c = [at |-> "insert", todo |-> s, id |-> id]
  OBVIOUS
<1>8. c.at = "insert" /\ c.todo = s /\ c.id = id
  BY <1>7
<1>9. Goto(p, c)
  BY <1>1, <1>6, <1>7 DEF TagCreate
<1>10. TgCallIsSound(c)'
  <2>1. OnlyIdOf(id, n)'
    BY <1>5, <1>6
  <2>2. Head(c.todo)[2] = n
    BY <1>1, <1>8
  <2>3. OnlyIdOf(c.id, Head(c.todo)[2])'
    BY <1>8, <2>1, <2>2, Zenon
  <2>4. Todo(c)
    BY <1>3, <1>8 DEF Todo
  <2> QED BY <1>8, <2>3, <2>4 DEF TgCallIsSound, Todo
<1> QED BY <1>2, <1>5, <1>9, <1>10, TgMoveKeeps

LEMMA TagInsertKeeps ==
  ASSUME TagInv, NEW p \in TgProcs, TagInsert(p)
  PROVE  TagInv'
<1>1. PICK s, id : s = tgPc[p].todo /\ id = tgPc[p].id
  OBVIOUS
<1>2. tgPc[p].at = "insert" /\ UNCHANGED <<tgTags, tgNext, tgRules, tgFile>>
  BY DEF TagInsert
<1>3. s \in Seq(Items) /\ s # <<>> /\ OnlyIdOf(id, Head(s)[2])
  BY <1>1, <1>2 DEF TagInv, TgCallIsSound, Todo, TgIdle
<1>4. Head(s) \in Items /\ Tail(s) \in Seq(Items)
  BY <1>3, HeadItem
<1>5. TagsEvolve /\ TagsStay /\ TagsNamed'
  BY <1>2, TagsSame
<1>6. CASE /\ id \in LiveIds /\ tgDocs' = tgDocs \cup {<<Head(s)[1], id>>}
           /\ tgOwed' = tgOwed \cup {Head(s)} /\ Goto(p, Tagging(Tail(s)))
  <2>1. PICK m \in DOMAIN tgTags : tgTags[m] = id
    BY <1>6 DEF LiveIds
  <2>2. m = Head(s)[2]
    BY <1>3, <2>1 DEF OnlyIdOf
  <2>3. Held(Head(s))'
    BY <1>2, <1>6, <2>1, <2>2 DEF Held
  <2>4. OwedHeld'
    BY <1>2, <1>4, <1>6, <2>3 DEF OwedHeld, TagInv, Held
  <2>5. PICK c : c = Tagging(Tail(s))
    OBVIOUS
  <2>6. TgCallIsSound(c)'
    BY <1>4, <1>5, <2>5, TaggingIsSound, TgCallKept
  <2>7. DOMAIN tgPc' = TgProcs /\ \A q \in TgProcs : TgCallIsSound(tgPc[q])'
    BY <1>5, <1>6, <2>5, <2>6, TgCallsKeep
  <2> QED BY <1>2, <1>5, <2>4, <2>7 DEF TagInv, FileNamed
<1>7. CASE Goto(p, TgIdle) /\ UNCHANGED <<tgDocs, tgOwed>>
  <2>1. TgCallIsSound(TgIdle)'
    BY DEF TgCallIsSound, TgIdle
  <2> QED BY <1>2, <1>5, <1>7, <2>1, TgMoveKeeps
<1> QED BY <1>1, <1>6, <1>7 DEF TagInsert

\* A step that moves no process: the calls stay sound.
LEMMA TgCallsStay ==
  ASSUME TagInv, TagsEvolve, UNCHANGED tgPc
  PROVE  DOMAIN tgPc' = TgProcs /\ \A q \in TgProcs : TgCallIsSound(tgPc[q])'
<1>1. ASSUME NEW q \in TgProcs PROVE TgCallIsSound(tgPc[q])'
  <2>1. PICK d : d = tgPc[q]
    OBVIOUS
  <2>2. tgPc'[q] = d
    BY <2>1
  <2>3. TgCallIsSound(d)'
    BY <2>1, TgCallKept DEF TagInv
  <2> QED BY <2>2, <2>3 DEF TgCallIsSound, Todo, OnlyIdOf
<1> QED BY <1>1 DEF TagInv

LEMMA UntagKeeps ==
  ASSUME TagInv, NEW d \in TgDocs, NEW n \in TgNames, untag_doc(d, n)
  PROVE  TagInv'
<1>1. /\ n \in DOMAIN tgTags /\ tgDocs' = tgDocs \ {<<d, tgTags[n]>>} /\ tgOwed' = tgOwed \ {<<d, n>>}
      /\ UNCHANGED <<tgTags, tgNext, tgRules, tgPc, tgFile>>
  BY DEF untag_doc
<1>2. ASSUME NEW o \in tgOwed' PROVE o \in Items /\ Held(o)'
  <2>1. o \in Items /\ Held(o) /\ o # <<d, n>>
    BY <1>1 DEF TagInv, OwedHeld
  <2>2. o = <<o[1], o[2]>>
    BY <2>1 DEF Items
  <2>3. o[2] \in DOMAIN tgTags /\ <<o[1], tgTags[o[2]]>> \in tgDocs
    BY <2>1 DEF Held
  <2>4. tgTags[o[2]] = tgTags[n] => o[2] = n
    BY <1>1, <2>3 DEF TagInv, TagsNamed, OnlyIdOf
  <2>5. <<o[1], tgTags[o[2]]>> # <<d, tgTags[n]>>
    BY <2>1, <2>2, <2>4
  <2> QED BY <1>1, <2>1, <2>3, <2>5 DEF Held
<1>3. TagsEvolve /\ TagsNamed'
  BY <1>1, TagsSame
<1>4. DOMAIN tgPc' = TgProcs /\ \A q \in TgProcs : TgCallIsSound(tgPc[q])'
  BY <1>1, <1>3, TgCallsStay
<1> QED BY <1>1, <1>2, <1>3, <1>4 DEF TagInv, OwedHeld, FileNamed

LEMMA AddRuleKeeps ==
  ASSUME TagInv, AddRule
  PROVE  TagInv'
<1>1. PICK r \in TgRules : add_rule(r, TRUE)
  BY DEF AddRule
<1>2. UNCHANGED <<tgDocs, tgPc, tgFile, tgOwed>>
  BY DEF AddRule
<1>3. r[2] \in TgAll
  BY DEF TgAll
<1>4. create_tag(r[2]) /\ DOMAIN tgRules' = DOMAIN tgRules \cup {r}
  BY <1>1 DEF add_rule
<1>5. PICK n : n = r[2]
  OBVIOUS
<1>6. TagsEvolve /\ TagsStay /\ TagsNamed'
  <2>1. create_tag(n) /\ n \in TgAll
    BY <1>3, <1>4, <1>5
  <2> QED BY <2>1, CreateFacts
<1>7. DOMAIN tgPc' = TgProcs /\ \A q \in TgProcs : TgCallIsSound(tgPc[q])'
  BY <1>2, <1>6, TgCallsStay
<1>8. OwedHeld'
  BY <1>2, <1>6, HeldStays
<1> QED BY <1>2, <1>4, <1>6, <1>7, <1>8 DEF TagInv, FileNamed

\* Deleting names: what is left has the ids it had.
LEMMA WithoutFacts ==
  ASSUME TagInv, NEW N, tgTags' = Without(N), tgNext' = tgNext
  PROVE  /\ TagsEvolve /\ TagsNamed'
         /\ DOMAIN tgTags' = DOMAIN tgTags \ N
         /\ \A m \in DOMAIN tgTags \ N : tgTags'[m] = tgTags[m]
<1>1. /\ DOMAIN tgTags' = DOMAIN tgTags \ N
      /\ \A m \in DOMAIN tgTags \ N : tgTags'[m] = tgTags[m]
  BY DEF Without
<1>2. TagsEvolve
  BY <1>1 DEF TagsEvolve, TagInv, TagsNamed
<1>3. TagsNamed'
  BY <1>1 DEF TagInv, TagsNamed, OnlyIdOf
<1> QED BY <1>1, <1>2, <1>3

LEMMA CleanupKeeps ==
  ASSUME TagInv, Cleanup
  PROVE  TagInv'
<1>1. PICK N : N = Orphans
  OBVIOUS
<1>2. /\ tgTags' = Without(N) /\ tgDocs' = tgDocs \ OfTags(N)
      /\ UNCHANGED <<tgNext, tgRules, tgPc, tgFile, tgOwed>>
  BY <1>1 DEF Cleanup
<1>3. /\ TagsEvolve /\ TagsNamed'
      /\ DOMAIN tgTags' = DOMAIN tgTags \ N
      /\ \A m \in DOMAIN tgTags \ N : tgTags'[m] = tgTags[m]
  BY <1>2, WithoutFacts
<1>4. ASSUME NEW o \in tgOwed' PROVE o \in Items /\ Held(o)'
  <2>1. /\ o \in Items /\ o[1] \in TgDocs /\ o[2] \in DOMAIN tgTags
        /\ <<o[1], tgTags[o[2]]>> \in tgDocs
    BY <1>2 DEF TagInv, OwedHeld, Held, Items
  <2>2. o[2] \notin N
    BY <1>1, <2>1 DEF Orphans
  <2>3. <<o[1], tgTags[o[2]]>> \notin OfTags(N)
    <3>1. \A k \in N : k \in DOMAIN tgTags
      BY <1>1 DEF Orphans
    <3>2. \A k \in N : tgTags[k] # tgTags[o[2]]
      BY <2>1, <2>2, <3>1 DEF TagInv, TagsNamed, OnlyIdOf
    <3> QED BY <3>2 DEF OfTags
  <2> QED BY <1>2, <1>3, <2>1, <2>2, <2>3 DEF Held
<1>5. DOMAIN tgPc' = TgProcs /\ \A q \in TgProcs : TgCallIsSound(tgPc[q])'
  BY <1>2, <1>3, TgCallsStay
<1> QED BY <1>2, <1>3, <1>4, <1>5 DEF TagInv, OwedHeld, FileNamed

LEMMA MergeLookKeeps ==
  ASSUME TagInv, NEW p \in TgProcs, MergeLook(p)
  PROVE  TagInv'
<1>1. PICK f \in DOMAIN tgTags, n \in TgNames : Goto(p, [at |-> "into", from |-> f, id |-> tgTags[f], into |-> n])
  BY DEF MergeLook
<1>2. UNCHANGED <<tgTags, tgNext, tgDocs, tgRules, tgFile, tgOwed>>
  BY DEF MergeLook
<1>3. PICK id : id = tgTags[f]
  OBVIOUS
<1>4. PICK c : c = [at |-> "into", from |-> f, id |-> id, into |-> n]
  OBVIOUS
<1>5. c.at = "into" /\ c.from = f /\ c.id = id /\ c.into = n
  BY <1>4
<1>6. Goto(p, c)
  BY <1>1, <1>3, <1>4
<1>7. TagsEvolve /\ TagsStay /\ TagsNamed'
  BY <1>2, TagsSame
<1>8. TgCallIsSound(c)
  <2>1. OnlyIdOf(c.id, c.from)
    BY <1>3, <1>5 DEF TagInv, TagsNamed
  <2> QED BY <1>5, <2>1 DEF TgCallIsSound, TgAll
<1> QED BY <1>2, <1>6, <1>7, <1>8, TgCallKept, TgMoveKeeps

LEMMA MergeIntoKeeps ==
  ASSUME TagInv, NEW p \in TgProcs, MergeInto(p)
  PROVE  TagInv'
<1>1. PICK f, id, n : f = tgPc[p].from /\ id = tgPc[p].id /\ n = tgPc[p].into
  OBVIOUS
<1>2. tgPc[p].at = "into" /\ create_tag(n) /\ UNCHANGED <<tgDocs, tgRules, tgFile, tgOwed>>
  BY <1>1 DEF MergeInto
<1>3. n \in TgAll /\ OnlyIdOf(id, f)
  BY <1>1, <1>2 DEF TagInv, TgCallIsSound, TgIdle
<1>4. /\ TagsEvolve /\ TagsStay /\ TagsNamed'
      /\ \A x : x = WithTag(n)[n] => OnlyIdOf(x, n)'
  BY <1>2, <1>3, CreateFacts
<1>5. PICK to : to = WithTag(n)[n]
  OBVIOUS
<1>6. OnlyIdOf(id, f)' /\ OnlyIdOf(to, n)'
  BY <1>3, <1>4, <1>5, OnlyIdKept
<1>7. PICK c : c = [at |-> "move", from |-> f, id |-> id, into |-> n, to |-> to]
  OBVIOUS
<1>8. c.at = "move" /\ c.from = f /\ c.id = id /\ c.into = n /\ c.to = to
  BY <1>7
<1>9. Goto(p, c)
  BY <1>1, <1>5, <1>7 DEF MergeInto
<1>10. TgCallIsSound(c)'
  <2>1. OnlyIdOf(c.id, c.from)' /\ OnlyIdOf(c.to, c.into)'
    BY <1>6, <1>8, Zenon
  <2> QED BY <1>3, <1>8, <2>1 DEF TgCallIsSound
<1> QED BY <1>2, <1>4, <1>9, <1>10, TgMoveKeeps

LEMMA MergeMoveKeeps ==
  ASSUME TagInv, NEW p \in TgProcs, MergeMove(p)
  PROVE  TagInv'
<1>1. PICK f, id, n, to : f = tgPc[p].from /\ id = tgPc[p].id /\ n = tgPc[p].into /\ to = tgPc[p].to
  OBVIOUS
<1>2. tgPc[p].at = "move" /\ UNCHANGED <<tgTags, tgNext, tgRules, tgFile>>
  BY DEF MergeMove
<1>3. n \in TgAll /\ OnlyIdOf(id, f) /\ OnlyIdOf(to, n)
  BY <1>1, <1>2 DEF TagInv, TgCallIsSound, TgIdle
<1>4. TagsEvolve /\ TagsStay /\ TagsNamed'
  BY <1>2, TagsSame
<1> DEFINE mine == {x \in tgDocs : x[2] = id}
<1>5. CASE /\ mine = {} \/ to \in LiveIds
           /\ tgDocs' = IF mine = {} THEN tgDocs ELSE Repointed(id, to)
           /\ tgOwed' = {IF o[2] = f /\ <<o[1], id>> \in tgDocs THEN <<o[1], n>> ELSE o : o \in tgOwed}
           /\ Goto(p, [at |-> "drop", from |-> f, id |-> id])
  <2>1. ASSUME NEW o \in tgOwed, o[2] = f, <<o[1], id>> \in tgDocs
        PROVE  <<o[1], n>> \in Items /\ Held(<<o[1], n>>)'
    <3>1. <<o[1], id>> \in mine
      BY <2>1
    <3>2. to \in LiveIds /\ tgDocs' = Repointed(id, to)
      BY <1>5, <3>1
    <3>3. n \in DOMAIN tgTags /\ tgTags[n] = to
      BY <1>3, <3>2 DEF LiveIds, OnlyIdOf
    <3>4. <<o[1], to>> \in tgDocs'
      BY <2>1, <3>2 DEF Repointed
    <3>5. o[1] \in TgDocs
      BY DEF TagInv, OwedHeld, Items
    <3> QED BY <1>2, <1>3, <3>3, <3>4, <3>5 DEF Held, Items
  <2>2. ASSUME NEW o \in tgOwed, ~(o[2] = f /\ <<o[1], id>> \in tgDocs)
        PROVE  o \in Items /\ Held(o)'
    <3>1. o \in Items /\ o[2] \in DOMAIN tgTags /\ <<o[1], tgTags[o[2]]>> \in tgDocs
      BY DEF TagInv, OwedHeld, Held
    <3>2. tgTags[o[2]] # id
      BY <1>3, <2>2, <3>1 DEF OnlyIdOf
    <3>3. <<o[1], tgTags[o[2]]>> \in Repointed(id, to)
      BY <3>1, <3>2 DEF Repointed
    <3> QED BY <1>2, <1>5, <3>1, <3>3 DEF Held
  <2>3. OwedHeld'
    <3> SUFFICES ASSUME NEW o \in tgOwed' PROVE o \in Items /\ Held(o)'
      BY DEF OwedHeld
    <3>1. PICK u \in tgOwed : o = IF u[2] = f /\ <<u[1], id>> \in tgDocs THEN <<u[1], n>> ELSE u
      BY <1>5
    <3>2. CASE u[2] = f /\ <<u[1], id>> \in tgDocs
      <4>1. o = <<u[1], n>>
        BY <3>1, <3>2
      <4>2. <<u[1], n>> \in Items /\ Held(<<u[1], n>>)'
        BY <2>1, <3>2
      <4> QED BY <4>1, <4>2, Zenon
    <3>3. CASE ~(u[2] = f /\ <<u[1], id>> \in tgDocs)
      <4>1. o = u
        BY <3>1, <3>3
      <4> QED BY <2>2, <3>3, <4>1
    <3> QED BY <3>2, <3>3
  <2>4. PICK c : c = [at |-> "drop", from |-> f, id |-> id]
    OBVIOUS
  <2>5. TgCallIsSound(c)' /\ Goto(p, c)
    BY <1>5, <2>4 DEF TgCallIsSound
  <2>6. DOMAIN tgPc' = TgProcs /\ \A q \in TgProcs : TgCallIsSound(tgPc[q])'
    BY <1>4, <2>5, TgCallsKeep
  <2> QED BY <1>2, <1>4, <2>3, <2>6 DEF TagInv, FileNamed
<1>6. CASE Goto(p, TgIdle) /\ UNCHANGED <<tgDocs, tgOwed>>
  <2>1. TgCallIsSound(TgIdle)'
    BY DEF TgCallIsSound, TgIdle
  <2> QED BY <1>2, <1>4, <1>6, <2>1, TgMoveKeeps
<1> QED BY <1>1, <1>5, <1>6 DEF MergeMove

LEMMA MergeDropKeeps ==
  ASSUME TagInv, NEW p \in TgProcs, MergeDrop(p)
  PROVE  TagInv'
<1>1. PICK id : id = tgPc[p].id
  OBVIOUS
<1>2. /\ tgDocs' = {x \in tgDocs : x[2] # id} /\ tgOwed' = Kept(id)
      /\ Goto(p, [at |-> "tag", id |-> id]) /\ UNCHANGED <<tgTags, tgNext, tgRules, tgFile>>
  BY <1>1 DEF MergeDrop
<1>3. TagsEvolve /\ TagsNamed'
  BY <1>2, TagsSame
<1>4. ASSUME NEW o \in tgOwed' PROVE o \in Items /\ Held(o)'
  <2>1. /\ o \in Items /\ o[2] \in DOMAIN tgTags /\ <<o[1], tgTags[o[2]]>> \in tgDocs
        /\ tgTags[o[2]] # id
    BY <1>2 DEF TagInv, OwedHeld, Held, Kept
  <2> QED BY <1>2, <2>1 DEF Held
<1>5. PICK c : c = [at |-> "tag", id |-> id]
  OBVIOUS
<1>6. TgCallIsSound(c)' /\ Goto(p, c)
  BY <1>2, <1>5 DEF TgCallIsSound
<1>7. DOMAIN tgPc' = TgProcs /\ \A q \in TgProcs : TgCallIsSound(tgPc[q])'
  BY <1>3, <1>6, TgCallsKeep
<1> QED BY <1>2, <1>3, <1>4, <1>7 DEF TagInv, OwedHeld, FileNamed

LEMMA MergeTagKeeps ==
  ASSUME TagInv, NEW p \in TgProcs, MergeTag(p)
  PROVE  TagInv'
<1>1. PICK id, N : id = tgPc[p].id /\ N = {n \in DOMAIN tgTags : tgTags[n] = id}
  OBVIOUS
<1>2. /\ tgTags' = Without(N) /\ tgDocs' = tgDocs \ OfTags(N) /\ tgOwed' = Kept(id)
      /\ Goto(p, TgIdle) /\ UNCHANGED <<tgNext, tgRules, tgFile>>
  BY <1>1 DEF MergeTag
<1>3. /\ TagsEvolve /\ TagsNamed'
      /\ DOMAIN tgTags' = DOMAIN tgTags \ N
      /\ \A m \in DOMAIN tgTags \ N : tgTags'[m] = tgTags[m]
  BY <1>2, WithoutFacts
<1>4. ASSUME NEW o \in tgOwed' PROVE o \in Items /\ Held(o)'
  <2>1. /\ o \in Items /\ o[2] \in DOMAIN tgTags /\ <<o[1], tgTags[o[2]]>> \in tgDocs
        /\ tgTags[o[2]] # id
    BY <1>2 DEF TagInv, OwedHeld, Held, Kept
  <2>2. <<o[1], tgTags[o[2]]>> \notin OfTags(N) /\ o[2] \notin N
    BY <1>1, <2>1 DEF OfTags
  <2> QED BY <1>2, <1>3, <2>1, <2>2 DEF Held
<1>5. TgCallIsSound(TgIdle)'
  BY DEF TgCallIsSound, TgIdle
<1>6. DOMAIN tgPc' = TgProcs /\ \A q \in TgProcs : TgCallIsSound(tgPc[q])'
  BY <1>2, <1>3, <1>5, TgCallsKeep
<1> QED BY <1>2, <1>3, <1>4, <1>6 DEF TagInv, OwedHeld, FileNamed

LEMMA ExportNamesKeeps ==
  ASSUME TagInv, NEW p \in TgProcs, ExportNames(p)
  PROVE  TagInv'
<1>1. UNCHANGED <<tgTags, tgNext, tgDocs, tgRules, tgFile, tgOwed>>
  BY DEF ExportNames
<1>2. PICK N : N = DOMAIN tgTags
  OBVIOUS
<1>3. PICK c : c = [at |-> "export", tags |-> N]
  OBVIOUS
<1>4. Goto(p, c) /\ c.at = "export" /\ c.tags = N
  BY <1>2, <1>3 DEF ExportNames
<1>5. TagsEvolve /\ TagsStay /\ TagsNamed'
  BY <1>1, TagsSame
<1>6. TgCallIsSound(c)'
  BY <1>2, <1>4 DEF TgCallIsSound, TagInv, TagsNamed
<1> QED BY <1>1, <1>4, <1>5, <1>6, TgMoveKeeps

LEMMA ExportRestKeeps ==
  ASSUME TagInv, NEW p \in TgProcs, ExportRest(p)
  PROVE  TagInv'
<1> DEFINE S == {x \in TgDocs \X DOMAIN tgTags : <<x[1], tgTags[x[2]]>> \in tgDocs}
<1>1. /\ tgFile' = [tags |-> tgPc[p].tags, rules |-> tgRules, docs |-> SetToSeq(S)]
      /\ Goto(p, TgIdle) /\ UNCHANGED <<tgTags, tgNext, tgDocs, tgRules, tgOwed>>
      /\ tgPc[p].at = "export"
  BY DEF ExportRest
<1>2. S \subseteq Items
  BY DEF Items, TagInv, TagsNamed
<1> HIDE DEF S
<1>3. SetToSeq(S) \in Seq(Items)
  BY <1>2, ItemsListed
<1>4. tgPc[p].tags \subseteq TgAll
  BY <1>1 DEF TagInv, TgCallIsSound, TgIdle
<1>5. FileNamed'
  BY <1>1, <1>3, <1>4 DEF FileNamed, TagInv
<1>6. TagsEvolve /\ TagsStay /\ TagsNamed'
  BY <1>1, TagsSame
<1>7. TgCallIsSound(TgIdle)'
  BY DEF TgCallIsSound, TgIdle
<1>8. DOMAIN tgPc' = TgProcs /\ \A q \in TgProcs : TgCallIsSound(tgPc[q])'
  BY <1>1, <1>6, <1>7, TgCallsKeep
<1>9. OwedHeld'
  BY <1>1, <1>6, HeldStays
<1> QED BY <1>1, <1>5, <1>6, <1>8, <1>9 DEF TagInv

LEMMA ImportTagsKeeps ==
  ASSUME TagInv, NEW p \in TgProcs, ImportTags(p)
  PROVE  TagInv'
<1>1. PICK N, new, s : /\ N = tgFile.tags \cup {r[2] : r \in DOMAIN tgFile.rules}
                       /\ new = SetToSeq(N \ DOMAIN tgTags) /\ s = tgFile.docs
  OBVIOUS
<1>2. /\ tgTags' = [n \in DOMAIN tgTags \cup N |->
                      IF n \in DOMAIN tgTags THEN tgTags[n] ELSE tgNext - 1 + CHOOSE i \in DOMAIN new : new[i] = n]
      /\ tgNext' = tgNext + Len(new) /\ Goto(p, Tagging(s))
      /\ UNCHANGED <<tgDocs, tgFile, tgOwed>>
      /\ DOMAIN tgRules' = DOMAIN tgRules \cup DOMAIN tgFile.rules
  BY <1>1 DEF ImportTags
<1>3. N \subseteq TgAll /\ s \in Seq(Items) /\ tgNext \in Nat
  BY <1>1 DEF TagInv, FileNamed, TgAll, TagsNamed
<1>4. PICK k \in Nat : /\ new \in [1..k -> N \ DOMAIN tgTags]
                       /\ \A x \in N \ DOMAIN tgTags : \E i \in 1..k : new[i] = x
  <2>1. IsFiniteSet(N \ DOMAIN tgTags)
    BY <1>3, ItemsFinite, FS_Subset
  <2>2. PICK M : M = N \ DOMAIN tgTags
    OBVIOUS
  <2>3. /\ Cardinality(M) \in Nat /\ SetToSeq(M) \in [1..Cardinality(M) -> M]
        /\ \A x \in M : \E i \in 1..Cardinality(M) : SetToSeq(M)[i] = x
    BY <2>1, <2>2, SetToSeqFacts
  <2>4. new = SetToSeq(M)
    BY <1>1, <2>2
  <2> QED BY <2>2, <2>3, <2>4, Zenon
<1>5. DOMAIN new = 1..k /\ Len(new) = k
  <2>1. DOMAIN new = 1..k
    BY <1>4
  <2>2. new \in Seq(N \ DOMAIN tgTags)
    BY <1>4
  <2> QED BY <2>1, <2>2
<1> DEFINE At(n) == CHOOSE i \in DOMAIN new : new[i] = n
<1>6. ASSUME NEW n \in N \ DOMAIN tgTags PROVE At(n) \in 1..k /\ new[At(n)] = n
  BY <1>4, <1>5
<1>7. DOMAIN tgTags' = DOMAIN tgTags \cup N
  BY <1>2
<1>8. \A n \in DOMAIN tgTags : n \in DOMAIN tgTags' /\ tgTags'[n] = tgTags[n] /\ tgTags[n] \in Nat /\ tgTags[n] < tgNext
  BY <1>2 DEF TagInv, TagsNamed, OnlyIdOf
<1>9. \A n \in N \ DOMAIN tgTags : tgTags'[n] = tgNext - 1 + At(n)
  BY <1>2
<1> HIDE DEF At
<1>10. \A n \in N \ DOMAIN tgTags : tgTags'[n] \in Nat /\ tgNext <= tgTags'[n] /\ tgTags'[n] < tgNext + k
  BY <1>3, <1>6, <1>9
<1>11. tgNext' = tgNext + k /\ tgNext' \in Nat /\ tgNext <= tgNext'
  BY <1>2, <1>3, <1>5
<1>12. TagsEvolve /\ TagsStay
  BY <1>7, <1>8, <1>10, <1>11 DEF TagsEvolve, TagsStay
<1>13. ASSUME NEW n \in DOMAIN tgTags', NEW m \in DOMAIN tgTags', tgTags'[m] = tgTags'[n] PROVE m = n
  <2>1. CASE n \in DOMAIN tgTags /\ m \in DOMAIN tgTags
    BY <1>8, <1>13, <2>1 DEF TagInv, TagsNamed, OnlyIdOf
  <2>2. CASE n \notin DOMAIN tgTags /\ m \notin DOMAIN tgTags
    <3>1. At(m) = At(n)
      BY <1>3, <1>6, <1>7, <1>9, <1>13, <2>2
    <3> QED BY <1>6, <1>7, <2>2, <3>1
  <2>3. CASE (n \in DOMAIN tgTags) # (m \in DOMAIN tgTags)
    <3>1. \A x \in DOMAIN tgTags, y \in N \ DOMAIN tgTags : tgTags'[x] # tgTags'[y]
      BY <1>3, <1>8, <1>10
    <3> QED BY <1>7, <1>13, <2>3, <3>1
  <2> QED BY <2>1, <2>2, <2>3
<1>14. TagsNamed'
  <2>1. ASSUME NEW n \in DOMAIN tgTags' PROVE tgTags'[n] \in Nat /\ tgTags'[n] < tgNext'
    BY <1>3, <1>7, <1>8, <1>10, <1>11
  <2>2. DOMAIN tgTags' \subseteq TgAll
    BY <1>3, <1>7 DEF TagInv, TagsNamed
  <2> QED BY <1>11, <1>13, <2>1, <2>2 DEF TagsNamed, OnlyIdOf
<1>15. PICK c : c = Tagging(s)
  OBVIOUS
<1>16. TgCallIsSound(c)' /\ Goto(p, c)
  BY <1>2, <1>3, <1>12, <1>15, TaggingIsSound, TgCallKept
<1>17. DOMAIN tgPc' = TgProcs /\ \A q \in TgProcs : TgCallIsSound(tgPc[q])'
  BY <1>12, <1>16, TgCallsKeep
<1>18. OwedHeld'
  BY <1>2, <1>12, HeldStays
<1>19. DOMAIN tgRules' \subseteq TgRules /\ FileNamed'
  BY <1>2 DEF TagInv, FileNamed
<1> QED BY <1>14, <1>17, <1>18, <1>19 DEF TagInv

LEMMA TagStep ==
  ASSUME TagInv, TagsNext \/ UNCHANGED tgVars
  PROVE  TagInv'
<1>1. CASE UNCHANGED tgVars
  BY <1>1 DEF tgVars, TagInv, TagsNamed, FileNamed, OwedHeld, Held, TgCallIsSound, OnlyIdOf, Todo
<1>2. CASE TagsNext
  BY <1>2, AddRuleKeeps, CleanupKeeps, UntagKeeps, TagStartKeeps, TagCreateKeeps, TagInsertKeeps, MergeLookKeeps,
     MergeIntoKeeps, MergeMoveKeeps, MergeDropKeeps, MergeTagKeeps, ExportNamesKeeps, ExportRestKeeps,
     ImportTagsKeeps DEF TagsNext
<1> QED BY <1>1, <1>2

\* Tags: an association that was confirmed is there, under the name merges
\* gave it, whatever the processes tag, merge, import and clean up meanwhile.
THEOREM AssociationsAreNeverLost == Spec => []TagsAreNotLost
<1>1. Init => TagInv
  BY TagInit DEF Init
<1>2. TagInv /\ [Next]_vars => TagInv'
  BY OneComponentMoves, TagStep
<1>3. TagInv => TagsAreNotLost
  BY DEF TagInv, OwedHeld, TagsAreKept, TagsAreNotLost
<1> QED BY <1>1, <1>2, <1>3, PTL DEF Spec
-----------------------------------------------------------------------------
(* Media: the calls under way each have a row of their own as parent; what  *)
(* is stored under it so far is numbered without a gap, a frame n at the     *)
(* file n + 1 of the directory; and a directory shows the videos extracted   *)
(* into it, and is no longer than the one video extracted into it.           *)
MdVideos == DOMAIN MdLength
MdRows == [kind : {"image", "audio", "video", "frame", "caption"}, parent : Nat, ts : Nat,
           path : {<<>>} \cup (MdDirs \X Nat)]
MdCalls == [pc : {"idle"}] \cup [pc : {"caption"}, parent : Nat]
           \cup [pc : {"extract", "list"}, video : MdVideos, parent : Nat]
           \cup [pc : {"index"}, video : MdVideos, parent : Nat, files : Nat, at : Nat]
CaptionIds(parent) == {i \in DOMAIN mdAssets : mdAssets[i].kind = "caption" /\ mdAssets[i].parent = parent}
Numbered(parent, n) ==
    /\ \A i \in FrameIds(parent) : mdAssets[i].ts \in 0..(n - 1)
    /\ \A i, j \in FrameIds(parent) : mdAssets[i].ts = mdAssets[j].ts => i = j
    /\ \A t \in 0..(n - 1) : \E i \in FrameIds(parent) : mdAssets[i].ts = t
AllIn(parent, d) == \A i \in FrameIds(parent) : mdAssets[i].path = <<d, mdAssets[i].ts + 1>>

MdTyped ==
    /\ mdAssets \in Seq(MdRows) /\ mdCall \in [MdWorkers -> MdCalls]
    /\ mdDir \in [MdDirs -> Seq(MdVideos)] /\ mdUsed \in [MdDirs -> SUBSET MdVideos]
    /\ mdGen \in [MdProcs -> 0..MdMaxKills]
ParentsFit ==
    \A i \in DOMAIN mdAssets :
       mdAssets[i].kind \in {"frame", "caption"} =>
          /\ mdAssets[i].parent \in 1..(i - 1)
          /\ mdAssets[mdAssets[i].parent].kind = IF mdAssets[i].kind = "frame" THEN "video" ELSE "audio"
DirFits(p) ==
    /\ \A i \in DOMAIN mdDir[p] : mdDir[p][i] \in mdUsed[p]
    /\ \A v \in MdVideos : mdUsed[p] \subseteq {v} => Len(mdDir[p]) <= MdLength[v]
MdCallFits(c, p) ==
    /\ c.pc # "idle" => c.parent \in DOMAIN mdAssets
    /\ c.pc = "caption" => mdAssets[c.parent].kind = "audio" /\ CaptionIds(c.parent) = {}
    /\ c.pc \in {"extract", "list", "index"} => mdAssets[c.parent].kind = "video"
    /\ c.pc \in {"extract", "list"} => FrameIds(c.parent) = {}
    /\ c.pc \in {"list", "index"} => c.video \in mdUsed[p] /\ MdLength[c.video] <= Len(mdDir[p])
    /\ c.pc = "index" =>
          /\ c.at < c.files /\ c.files <= Len(mdDir[p]) /\ MdLength[c.video] <= c.files
          /\ Numbered(c.parent, c.at)
          /\ AllIn(c.parent, p)
DoneFits(d) ==
    /\ d.id \in DOMAIN mdAssets
    /\ d.kind = "video" => /\ d.dir \in MdDirs /\ d.of \in mdUsed[d.dir] /\ AllIn(d.id, d.dir)
                           /\ \E n \in Nat \ {0} : /\ Numbered(d.id, n)
                                                 /\ MdLength[d.of] <= n /\ n <= Len(mdDir[d.dir])
    /\ d.kind = "spoken" => \E i : CaptionIds(d.id) = {i}
CallsApart ==
    /\ \A u, w \in MdWorkers : u # w /\ mdCall[u].pc # "idle" /\ mdCall[w].pc # "idle" =>
          mdCall[u].parent # mdCall[w].parent
    /\ \A d \in mdDone, w \in MdWorkers : mdCall[w].pc # "idle" => mdCall[w].parent # d.id
MdInv ==
    /\ MdTyped /\ ParentsFit /\ CallsApart
    /\ \A p \in MdDirs : DirFits(p)
    /\ \A w \in MdWorkers : MdCallFits(mdCall[w], tempdir(w))
    /\ \A d \in mdDone : DoneFits(d)

\* A worker's directory, while no process dies.
LEMMA TempdirStays ==
  ASSUME MdTyped, NEW u \in MdWorkers
  PROVE  tempdir(u) \in MdDirs /\ (UNCHANGED mdGen => tempdir(u)' = tempdir(u))
BY MediaAssumption DEF MdTyped, MdDirs, tempdir

\* A row more: the rows before it stay.
LEMMA InsertFacts ==
  ASSUME MdTyped, NEW x \in MdRows, mdAssets' = Append(mdAssets, x)
  PROVE  /\ mdAssets' \in Seq(MdRows) /\ Len(mdAssets) \in Nat /\ Len(mdAssets') = Len(mdAssets) + 1
         /\ DOMAIN mdAssets = 1..Len(mdAssets) /\ DOMAIN mdAssets' = 1..(Len(mdAssets) + 1)
         /\ DOMAIN mdAssets' = DOMAIN mdAssets \cup {Len(mdAssets) + 1} /\ Len(mdAssets) + 1 \notin DOMAIN mdAssets
         /\ \A i \in DOMAIN mdAssets : mdAssets'[i] = mdAssets[i]
         /\ mdAssets'[Len(mdAssets) + 1] = x
<1>1. mdAssets \in Seq(MdRows)
  BY DEF MdTyped
<1> QED BY <1>1

\* What is stored under a row is what was, unless the new row goes there.
LEMMA ChildrenStay ==
  ASSUME MdTyped, NEW x \in MdRows, mdAssets' = Append(mdAssets, x), NEW q
  PROVE  /\ ~(x.kind = "frame" /\ x.parent = q) =>
              /\ FrameIds(q)' = FrameIds(q)
              /\ \A n : Numbered(q, n) => Numbered(q, n)'
              /\ \A v : AllIn(q, v) => AllIn(q, v)'
         /\ ~(x.kind = "caption" /\ x.parent = q) => CaptionIds(q)' = CaptionIds(q)
<1>1. PICK l : l = Len(mdAssets) + 1
  OBVIOUS
<1>2. /\ DOMAIN mdAssets' = DOMAIN mdAssets \cup {l} /\ l \notin DOMAIN mdAssets
      /\ \A i \in DOMAIN mdAssets : mdAssets'[i] = mdAssets[i]
      /\ mdAssets'[l] = x
  BY <1>1, InsertFacts
<1>3. ~(x.kind = "frame" /\ x.parent = q) => FrameIds(q)' = FrameIds(q)
  BY <1>2, Zenon DEF FrameIds
<1>4. ~(x.kind = "caption" /\ x.parent = q) => CaptionIds(q)' = CaptionIds(q)
  BY <1>2, Zenon DEF CaptionIds
<1>5. \A i \in FrameIds(q) : mdAssets'[i] = mdAssets[i]
  BY <1>2, Zenon DEF FrameIds
<1>6. ASSUME FrameIds(q)' = FrameIds(q)
      PROVE  (\A n : Numbered(q, n) => Numbered(q, n)') /\ (\A v : AllIn(q, v) => AllIn(q, v)')
  <2>1. PICK F, G, a, b : F = FrameIds(q) /\ G = FrameIds(q)' /\ a = mdAssets /\ b = mdAssets'
    OBVIOUS
  <2>2. G = F /\ \A i \in F : b[i] = a[i]
    BY <1>5, <1>6, <2>1
  <2>3. ASSUME NEW n, Numbered(q, n) PROVE Numbered(q, n)'
    <3>1. /\ \A i \in F : a[i].ts \in 0..(n - 1)
          /\ \A i, j \in F : a[i].ts = a[j].ts => i = j
          /\ \A t \in 0..(n - 1) : \E i \in F : a[i].ts = t
      BY <2>1, <2>3 DEF Numbered
    <3>2. /\ \A i \in G : b[i].ts \in 0..(n - 1)
          /\ \A i, j \in G : b[i].ts = b[j].ts => i = j
          /\ \A t \in 0..(n - 1) : \E i \in G : b[i].ts = t
      <4>1. \A i \in G : b[i].ts = a[i].ts
        BY <2>2
      <4> QED BY <2>2, <3>1, <4>1
    <3> QED BY <2>1, <3>2 DEF Numbered
  <2>4. ASSUME NEW v, AllIn(q, v) PROVE AllIn(q, v)'
    <3>1. \A i \in F : a[i].path = <<v, a[i].ts + 1>>
      BY <2>1, <2>4 DEF AllIn
    <3>2. \A i \in G : b[i].path = <<v, b[i].ts + 1>>
      BY <2>2, <3>1
    <3> QED BY <2>1, <3>2 DEF AllIn
  <2> QED BY <2>3, <2>4
<1> QED BY <1>3, <1>4, <1>6, Zenon

\* The next frame of a video.
LEMMA FrameAdded ==
  ASSUME MdTyped, NEW x \in MdRows, mdAssets' = Append(mdAssets, x), x.kind = "frame", NEW n \in Nat, x.ts = n,
         Numbered(x.parent, n)
  PROVE  Numbered(x.parent, n + 1)' /\ \A v : AllIn(x.parent, v) /\ x.path = <<v, n + 1>> => AllIn(x.parent, v)'
<1>1. PICK l, q : l = Len(mdAssets) + 1 /\ q = x.parent
  OBVIOUS
<1>2. /\ DOMAIN mdAssets' = DOMAIN mdAssets \cup {l} /\ l \notin DOMAIN mdAssets
      /\ \A i \in DOMAIN mdAssets : mdAssets'[i] = mdAssets[i]
      /\ mdAssets'[l] = x
  BY <1>1, InsertFacts
<1>3. FrameIds(q)' = FrameIds(q) \cup {l} /\ l \notin FrameIds(q)
  BY <1>1, <1>2, Zenon DEF FrameIds
<1>4. \A i \in FrameIds(q) : mdAssets'[i] = mdAssets[i]
  BY <1>2, Zenon DEF FrameIds
<1>5. /\ \A i \in FrameIds(q) : mdAssets[i].ts \in 0..(n - 1)
      /\ \A i, j \in FrameIds(q) : mdAssets[i].ts = mdAssets[j].ts => i = j
      /\ \A t \in 0..(n - 1) : \E i \in FrameIds(q) : mdAssets[i].ts = t
  BY <1>1 DEF Numbered
<1>6. n \notin 0..(n - 1) /\ (n + 1) - 1 = n /\ \A t \in 0..n : t \in 0..(n - 1) \/ t = n
  OBVIOUS
<1>7. \A t \in 0..(n - 1) : t \in 0..n
  OBVIOUS
<1>8. PICK F, G, a, b : F = FrameIds(q) /\ G = FrameIds(q)' /\ a = mdAssets /\ b = mdAssets'
  OBVIOUS
<1>9. /\ G = F \cup {l} /\ l \notin F /\ b[l] = x /\ x.ts = n
      /\ \A i \in F : b[i] = a[i]
      /\ \A i \in F : a[i].ts \in 0..(n - 1)
      /\ \A i, j \in F : a[i].ts = a[j].ts => i = j
      /\ \A t \in 0..(n - 1) : \E i \in F : a[i].ts = t
  BY <1>2, <1>3, <1>4, <1>5, <1>8
<1>10. /\ \A i \in G : b[i].ts \in 0..n
       /\ \A i, j \in G : b[i].ts = b[j].ts => i = j
       /\ \A t \in 0..n : \E i \in G : b[i].ts = t
  <2>1. \A i \in G : b[i].ts \in 0..n
    BY <1>7, <1>9
  <2>2. \A i, j \in G : b[i].ts = b[j].ts => i = j
    <3>1. \A i \in F : b[i].ts # b[l].ts
      BY <1>6, <1>9
    <3> QED BY <1>9, <3>1
  <2>3. ASSUME NEW t \in 0..n PROVE \E i \in G : b[i].ts = t
    BY <1>6, <1>9, Zenon
  <2> QED BY <2>1, <2>2, <2>3
<1>11. Numbered(q, n + 1)'
  BY <1>6, <1>8, <1>10, ZenonT(40) DEF Numbered
<1>12. \A v : AllIn(q, v) /\ x.path = <<v, n + 1>> => AllIn(q, v)'
  BY <1>2, <1>3, <1>4, Zenon DEF AllIn
<1> QED BY <1>1, <1>11, <1>12

\* Rows that point to their parents, and calls, while a row is added that no
\* other call owns.
LEMMA ParentsStay ==
  ASSUME MdInv, NEW x \in MdRows, mdAssets' = Append(mdAssets, x),
         x.kind \in {"frame", "caption"} =>
            x.parent \in DOMAIN mdAssets /\ mdAssets[x.parent].kind = IF x.kind = "frame" THEN "video" ELSE "audio"
  PROVE  ParentsFit'
<1>1. MdTyped /\ ParentsFit
  BY DEF MdInv
<1>2. /\ Len(mdAssets) \in Nat /\ DOMAIN mdAssets = 1..Len(mdAssets)
      /\ DOMAIN mdAssets' = DOMAIN mdAssets \cup {Len(mdAssets) + 1}
      /\ \A i \in DOMAIN mdAssets : mdAssets'[i] = mdAssets[i]
      /\ mdAssets'[Len(mdAssets) + 1] = x
  BY <1>1, InsertFacts
<1>3. SUFFICES ASSUME NEW i \in DOMAIN mdAssets', mdAssets'[i].kind \in {"frame", "caption"}
               PROVE  /\ mdAssets'[i].parent \in 1..(i - 1)
                      /\ mdAssets'[mdAssets'[i].parent].kind = IF mdAssets'[i].kind = "frame" THEN "video" ELSE "audio"
  BY DEF ParentsFit
<1>4. CASE i \in DOMAIN mdAssets
  <2>1. /\ mdAssets[i].parent \in 1..(i - 1)
        /\ mdAssets[mdAssets[i].parent].kind = IF mdAssets[i].kind = "frame" THEN "video" ELSE "audio"
    BY <1>1, <1>2, <1>3, <1>4 DEF ParentsFit
  <2>2. mdAssets[i].parent \in DOMAIN mdAssets
    BY <1>2, <1>4, <2>1
  <2> QED BY <1>2, <1>4, <2>1, <2>2
<1>5. CASE i = Len(mdAssets) + 1
  <2>1. x.parent \in 1..Len(mdAssets) /\ mdAssets'[i] = x /\ mdAssets'[x.parent] = mdAssets[x.parent]
    BY <1>2, <1>3, <1>5
  <2>2. Len(mdAssets) = i - 1
    BY <1>2, <1>5
  <2>3. mdAssets[x.parent].kind = IF x.kind = "frame" THEN "video" ELSE "audio"
    BY <1>3, <2>1
  <2> QED BY <2>1, <2>2, <2>3
<1> QED BY <1>2, <1>4, <1>5

LEMMA CallStays ==
  ASSUME MdInv, NEW x \in MdRows, mdAssets' = Append(mdAssets, x), UNCHANGED <<mdDir, mdGen, mdUsed>>,
         NEW c \in MdCalls, NEW p, MdCallFits(c, p),
         c.pc # "idle" /\ x.kind \in {"frame", "caption"} => x.parent # c.parent
  PROVE  MdCallFits(c, p)'
<1>1. MdTyped
  BY DEF MdInv
<1>2. CASE c.pc = "idle"
  BY <1>2 DEF MdCallFits
<1>3. CASE c.pc # "idle"
  <2>1. /\ DOMAIN mdAssets' = DOMAIN mdAssets \cup {Len(mdAssets) + 1}
        /\ \A i \in DOMAIN mdAssets : mdAssets'[i] = mdAssets[i]
    BY <1>1, InsertFacts
  <2>2. c.parent \in DOMAIN mdAssets
    BY <1>3 DEF MdCallFits
  <2>3. c.parent \in DOMAIN mdAssets' /\ mdAssets'[c.parent] = mdAssets[c.parent]
    BY <2>1, <2>2, Zenon
  <2>4. PICK q : q = c.parent
    OBVIOUS
  <2>5. /\ FrameIds(q)' = FrameIds(q) /\ CaptionIds(q)' = CaptionIds(q)
        /\ \A n : Numbered(q, n) => Numbered(q, n)'
        /\ \A v : AllIn(q, v) => AllIn(q, v)'
    BY <1>1, <1>3, <2>4, ChildrenStay
  <2> QED BY <2>3, <2>4, <2>5, Zenon DEF MdCallFits
<1> QED BY <1>2, <1>3

LEMMA DoneStays ==
  ASSUME MdInv, NEW x \in MdRows, mdAssets' = Append(mdAssets, x), UNCHANGED <<mdDir, mdUsed>>,
         NEW d \in mdDone, x.kind \in {"frame", "caption"} => x.parent # d.id
  PROVE  DoneFits(d)'
<1>1. MdTyped /\ DoneFits(d)
  BY DEF MdInv
<1>2. /\ DOMAIN mdAssets' = DOMAIN mdAssets \cup {Len(mdAssets) + 1}
  BY <1>1, InsertFacts
<1>4. PICK q : q = d.id
  OBVIOUS
<1>5. /\ FrameIds(q)' = FrameIds(q) /\ CaptionIds(q)' = CaptionIds(q)
      /\ \A n : Numbered(q, n) => Numbered(q, n)'
      /\ \A v : AllIn(q, v) => AllIn(q, v)'
  BY <1>1, <1>4, ChildrenStay
<1>6. d.id \in DOMAIN mdAssets'
  BY <1>1, <1>2 DEF DoneFits
<1> QED BY <1>1, <1>4, <1>5, <1>6, Zenon DEF DoneFits

LEMMA MdCallKinds ==
  ASSUME NEW c \in MdCalls
  PROVE  /\ c.pc \in {"idle", "caption", "extract", "list", "index"}
         /\ c.pc # "idle" => c.parent \in Nat
         /\ c.pc \in {"extract", "list", "index"} => c.video \in MdVideos
         /\ c.pc = "index" => c.files \in Nat /\ c.at \in Nat
         /\ c.pc = "idle" <=> c = MdIdle
         /\ c.pc = "extract" => [c EXCEPT !.pc = "list"] \in MdCalls
         /\ c.pc = "extract" => LET e == [c EXCEPT !.pc = "list"] IN e.pc = "list" /\ e.video = c.video /\ e.parent = c.parent
BY DEF MdCalls, MdIdle

\* A worker's call goes on while the others stay apart from it.
LEMMA ApartKeeps ==
  ASSUME MdInv, NEW w \in MdWorkers, NEW c \in MdCalls, mdCall' = [mdCall EXCEPT ![w] = c],
         NEW l, l \notin DOMAIN mdAssets,
         c.pc # "idle" => c.parent = l \/ (mdCall[w].pc # "idle" /\ c.parent = mdCall[w].parent),
         NEW D, mdDone' = mdDone \cup D, D = {} \/ c.pc = "idle",
         \A d \in D : d.id = l \/ (mdCall[w].pc # "idle" /\ d.id = mdCall[w].parent)
  PROVE  CallsApart'
<1>1. /\ \A u \in MdWorkers : u # w => mdCall'[u] = mdCall[u]
      /\ mdCall'[w] = c
  BY DEF MdInv, MdTyped
<1>2. /\ \A u \in MdWorkers : mdCall[u].pc # "idle" => mdCall[u].parent # l
      /\ \A d \in mdDone : d.id # l
  BY DEF MdInv, MdCallFits, DoneFits
<1>3. /\ \A u, v \in MdWorkers : u # v /\ mdCall[u].pc # "idle" /\ mdCall[v].pc # "idle" =>
            mdCall[u].parent # mdCall[v].parent
      /\ \A d \in mdDone, v \in MdWorkers : mdCall[v].pc # "idle" => mdCall[v].parent # d.id
  BY DEF MdInv, CallsApart
<1>4. \A u \in MdWorkers : u # w /\ mdCall[u].pc # "idle" /\ c.pc # "idle" => mdCall[u].parent # c.parent
  BY <1>2, <1>3
<1>5. \A u, v \in MdWorkers : u # v /\ mdCall'[u].pc # "idle" /\ mdCall'[v].pc # "idle" =>
            mdCall'[u].parent # mdCall'[v].parent
  BY <1>1, <1>3, <1>4
<1>6. \A d \in mdDone, v \in MdWorkers : mdCall'[v].pc # "idle" => mdCall'[v].parent # d.id
  BY <1>1, <1>2, <1>3
<1>7. \A d \in D, v \in MdWorkers : mdCall'[v].pc # "idle" => mdCall'[v].parent # d.id
  BY <1>1, <1>2, <1>3
<1> QED BY <1>5, <1>6, <1>7 DEF CallsApart

\* One row is committed by worker w.
LEMMA RowKeeps ==
  ASSUME MdInv, NEW w \in MdWorkers, NEW x \in MdRows, mdAssets' = Append(mdAssets, x), UNCHANGED <<mdDir, mdGen, mdUsed>>,
         NEW c \in MdCalls, mdCall' = [mdCall EXCEPT ![w] = c],
         x.kind \in {"frame", "caption"} =>
            /\ mdCall[w].pc # "idle" /\ x.parent = mdCall[w].parent
            /\ mdAssets[x.parent].kind = IF x.kind = "frame" THEN "video" ELSE "audio",
         c.pc # "idle" => c.parent = Len(mdAssets) + 1 \/ (mdCall[w].pc # "idle" /\ c.parent = mdCall[w].parent),
         NEW p, p = tempdir(w), MdCallFits(c, p)',
         NEW D, mdDone' = mdDone \cup D, D = {} \/ c.pc = "idle",
         \A d \in D : DoneFits(d)' /\ (d.id = Len(mdAssets) + 1 \/ (mdCall[w].pc # "idle" /\ d.id = mdCall[w].parent))
  PROVE  MdInv'
<1>1. MdTyped /\ CallsApart
  BY DEF MdInv
<1>2. PICK l : l = Len(mdAssets) + 1
  OBVIOUS
<1>3. mdAssets' \in Seq(MdRows) /\ l \notin DOMAIN mdAssets
  BY <1>1, <1>2, InsertFacts
<1>4. CallsApart'
  <2>1. /\ c.pc # "idle" => c.parent = l \/ (mdCall[w].pc # "idle" /\ c.parent = mdCall[w].parent)
        /\ \A d \in D : d.id = l \/ (mdCall[w].pc # "idle" /\ d.id = mdCall[w].parent)
    BY <1>2
  <2>2. D = {} \/ c.pc = "idle"
    OBVIOUS
  <2> QED BY ONLY MdInv, w \in MdWorkers, c \in MdCalls, mdCall' = [mdCall EXCEPT ![w] = c], mdDone' = mdDone \cup D,
                  <1>3, <2>1, <2>2, ApartKeeps
<1>5. MdTyped'
  BY <1>1, <1>3 DEF MdTyped
<1>6. x.kind \in {"frame", "caption"} => x.parent \in DOMAIN mdAssets
  BY DEF MdInv, MdCallFits
<1>7. ParentsFit'
  BY <1>6, ParentsStay
<1>8. ASSUME NEW u \in MdWorkers PROVE MdCallFits(mdCall[u], tempdir(u))'
  <2>0. tempdir(u)' = tempdir(u)
    BY <1>1, TempdirStays
  <2>1. CASE u = w
    <3>1. mdCall'[u] = c
      BY <1>1, <2>1 DEF MdTyped
    <3>2. p = tempdir(u)'
      BY <2>0, <2>1
    <3> QED BY ONLY <3>1, <3>2, MdCallFits(c, p)' DEF MdCallFits, Numbered, AllIn, FrameIds, CaptionIds
  <2>2. CASE u # w
    <3>1. PICK e \in MdCalls : e = mdCall[u] /\ mdCall'[u] = e
      BY <1>1, <2>2 DEF MdTyped
    <3>2. PICK pu : pu = tempdir(u) /\ pu = tempdir(u)'
      BY <2>0
    <3>3. MdCallFits(e, pu)
      BY <3>1, <3>2 DEF MdInv
    <3>4. e.pc # "idle" /\ x.kind \in {"frame", "caption"} => x.parent # e.parent
      BY <1>1, <2>2, <3>1 DEF CallsApart
    <3>5. MdCallFits(e, pu)'
      BY <3>3, <3>4, CallStays
    <3> QED BY ONLY <3>1, <3>2, <3>5 DEF MdCallFits, Numbered, AllIn, FrameIds, CaptionIds
  <2> QED BY <2>1, <2>2
<1>9. ASSUME NEW d \in mdDone' PROVE DoneFits(d)'
  <2>1. CASE d \in D
    BY <2>1
  <2>2. CASE d \in mdDone
    <3>1. x.kind \in {"frame", "caption"} => x.parent # d.id
      BY <1>1, <2>2 DEF CallsApart
    <3> QED BY <2>2, <3>1, DoneStays
  <2> QED BY <2>1, <2>2
<1>10. \A r \in MdDirs : DirFits(r)'
  BY DEF MdInv, DirFits
<1> QED BY <1>4, <1>5, <1>7, <1>8, <1>9, <1>10 DEF MdInv

\* A row without children or parent.
LEMMA RowTyped ==
  ASSUME MdTyped, NEW k \in {"image", "audio", "video", "frame", "caption"}, NEW q \in Nat, NEW t \in Nat,
         NEW v \in {<<>>} \cup (MdDirs \X Nat), NEW x, x = [kind |-> k, parent |-> q, ts |-> t, path |-> v]
  PROVE  x \in MdRows /\ x.kind = k /\ x.parent = q /\ x.ts = t /\ x.path = v
BY DEF MdRows

\* Nothing is stored under a row that is new.
LEMMA NoChildrenYet ==
  ASSUME MdInv, NEW x \in MdRows, mdAssets' = Append(mdAssets, x), x.kind \notin {"frame", "caption"},
         NEW l, l = Len(mdAssets) + 1
  PROVE  FrameIds(l)' = {} /\ CaptionIds(l)' = {} /\ l \in DOMAIN mdAssets' /\ mdAssets'[l] = x /\ l \in Nat
<1>1. MdTyped /\ ParentsFit
  BY DEF MdInv
<1>2. /\ Len(mdAssets) \in Nat /\ DOMAIN mdAssets = 1..Len(mdAssets)
      /\ DOMAIN mdAssets' = DOMAIN mdAssets \cup {l}
      /\ \A i \in DOMAIN mdAssets : mdAssets'[i] = mdAssets[i]
      /\ mdAssets'[l] = x
  BY <1>1, InsertFacts
<1>3. \A i \in DOMAIN mdAssets : mdAssets[i].kind \in {"frame", "caption"} => mdAssets[i].parent # l
  BY <1>1, <1>2 DEF ParentsFit
<1>4. \A i \in DOMAIN mdAssets' : mdAssets'[i].kind \in {"frame", "caption"} => mdAssets'[i].parent # l
  BY <1>2, <1>3
<1> QED BY <1>2, <1>4 DEF FrameIds, CaptionIds

LEMMA IdleFits ==
  ASSUME NEW p
  PROVE  MdCallFits(MdIdle, p) /\ MdCallFits(MdIdle, p)' /\ MdIdle \in MdCalls /\ MdIdle.pc = "idle"
BY DEF MdCallFits, MdIdle, MdCalls

LEMMA add_imageKeeps ==
  ASSUME MdInv, NEW w \in MdWorkers, add_image(w)
  PROVE  MdInv'
<1>1. MdTyped
  BY DEF MdInv
<1>2. PICK x : x = [kind |-> "image", parent |-> MdNobody, ts |-> 0, path |-> <<>>]
  OBVIOUS
<1>3. x \in MdRows /\ x.kind = "image"
  BY <1>1, <1>2, RowTyped DEF MdNobody
<1>4. PICK l, p, a, d : /\ l = Len(mdAssets) + 1 /\ p = tempdir(w)
                        /\ d = [kind |-> "image", of |-> "image", id |-> l, dir |-> a]
                        /\ mdDone' = mdDone \cup {d}
  BY DEF add_image, MdReturns, MdNewId
<1>5. mdAssets' = Append(mdAssets, x) /\ mdCall' = [mdCall EXCEPT ![w] = MdIdle] /\ UNCHANGED <<mdDir, mdGen, mdUsed>>
  BY <1>2 DEF add_image, MdInsert, MdReturns, MdGoes, mdFiles
<1>6. l \in DOMAIN mdAssets'
  BY <1>3, <1>4, <1>5, NoChildrenYet
<1>7. d.id = l /\ d.kind = "image"
  BY <1>4
<1>8. DoneFits(d)'
  BY <1>6, <1>7 DEF DoneFits
<1>9. PICK D : D = {d}
  OBVIOUS
<1>10. PICK c \in MdCalls : c = MdIdle /\ c.pc = "idle" /\ MdCallFits(c, p)'
  BY IdleFits
<1>11. x.kind \notin {"frame", "caption"}
  BY <1>3
<1>12. mdDone' = mdDone \cup D /\ \A y \in D : DoneFits(y)' /\ y.id = Len(mdAssets) + 1
  BY <1>4, <1>7, <1>8, <1>9
<1> QED BY <1>3, <1>4, <1>5, <1>10, <1>11, <1>12, RowKeeps

LEMMA add_audioKeeps ==
  ASSUME MdInv, NEW w \in MdWorkers, add_audio(w)
  PROVE  MdInv'
<1>1. MdTyped
  BY DEF MdInv
<1>2. PICK x, l, p : /\ x = [kind |-> "audio", parent |-> MdNobody, ts |-> 0, path |-> <<>>]
                     /\ l = Len(mdAssets) + 1 /\ p = tempdir(w)
  OBVIOUS
<1>3. x \in MdRows /\ x.kind = "audio"
  BY <1>1, <1>2, RowTyped DEF MdNobody
<1>4. mdAssets' = Append(mdAssets, x) /\ UNCHANGED <<mdDir, mdGen, mdUsed>>
  BY <1>2 DEF add_audio, MdInsert, mdFiles
<1>5. FrameIds(l)' = {} /\ CaptionIds(l)' = {} /\ l \in DOMAIN mdAssets' /\ mdAssets'[l] = x /\ l \in Nat
  BY <1>2, <1>3, <1>4, NoChildrenYet
<1>6. CASE MdReturns(w, "audio", "audio", MdNewId)
  <2>1. PICK a, d : /\ d = [kind |-> "audio", of |-> "audio", id |-> l, dir |-> a]
                    /\ mdDone' = mdDone \cup {d}
    BY <1>2, <1>6 DEF MdReturns, MdNewId
  <2>2. mdCall' = [mdCall EXCEPT ![w] = MdIdle]
    BY <1>6 DEF MdReturns, MdGoes
  <2>3. d.id = l /\ d.kind = "audio"
    BY <2>1
  <2>4. DoneFits(d)'
    BY <1>5, <2>3 DEF DoneFits
  <2>5. PICK D : D = {d}
    OBVIOUS
  <2>6. PICK c \in MdCalls : c = MdIdle /\ c.pc = "idle" /\ MdCallFits(c, p)'
    BY IdleFits
  <2>7. x.kind \notin {"frame", "caption"}
    BY <1>3
  <2>8. mdDone' = mdDone \cup D /\ \A y \in D : DoneFits(y)' /\ y.id = Len(mdAssets) + 1
    BY <1>2, <2>1, <2>3, <2>4, <2>5
  <2> QED BY <1>2, <1>3, <1>4, <2>2, <2>6, <2>7, <2>8, RowKeeps
<1>7. CASE MdGoes(w, [pc |-> "caption", parent |-> MdNewId]) /\ UNCHANGED mdDone
  <2>1. PICK c : c = [pc |-> "caption", parent |-> l]
    OBVIOUS
  <2>2. c \in MdCalls /\ c.pc = "caption" /\ c.parent = l
    BY <1>5, <2>1 DEF MdCalls
  <2>3. mdCall' = [mdCall EXCEPT ![w] = c] /\ mdDone' = mdDone \cup {}
    BY <1>2, <1>7, <2>1 DEF MdGoes, MdNewId
  <2>4. MdCallFits(c, p)'
    BY <1>3, <1>5, <2>2 DEF MdCallFits
  <2>5. PICK D : D = {}
    OBVIOUS
  <2>6. x.kind \notin {"frame", "caption"} /\ c.parent = Len(mdAssets) + 1
    BY <1>2, <1>3, <2>2
  <2>7. mdDone' = mdDone \cup D /\ \A y : y \notin D
    BY <2>3, <2>5
  <2> QED BY <1>2, <1>3, <1>4, <2>2, <2>3, <2>4, <2>5, <2>6, <2>7, RowKeeps
<1> QED BY <1>6, <1>7 DEF add_audio

LEMMA MdCaptionKeeps ==
  ASSUME MdInv, NEW w \in MdWorkers, MdCaption(w)
  PROVE  MdInv'
<1>1. MdTyped
  BY DEF MdInv
<1>2. PICK e \in MdCalls : e = mdCall[w] /\ e.pc = "caption" /\ e.parent \in Nat
  BY <1>1, MdCallKinds DEF MdTyped, MdCaption
<1>3. PICK x, q, l, p : /\ x = [kind |-> "caption", parent |-> q, ts |-> 0, path |-> <<>>]
                        /\ q = e.parent /\ l = Len(mdAssets) + 1 /\ p = tempdir(w)
  OBVIOUS
<1>4. x \in MdRows /\ x.kind = "caption" /\ x.parent = q
  <2>1. q \in Nat
    BY <1>2, <1>3
  <2> QED BY <1>3, <2>1 DEF MdRows
<1>5. /\ mdAssets' = Append(mdAssets, x) /\ UNCHANGED <<mdDir, mdGen, mdUsed>>
      /\ mdCall' = [mdCall EXCEPT ![w] = MdIdle]
  BY <1>2, <1>3 DEF MdCaption, MdInsert, mdFiles, MdReturns, MdGoes
<1>6. PICK a, d : /\ d = [kind |-> "spoken", of |-> "audio", id |-> q, dir |-> a]
                  /\ mdDone' = mdDone \cup {d}
  BY <1>2, <1>3 DEF MdCaption, MdReturns
<1>7. d.id = q /\ d.kind = "spoken"
  BY <1>6
<1>8. MdCallFits(e, p)
  BY <1>2, <1>3 DEF MdInv
<1>9. q \in DOMAIN mdAssets /\ mdAssets[q].kind = "audio" /\ CaptionIds(q) = {}
  BY <1>2, <1>3, <1>8 DEF MdCallFits
<1>10. /\ DOMAIN mdAssets' = DOMAIN mdAssets \cup {l}
       /\ \A i \in DOMAIN mdAssets : mdAssets'[i] = mdAssets[i]
       /\ mdAssets'[l] = x
  BY <1>1, <1>3, <1>4, <1>5, InsertFacts
<1>11. CaptionIds(q)' = {l}
  BY <1>4, <1>9, <1>10 DEF CaptionIds
<1>12. DoneFits(d)'
  BY <1>7, <1>9, <1>10, <1>11 DEF DoneFits
<1>13. PICK D : D = {d}
  OBVIOUS
<1>14. PICK c \in MdCalls : c = MdIdle /\ c.pc = "idle" /\ MdCallFits(c, p)'
  BY IdleFits
<1>15. x.kind \in {"frame", "caption"} =>
            /\ mdCall[w].pc # "idle" /\ x.parent = mdCall[w].parent
            /\ mdAssets[x.parent].kind = IF x.kind = "frame" THEN "video" ELSE "audio"
  BY <1>2, <1>3, <1>4, <1>9
<1>16. mdDone' = mdDone \cup D /\ \A y \in D : DoneFits(y)' /\ (y.id = l \/ (mdCall[w].pc # "idle" /\ y.id = mdCall[w].parent))
  BY <1>2, <1>3, <1>6, <1>7, <1>12, <1>13
<1> QED BY <1>3, <1>4, <1>5, <1>14, <1>15, <1>16, RowKeeps

LEMMA add_videoKeeps ==
  ASSUME MdInv, NEW w \in MdWorkers, add_video(w)
  PROVE  MdInv'
<1>1. MdTyped
  BY DEF MdInv
<1>2. PICK v \in MdVideos :
         /\ MdInsert("video", MdNobody, 0, <<>>)
         /\ MdGoes(w, [pc |-> "extract", video |-> v, parent |-> MdNewId])
         /\ UNCHANGED <<mdFiles, mdDone>>
  BY DEF add_video, MdVideos
<1>3. PICK x, l, p : /\ x = [kind |-> "video", parent |-> MdNobody, ts |-> 0, path |-> <<>>]
                     /\ l = Len(mdAssets) + 1 /\ p = tempdir(w)
  OBVIOUS
<1>4. x \in MdRows /\ x.kind = "video"
  BY <1>1, <1>3, RowTyped DEF MdNobody
<1>5. mdAssets' = Append(mdAssets, x) /\ UNCHANGED <<mdDir, mdGen, mdUsed>>
  BY <1>2, <1>3 DEF MdInsert, mdFiles
<1>6. FrameIds(l)' = {} /\ CaptionIds(l)' = {} /\ l \in DOMAIN mdAssets' /\ mdAssets'[l] = x /\ l \in Nat
  BY <1>3, <1>4, <1>5, NoChildrenYet
<1>7. PICK c, D : c = [pc |-> "extract", video |-> v, parent |-> l] /\ D = {}
  OBVIOUS
<1>8. c \in MdCalls /\ c.pc = "extract" /\ c.parent = l
  BY <1>6, <1>7 DEF MdCalls
<1>9. mdCall' = [mdCall EXCEPT ![w] = c] /\ mdDone' = mdDone \cup D
  BY <1>2, <1>3, <1>7 DEF MdGoes, MdNewId
<1>10. MdCallFits(c, p)'
  BY <1>4, <1>6, <1>8 DEF MdCallFits
<1>11. x.kind \notin {"frame", "caption"} /\ c.parent = Len(mdAssets) + 1 /\ \A y : y \notin D
  BY <1>3, <1>4, <1>7, <1>8
<1> QED BY <1>3, <1>4, <1>5, <1>7, <1>8, <1>9, <1>10, <1>11, RowKeeps

\* What is stored stays while no row is added.
LEMMA StoredStays ==
  ASSUME UNCHANGED mdAssets
  PROVE  /\ \A q : FrameIds(q)' = FrameIds(q) /\ CaptionIds(q)' = CaptionIds(q)
         /\ \A q, n : Numbered(q, n)' <=> Numbered(q, n)
         /\ \A q, v : AllIn(q, v)' <=> AllIn(q, v)
         /\ UNCHANGED <<mdDir, mdUsed>> => \A d : DoneFits(d)' <=> DoneFits(d)
         /\ ParentsFit' <=> ParentsFit
<1>1. \A q : FrameIds(q)' = FrameIds(q) /\ CaptionIds(q)' = CaptionIds(q)
  BY DEF FrameIds, CaptionIds
<1>2. \A q, n : Numbered(q, n)' <=> Numbered(q, n)
  BY <1>1 DEF Numbered
<1>3. \A q, v : AllIn(q, v)' <=> AllIn(q, v)
  BY <1>1 DEF AllIn
<1>4. ParentsFit' <=> ParentsFit
  BY DEF ParentsFit
<1>5. UNCHANGED <<mdDir, mdUsed>> => \A d : DoneFits(d)' <=> DoneFits(d)
  BY <1>1, <1>2, <1>3, Zenon DEF DoneFits
<1> QED BY <1>1, <1>2, <1>3, <1>4, <1>5

\* ffmpeg's n frames over those of a directory.
LEMMA OverwrittenFacts ==
  ASSUME NEW s \in Seq(MdVideos), NEW v \in MdVideos, NEW n \in Nat
  PROVE  /\ Overwritten(s, v, n) \in Seq(MdVideos)
         /\ Len(Overwritten(s, v, n)) = IF n > Len(s) THEN n ELSE Len(s)
         /\ \A i \in DOMAIN Overwritten(s, v, n) : Overwritten(s, v, n)[i] = v \/ (i \in DOMAIN s /\ Overwritten(s, v, n)[i] = s[i])
<1>1. PICK m \in Nat : m = IF n > Len(s) THEN n ELSE Len(s)
  OBVIOUS
<1>2. PICK o : o = [i \in 1..m |-> IF i <= n THEN v ELSE s[i]]
  OBVIOUS
<1>3. Overwritten(s, v, n) = o
  BY <1>1, <1>2 DEF Overwritten
<1>4. \A i \in 1..m : o[i] = v \/ (i \in DOMAIN s /\ o[i] = s[i])
  BY <1>1, <1>2
<1>5. \A i \in 1..m : o[i] \in MdVideos
  BY <1>4
<1>6. o \in [1..m -> MdVideos] /\ DOMAIN o = 1..m
  BY <1>2, <1>5
<1>7. o \in Seq(MdVideos) /\ Len(o) = m
  BY <1>6
<1> QED BY <1>1, <1>3, <1>4, <1>6, <1>7

LEMMA MdExtractKeeps ==
  ASSUME MdInv, NEW w \in MdWorkers, MdExtract(w)
  PROVE  MdInv'
<1>1. MdTyped /\ CallsApart
  BY DEF MdInv
<1>2. PICK e \in MdCalls, p \in MdDirs : e = mdCall[w] /\ e.pc = "extract" /\ p = tempdir(w)
  BY <1>1, TempdirStays DEF MdTyped, MdExtract
<1>3. PICK v \in MdVideos : v = e.video /\ MdLength[v] \in Nat
  BY <1>2, MdCallKinds, MediaAssumption DEF MdVideos
<1>4. PICK n, c : /\ n \in 0..MdLength[v]
                  /\ mdDir' = [mdDir EXCEPT ![p] = Overwritten(@, v, n)]
                  /\ mdCall' = [mdCall EXCEPT ![w] = c]
                  /\ (n = MdLength[v] /\ c = [e EXCEPT !.pc = "list"]) \/ c = MdIdle
  <2>1. \A n \in 0..(MdLength[v] - 1) : n \in 0..MdLength[v]
    BY <1>3
  <2>2. MdLength[v] \in 0..MdLength[v]
    BY <1>3
  <2> QED BY <1>2, <1>3, <2>1, <2>2, Zenon DEF MdExtract, MdGoes
<1>5. mdUsed' = [mdUsed EXCEPT ![p] = @ \cup {v}] /\ UNCHANGED <<mdAssets, mdGen, mdDone>>
  BY <1>2, <1>3 DEF MdExtract
<1>6. PICK s, o : s = mdDir[p] /\ o = Overwritten(s, v, n) /\ s \in Seq(MdVideos)
  BY <1>1 DEF MdTyped
<1>7. /\ o \in Seq(MdVideos) /\ Len(s) \in Nat /\ n \in Nat
      /\ Len(o) = IF n > Len(s) THEN n ELSE Len(s)
      /\ \A i \in DOMAIN o : o[i] = v \/ (i \in DOMAIN s /\ o[i] = s[i])
  BY <1>4, <1>6, OverwrittenFacts
<1>8. mdDir' = [mdDir EXCEPT ![p] = o]
  BY <1>4, <1>6
<1>9. /\ c \in MdCalls /\ (c.pc = "idle" \/ c.pc = "list")
      /\ c.pc = "list" => n = MdLength[v] /\ c.video = v /\ c.parent = e.parent
  <2>1. CASE c = MdIdle
    BY <2>1 DEF MdIdle, MdCalls
  <2>2. CASE n = MdLength[v] /\ c = [e EXCEPT !.pc = "list"]
    BY <1>2, <1>3, <2>2, MdCallKinds
  <2> QED BY <1>4, <2>1, <2>2
<1>10. MdTyped'
  BY <1>1, <1>4, <1>5, <1>7, <1>8, <1>9 DEF MdTyped
<1>11. /\ \A r \in MdDirs : mdUsed[r] \subseteq mdUsed'[r] /\ Len(mdDir[r]) \in Nat /\ Len(mdDir[r]) <= Len(mdDir'[r])
                             /\ Len(mdDir'[r]) \in Nat
       /\ v \in mdUsed'[p]
  BY <1>1, <1>5, <1>6, <1>7, <1>8 DEF MdTyped
<1>12. ASSUME NEW r \in MdDirs PROVE DirFits(r)'
  <2>1. DirFits(r)
    BY DEF MdInv
  <2>2. CASE r # p
    <3>1. mdDir'[r] = mdDir[r] /\ mdUsed'[r] = mdUsed[r]
      BY <1>1, <1>5, <1>8, <2>2 DEF MdTyped
    <3> QED BY <2>1, <3>1 DEF DirFits
  <2>3. CASE r = p
    <3>1. mdDir'[r] = o /\ mdUsed'[r] = mdUsed[p] \cup {v} /\ mdDir[r] = s
      BY <1>1, <1>5, <1>6, <1>8, <2>3 DEF MdTyped
    <3>2. \A i \in DOMAIN o : o[i] \in mdUsed[p] \cup {v}
      BY <1>6, <1>7, <2>1, <2>3 DEF DirFits
    <3>3. ASSUME NEW y \in MdVideos, mdUsed[p] \cup {v} \subseteq {y} PROVE Len(o) <= MdLength[y]
      <4>1. y = v /\ mdUsed[p] \subseteq {y}
        BY <3>3
      <4>2. Len(s) <= MdLength[v]
        BY <1>6, <2>1, <2>3, <4>1 DEF DirFits
      <4> QED BY <1>3, <1>4, <1>7, <4>1, <4>2
    <3> QED BY <3>1, <3>2, <3>3 DEF DirFits
  <2> QED BY <2>2, <2>3
<1>13. ASSUME NEW u \in MdWorkers PROVE MdCallFits(mdCall[u], tempdir(u))'
  <2>1. PICK r \in MdDirs, f \in MdCalls : r = tempdir(u) /\ r = tempdir(u)' /\ f = mdCall'[u]
    BY <1>1, <1>5, <1>10, TempdirStays DEF MdTyped
  <2>2. CASE u = w /\ c.pc = "list"
    <3>1. f = c /\ r = p /\ f.video = v /\ f.pc = "list" /\ f.parent = e.parent
      BY <1>1, <1>2, <1>4, <1>9, <2>1, <2>2 DEF MdTyped
    <3>2. MdCallFits(e, p)
      BY <1>2 DEF MdInv
    <3>3. e.parent \in DOMAIN mdAssets /\ mdAssets[e.parent].kind = "video" /\ FrameIds(e.parent) = {}
      BY <1>2, <3>2 DEF MdCallFits
    <3>4. MdLength[v] <= Len(mdDir'[p])
      BY <1>1, <1>3, <1>7, <1>8, <1>9, <2>2 DEF MdTyped
    <3>5. PICK q : q = e.parent
      OBVIOUS
    <3>6. FrameIds(q)' = {}
      BY <1>5, <3>3, <3>5, StoredStays
    <3>7. MdCallFits(f, r)'
      BY <1>5, <1>11, <3>1, <3>3, <3>4, <3>5, <3>6 DEF MdCallFits
    <3> QED BY ONLY <2>1, <3>7 DEF MdCallFits, Numbered, AllIn, FrameIds, CaptionIds
  <2>3. CASE u = w /\ c.pc = "idle"
    <3>1. f.pc = "idle"
      BY <1>1, <1>4, <2>1, <2>3 DEF MdTyped
    <3> QED BY <2>1, <3>1 DEF MdCallFits
  <2>4. CASE u # w
    <3>1. f = mdCall[u]
      BY <1>1, <1>4, <2>1, <2>4 DEF MdTyped
    <3>2. MdCallFits(f, r)
      BY <2>1, <3>1 DEF MdInv
    <3>3. PICK q : q = f.parent
      OBVIOUS
    <3>4. /\ FrameIds(q)' = FrameIds(q) /\ CaptionIds(q)' = CaptionIds(q)
          /\ \A m : Numbered(q, m) => Numbered(q, m)'
          /\ \A y : AllIn(q, y) => AllIn(q, y)'
      BY <1>5, StoredStays
    <3>5. f.pc \in {"list", "index"} => f.video \in mdUsed'[r] /\ MdLength[f.video] <= Len(mdDir'[r])
      <4>1. f.pc \in {"list", "index"} => f.video \in mdUsed[r] /\ MdLength[f.video] <= Len(mdDir[r]) /\ MdLength[f.video] \in Nat
        BY <3>2, MdCallKinds, MediaAssumption DEF MdCallFits, MdVideos
      <4> QED BY <1>11, <4>1
    <3>6. f.pc = "index" => /\ f.at < f.files /\ f.files <= Len(mdDir'[r]) /\ MdLength[f.video] <= f.files
                            /\ Numbered(q, f.at)'
                            /\ AllIn(q, r)'
      <4>1. f.pc = "index" => /\ f.at < f.files /\ f.files <= Len(mdDir[r]) /\ MdLength[f.video] <= f.files
                              /\ f.files \in Nat
        BY <3>2, MdCallKinds DEF MdCallFits
      <4>2. f.pc = "index" => Numbered(q, f.at) /\ AllIn(q, r)
        BY <3>2, <3>3 DEF MdCallFits
      <4>3. f.pc = "index" => f.files <= Len(mdDir'[r])
        BY <1>11, <4>1
      <4> QED BY <3>4, <4>1, <4>2, <4>3, Zenon
    <3>7. MdCallFits(f, r)'
      BY <1>5, <3>2, <3>3, <3>4, <3>5, <3>6, Zenon DEF MdCallFits
    <3> QED BY ONLY <2>1, <3>7 DEF MdCallFits, Numbered, AllIn, FrameIds, CaptionIds
  <2> QED BY <1>9, <2>2, <2>3, <2>4
<1>14. CallsApart'
  <2>1. PICK D, l : D = {} /\ l = Len(mdAssets) + 1
    OBVIOUS
  <2>2. l \notin DOMAIN mdAssets
    BY <1>1, <2>1 DEF MdTyped
  <2>3. mdDone' = mdDone \cup D /\ (\A d : d \notin D)
    BY <1>5, <2>1
  <2>4. c.pc # "idle" => mdCall[w].pc # "idle" /\ c.parent = mdCall[w].parent
    BY <1>2, <1>9
  <2> QED BY <1>4, <1>9, <2>1, <2>2, <2>3, <2>4, ApartKeeps
<1>15. ParentsFit'
  BY <1>5, StoredStays DEF MdInv
<1>16. ASSUME NEW d \in mdDone' PROVE DoneFits(d)'
  <2>1. DoneFits(d) /\ UNCHANGED mdAssets
    BY <1>5 DEF MdInv
  <2>2. PICK q, r, y : q = d.id /\ r = d.dir /\ y = d.of
    OBVIOUS
  <2>3. CASE d.kind = "video"
    <3>1. PICK m \in Nat \ {0} : /\ Numbered(q, m) /\ AllIn(q, r) /\ r \in MdDirs /\ y \in mdUsed[r]
                                 /\ MdLength[y] <= m /\ m <= Len(mdDir[r])
      BY <2>1, <2>2, <2>3 DEF DoneFits
    <3>2. y \in mdUsed'[r] /\ m <= Len(mdDir'[r])
      BY <1>11, <3>1
    <3>3. Numbered(q, m)' /\ AllIn(q, r)'
      BY <1>5, <3>1, StoredStays
    <3>4. q \in DOMAIN mdAssets'
      BY <2>1, <2>2 DEF DoneFits
    <3> QED BY ONLY <2>2, <2>3, <3>1, <3>2, <3>3, <3>4, Zenon DEF DoneFits
  <2>4. CASE d.kind # "video"
    <3>1. CaptionIds(q)' = CaptionIds(q)
      BY <1>5, StoredStays
    <3> QED BY <2>1, <2>2, <2>4, <3>1, Zenon DEF DoneFits
  <2> QED BY <2>3, <2>4
<1> QED BY <1>10, <1>12, <1>13, <1>14, <1>15, <1>16 DEF MdInv

LEMMA MdListKeeps ==
  ASSUME MdInv, NEW w \in MdWorkers, MdList(w)
  PROVE  MdInv'
<1>1. MdTyped /\ CallsApart
  BY DEF MdInv
<1>2. PICK e \in MdCalls, p \in MdDirs : e = mdCall[w] /\ e.pc = "list" /\ p = tempdir(w)
  BY <1>1, TempdirStays DEF MdTyped, MdList
<1>3. PICK v, q, m : v = e.video /\ q = e.parent /\ m = Len(mdDir[p])
  OBVIOUS
<1>4. v \in MdVideos /\ MdLength[v] \in Nat \ {0} /\ q \in Nat /\ m \in Nat
  <2>1. mdDir[p] \in Seq(MdVideos)
    BY <1>1 DEF MdTyped
  <2>2. v \in MdVideos /\ q \in Nat
    BY <1>2, <1>3, MdCallKinds
  <2> QED BY <1>3, <2>1, <2>2, MediaAssumption DEF MdVideos
<1>5. PICK c : c = [pc |-> "index", video |-> v, parent |-> q, files |-> m, at |-> 0]
  OBVIOUS
<1>6. c \in MdCalls /\ c.pc = "index" /\ c.video = v /\ c.parent = q /\ c.files = m /\ c.at = 0
  BY <1>4, <1>5 DEF MdCalls
<1>7. mdCall' = [mdCall EXCEPT ![w] = c] /\ UNCHANGED <<mdAssets, mdDone, mdDir, mdGen, mdUsed>>
  BY <1>2, <1>3, <1>5 DEF MdList, MdGoes, mdFiles
<1>8. MdCallFits(e, p)
  BY <1>2 DEF MdInv
<1>9. /\ q \in DOMAIN mdAssets /\ mdAssets[q].kind = "video" /\ FrameIds(q) = {}
      /\ v \in mdUsed[p] /\ MdLength[v] <= m
  BY <1>2, <1>3, <1>8 DEF MdCallFits
<1>10. Numbered(q, 0) /\ AllIn(q, p)
  BY <1>9 DEF Numbered, AllIn
<1>11. MdCallFits(c, p)
  BY <1>3, <1>4, <1>6, <1>9, <1>10 DEF MdCallFits
<1>12. ASSUME NEW u \in MdWorkers PROVE MdCallFits(mdCall[u], tempdir(u))'
  <2>1. PICK r, f : r = tempdir(u) /\ r = tempdir(u)' /\ f = mdCall'[u]
    BY <1>1, <1>7, TempdirStays
  <2>2. MdCallFits(f, r)
    BY <1>1, <1>2, <1>7, <1>11, <2>1 DEF MdTyped, MdInv
  <2> QED BY ONLY <1>7, <2>1, <2>2 DEF MdCallFits, Numbered, AllIn, FrameIds, CaptionIds
<1>13. CallsApart'
  <2>1. PICK D, l : D = {} /\ l = Len(mdAssets) + 1
    OBVIOUS
  <2>2. l \notin DOMAIN mdAssets
    BY <1>1, <2>1 DEF MdTyped
  <2>3. mdDone' = mdDone \cup D /\ (\A d : d \notin D)
    BY <1>7, <2>1
  <2>4. c.pc # "idle" => mdCall[w].pc # "idle" /\ c.parent = mdCall[w].parent
    BY <1>2, <1>3, <1>6
  <2> QED BY <1>6, <1>7, <2>1, <2>2, <2>3, <2>4, ApartKeeps
<1>14. ParentsFit' /\ \A d \in mdDone' : DoneFits(d)'
  BY <1>7, StoredStays DEF MdInv
<1>15. MdTyped' /\ \A r \in MdDirs : DirFits(r)'
  BY <1>6, <1>7 DEF MdInv, MdTyped, DirFits
<1> QED BY <1>12, <1>13, <1>14, <1>15 DEF MdInv

LEMMA MdIndexKeeps ==
  ASSUME MdInv, NEW w \in MdWorkers, MdIndex(w)
  PROVE  MdInv'
<1>1. MdTyped /\ CallsApart
  BY DEF MdInv
<1>2. PICK e \in MdCalls, p \in MdDirs : e = mdCall[w] /\ e.pc = "index" /\ p = tempdir(w)
  BY <1>1, TempdirStays DEF MdTyped, MdIndex
<1>3. PICK v, q, n, m, s : v = e.video /\ q = e.parent /\ n = e.at /\ m = e.files /\ s = mdDir[p]
  OBVIOUS
<1>4. /\ v \in MdVideos /\ MdLength[v] \in Nat \ {0} /\ q \in Nat /\ n \in Nat /\ m \in Nat
      /\ s \in Seq(MdVideos) /\ Len(s) \in Nat
  <2>1. s \in Seq(MdVideos)
    BY <1>1, <1>3 DEF MdTyped
  <2>2. v \in MdVideos /\ q \in Nat /\ n \in Nat /\ m \in Nat
    BY <1>2, <1>3, MdCallKinds
  <2> QED BY <2>1, <2>2, MediaAssumption DEF MdVideos
<1>5. MdCallFits(e, p) /\ DirFits(p)
  BY <1>2 DEF MdInv
<1>6. /\ q \in DOMAIN mdAssets /\ mdAssets[q].kind = "video"
      /\ v \in mdUsed[p] /\ MdLength[v] <= Len(s)
      /\ n < m /\ m <= Len(s) /\ MdLength[v] <= m
      /\ Numbered(q, n)
      /\ AllIn(q, p)
  BY <1>2, <1>3, <1>5 DEF MdCallFits
<1>7. PICK y \in MdDirs \X Nat : y = <<p, n + 1>>
  <2>1. n + 1 \in Nat
    BY <1>4
  <2> QED BY <1>2, <2>1, Zenon
<1>8. PICK x, l : x = [kind |-> "frame", parent |-> q, ts |-> n, path |-> y] /\ l = Len(mdAssets) + 1
  OBVIOUS
<1>9. x \in MdRows /\ x.kind = "frame" /\ x.parent = q /\ x.ts = n /\ x.path = y
  BY <1>4, <1>7, <1>8 DEF MdRows
<1>10. mdAssets' = Append(mdAssets, x) /\ UNCHANGED <<mdDir, mdGen, mdUsed>>
  BY <1>2, <1>3, <1>7, <1>8 DEF MdIndex, MdInsert, FrameOf, mdFiles
<1>11. Numbered(q, n + 1)' /\ AllIn(q, p)'
  BY <1>1, <1>4, <1>6, <1>7, <1>9, <1>10, FrameAdded
<1>12. x.kind \in {"frame", "caption"} =>
            /\ mdCall[w].pc # "idle" /\ x.parent = mdCall[w].parent
            /\ mdAssets[x.parent].kind = IF x.kind = "frame" THEN "video" ELSE "audio"
  BY <1>2, <1>3, <1>6, <1>9
<1>13. q \in DOMAIN mdAssets' /\ mdAssets'[q] = mdAssets[q]
  BY <1>1, <1>6, <1>9, <1>10, InsertFacts
<1>14. CASE n + 1 = m
  <2>1. PICK d :    /\ d = [kind |-> "video", of |-> v, id |-> q, dir |-> p]
                    /\ mdDone' = mdDone \cup {d}
                    /\ mdCall' = [mdCall EXCEPT ![w] = MdIdle]
    BY <1>2, <1>3, <1>14 DEF MdIndex, MdReturns, MdGoes
  <2>2. d.id = q /\ d.kind = "video" /\ d.of = v /\ d.dir = p
    BY <2>1
  <2>3. v \in mdUsed'[p] /\ MdLength[v] <= m /\ m <= Len(mdDir'[p])
    BY <1>3, <1>6, <1>10
  <2>4. m \in Nat \ {0} /\ Numbered(q, m)'
    BY <1>4, <1>11, <1>14
  <2>5. DoneFits(d)'
    BY ONLY <1>2, <1>6, <1>11, <1>13, <2>2, <2>3, <2>4, Zenon DEF DoneFits
  <2>6. PICK D : D = {d}
    OBVIOUS
  <2>7. mdDone' = mdDone \cup D /\ \A z \in D : DoneFits(z)' /\ (z.id = l \/ (mdCall[w].pc # "idle" /\ z.id = mdCall[w].parent))
    BY <1>2, <1>3, <2>1, <2>2, <2>5, <2>6
  <2>8. PICK c \in MdCalls : c = MdIdle /\ c.pc = "idle" /\ MdCallFits(c, p)'
    BY IdleFits
  <2> QED BY <1>2, <1>8, <1>9, <1>10, <1>12, <2>1, <2>7, <2>8, RowKeeps
<1>15. CASE n + 1 # m
  <2>1. PICK c : c = [e EXCEPT !.at = @ + 1]
    OBVIOUS
  <2>2. /\ c \in MdCalls /\ c.pc = "index" /\ c.video = v /\ c.parent = q /\ c.files = m /\ c.at = n + 1
    <3>1. e \in [pc : {"index"}, video : MdVideos, parent : Nat, files : Nat, at : Nat]
      BY <1>2 DEF MdCalls
    <3>2. c = [e EXCEPT !.at = n + 1]
      BY <1>3, <2>1
    <3>3. c \in [pc : {"index"}, video : MdVideos, parent : Nat, files : Nat, at : Nat]
      BY <1>4, <3>1, <3>2
    <3>4. c.pc = "index" /\ c.video = v /\ c.parent = q /\ c.files = m /\ c.at = n + 1
      BY <1>3, <3>1, <3>2
    <3> QED BY <3>3, <3>4 DEF MdCalls
  <2>3. mdCall' = [mdCall EXCEPT ![w] = c] /\ mdDone' = mdDone
    BY <1>2, <1>3, <1>15, <2>1 DEF MdIndex, MdGoes
  <2>4. n + 1 < m
    BY <1>4, <1>6, <1>15
  <2>5. MdCallFits(c, p)'
    BY <1>3, <1>6, <1>10, <1>11, <1>13, <2>2, <2>4 DEF MdCallFits
  <2>6. PICK D : D = {}
    OBVIOUS
  <2>7. mdDone' = mdDone \cup D /\ (\A z : z \notin D) /\ mdCall[w].pc # "idle" /\ c.parent = mdCall[w].parent
    BY <1>2, <1>3, <2>2, <2>3, <2>6
  <2> QED BY <1>2, <1>8, <1>9, <1>10, <1>12, <2>2, <2>3, <2>5, <2>6, <2>7, RowKeeps
<1> QED BY <1>14, <1>15

LEMMA MdCrashKeeps ==
  ASSUME MdInv, NEW p \in MdProcs, MdCrash(p)
  PROVE  MdInv'
<1>1. MdTyped /\ CallsApart /\ MdIdle \in MdCalls /\ MdIdle.pc = "idle"
  BY DEF MdInv, MdIdle, MdCalls
<1>2. /\ mdCall' = [w \in MdWorkers |-> IF MdProcOf[w] = p THEN MdIdle ELSE mdCall[w]]
      /\ mdGen' = [mdGen EXCEPT ![p] = @ + 1] /\ mdGen[p] < MdMaxKills
      /\ UNCHANGED <<mdAssets, mdDir, mdUsed, mdDone>>
  BY DEF MdCrash
<1>3. MdTyped'
  <2>1. mdGen[p] + 1 \in 0..MdMaxKills
    BY <1>1, <1>2, MediaAssumption DEF MdTyped
  <2>2. mdGen' \in [MdProcs -> 0..MdMaxKills]
    BY <1>1, <1>2, <2>1 DEF MdTyped
  <2> QED BY <1>1, <1>2, <2>2 DEF MdTyped
<1>4. CallsApart'
  BY <1>1, <1>2 DEF CallsApart
<1>5. ASSUME NEW r \in MdDirs PROVE DirFits(r)'
  BY <1>2 DEF MdInv, DirFits
<1>6. ASSUME NEW u \in MdWorkers PROVE MdCallFits(mdCall[u], tempdir(u))'
  <2>1. PICK r, f, q : r = tempdir(u)' /\ f = mdCall'[u] /\ q = MdProcOf[u] /\ q \in MdProcs
    BY MediaAssumption
  <2>2. CASE q = p
    <3>1. f.pc = "idle"
      BY <1>1, <1>2, <2>1, <2>2
    <3> QED BY <2>1, <3>1 DEF MdCallFits
  <2>3. CASE q # p
    <3>1. f = mdCall[u] /\ mdGen'[q] = mdGen[q]
      BY <1>1, <1>2, <2>1, <2>3 DEF MdTyped
    <3>2. r = tempdir(u)
      BY <2>1, <3>1 DEF tempdir
    <3>3. MdCallFits(f, r)
      BY <3>1, <3>2 DEF MdInv
    <3> QED BY ONLY <1>2, <2>1, <3>1, <3>3 DEF MdCallFits, Numbered, AllIn, FrameIds, CaptionIds
  <2> QED BY <2>2, <2>3
<1>7. ParentsFit' /\ \A d \in mdDone' : DoneFits(d)'
  BY <1>2, StoredStays DEF MdInv
<1> QED BY <1>3, <1>4, <1>5, <1>6, <1>7 DEF MdInv

\* frames_of lists the frames of a video in the order of their numbers.
LEMMA FramesInOrder ==
  ASSUME MdTyped, NEW q, NEW n \in Nat, Numbered(q, n)
  PROVE  /\ frames_of(q) \in [1..n -> FrameIds(q)]
         /\ \A k \in 1..n : mdAssets[frames_of(q)[k]].ts = k - 1
<1>1. PICK F, ts : F = FrameIds(q) /\ ts = [i \in F |-> mdAssets[i].ts]
  OBVIOUS
<1>2. /\ \A i \in F : ts[i] = mdAssets[i].ts /\ ts[i] \in 0..(n - 1)
      /\ \A i, j \in F : ts[i] = ts[j] => i = j
      /\ \A t \in 0..(n - 1) : \E i \in F : ts[i] = t
  BY <1>1 DEF Numbered
<1>3. PICK g : g = [k \in 1..n |-> CHOOSE i \in F : ts[i] = k - 1]
  OBVIOUS
<1>4. \A k \in 1..n : g[k] \in F /\ ts[g[k]] = k - 1
  <2> SUFFICES ASSUME NEW k \in 1..n PROVE g[k] \in F /\ ts[g[k]] = k - 1
    OBVIOUS
  <2>1. k - 1 \in 0..(n - 1)
    OBVIOUS
  <2>2. \E i \in F : ts[i] = k - 1
    BY <1>2, <2>1
  <2> QED BY <1>3, <2>2
<1>5. g \in [1..n -> F] /\ DOMAIN g = 1..n
  BY <1>3, <1>4
<1>6. \A i \in F : \E k \in 1..n : g[k] = i
  <2> SUFFICES ASSUME NEW i \in F PROVE \E k \in 1..n : g[k] = i
    OBVIOUS
  <2>1. ts[i] + 1 \in 1..n /\ (ts[i] + 1) - 1 = ts[i]
    BY <1>2
  <2>2. g[ts[i] + 1] \in F /\ ts[g[ts[i] + 1]] = ts[i]
    BY <1>4, <2>1
  <2> QED BY <1>2, <2>1, <2>2
<1>7. \A j, k \in 1..n : g[j] = g[k] => j = k
  <2> SUFFICES ASSUME NEW j \in 1..n, NEW k \in 1..n, g[j] = g[k] PROVE j = k
    OBVIOUS
  <2>1. j - 1 = k - 1
    BY <1>4
  <2> QED BY <2>1
<1>8. Cardinality(F) = n
  <2>1. ExistsBijection(1..n, F)
    BY <1>5, <1>6, <1>7, Zenon DEF ExistsBijection, Bijection, Injection, IsInjective, Surjection
  <2> QED BY <2>1, FS_CountingElements
<1>9. Range(g) = F
  BY <1>4, <1>5, <1>6 DEF Range
<1>10. \A j, k \in DOMAIN g : j < k => Earlier(g[j], g[k])
  <2> SUFFICES ASSUME NEW j \in 1..n, NEW k \in 1..n, j < k PROVE Earlier(g[j], g[k])
    BY <1>5
  <2>1. ts[g[j]] < ts[g[k]]
    BY <1>4
  <2> QED BY <1>2, <1>4, <2>1 DEF Earlier
<1>11. PICK f : f = frames_of(q)
  OBVIOUS
<1>12. /\ f \in [1..n -> F] /\ Range(f) = F
       /\ \A j, k \in DOMAIN f : j < k => Earlier(f[j], f[k])
  <2>1. f = CHOOSE s \in [1..n -> F] : Range(s) = F /\ \A j, k \in DOMAIN s : j < k => Earlier(s[j], s[k])
    BY <1>1, <1>8, <1>11 DEF frames_of
  <2> QED BY <1>5, <1>9, <1>10, <2>1
<1>13. ASSUME NEW k \in 1..n PROVE ts[f[k]] = k - 1
  <2>1. \A j \in 1..n : f[j] \in F
    BY <1>12
  <2>2. \A i \in F : \E j \in 1..n : f[j] = i
    BY <1>12 DEF Range
  <2>3. ASSUME NEW i \in 1..n, NEW j \in 1..n, i < j PROVE ts[f[i]] < ts[f[j]]
    <3>1. f[i] \in F /\ f[j] \in F /\ Earlier(f[i], f[j])
      BY <1>12, <2>1, <2>3
    <3>2. ts[f[i]] < ts[f[j]] \/ ts[f[i]] = ts[f[j]]
      BY <1>2, <3>1 DEF Earlier
    <3>3. CASE ts[f[i]] = ts[f[j]]
      <4>1. f[i] = f[j]
        BY <1>2, <3>1, <3>3
      <4>2. ~(mdAssets[f[i]].ts < mdAssets[f[i]].ts) /\ ~(f[i] < f[i])
        <5>1. mdAssets[f[i]].ts \in 0..(n - 1)
          BY <1>2, <3>1
        <5>2. f[i] \in Nat
          BY <1>1, <3>1 DEF FrameIds, MdTyped
        <5> QED BY <5>1, <5>2
      <4> QED BY <3>1, <4>1, <4>2 DEF Earlier
    <3> QED BY <3>2, <3>3
  <2>4. PICK T : T = {j \in 1..n : ts[f[j]] # j - 1}
    OBVIOUS
  <2>5. SUFFICES ASSUME k \in T PROVE FALSE
    BY <2>4
  <2>6. PICK m \in T : \A j \in T : m <= j
    BY <2>4, <2>5, LeastNat, SMTT(40)
  <2>7. m \in 1..n /\ ts[f[m]] # m - 1 /\ ts[f[m]] \in 0..(n - 1)
    BY <1>2, <2>1, <2>4, <2>6
  <2>8. \A j \in 1..n : j < m => ts[f[j]] = j - 1
    BY <2>4, <2>6, <2>7
  <2>9. ts[f[m]] >= m
    <3>1. CASE m = 1
      BY <2>7, <3>1
    <3>2. CASE m # 1
      <4>1. m - 1 \in 1..n /\ m - 1 < m
        BY <2>7, <3>2
      <4>2. ts[f[m - 1]] = m - 2 /\ ts[f[m - 1]] < ts[f[m]]
        BY <2>3, <2>7, <2>8, <4>1
      <4> QED BY <2>7, <4>2
    <3> QED BY <3>1, <3>2
  <2>10. PICK i \in F : ts[i] = m - 1
    <3>1. m - 1 \in 0..(n - 1)
      BY <2>7
    <3> QED BY <1>2, <3>1
  <2>11. PICK j \in 1..n : f[j] = i
    BY <2>2
  <2>12. CASE j < m
    BY <2>7, <2>8, <2>10, <2>11, <2>12
  <2>13. CASE j = m
    BY <2>7, <2>10, <2>11, <2>13
  <2>14. CASE j > m
    <3>1. ts[f[m]] < ts[f[j]]
      BY <2>3, <2>7, <2>14
    <3> QED BY <2>7, <2>9, <2>10, <2>11, <3>1
  <2> QED BY <2>7, <2>12, <2>13, <2>14
<1>14. \A k \in 1..n : mdAssets[f[k]].ts = k - 1
  BY <1>2, <1>12, <1>13
<1> QED BY <1>1, <1>11, <1>12, <1>14

-----------------------------------------------------------------------------
(* Routed requests: the temporary files are those of the requests made.     *)
MdRoutes == [state : {"running", "not spawned", "ok", "timed out"}, file : BOOLEAN, tokens : Nat]
RouteInv ==
    /\ mdRoute \in Seq(MdRoutes) /\ mdTemp \subseteq 1..Len(mdRoute)
    /\ TempFilesAreOwned

\* The same of any list and any set of files; a request more, a request that ends.
LEMMA SeqPlaces ==
  ASSUME NEW S, NEW s \in Seq(S)
  PROVE  DOMAIN s = 1..Len(s) /\ Len(s) \in Nat /\ \A r \in 1..Len(s) : s[r] \in S
OBVIOUS

LEMMA PlacesSeq ==
  ASSUME NEW S, NEW k \in Nat, NEW f \in [1..k -> S]
  PROVE  f \in Seq(S) /\ Len(f) = k
OBVIOUS

Owned(s, tmp) ==
    /\ s \in Seq(MdRoutes) /\ tmp \subseteq 1..Len(s)
    /\ \A i \in 1..Len(s) : i \in tmp => s[i].file /\ s[i].state # "ok"
    /\ \A i \in 1..Len(s) : s[i].file <=> s[i].tokens > MdThreshold

LEMMA OwnedIsInv == RouteInv <=> Owned(mdRoute, mdTemp)
<1>1. mdRoute \in Seq(MdRoutes) => DOMAIN mdRoute = 1..Len(mdRoute)
  OBVIOUS
<1> QED BY <1>1 DEF RouteInv, Owned, TempFilesAreOwned

LEMMA OwnedIsInvLater == RouteInv' <=> Owned(mdRoute', mdTemp')
<1>1. mdRoute' \in Seq(MdRoutes) => DOMAIN (mdRoute') = 1..Len(mdRoute')
  OBVIOUS
<1> QED BY <1>1 DEF RouteInv, Owned, TempFilesAreOwned

LEMMA OwnedAdded ==
  ASSUME NEW s, NEW tmp, Owned(s, tmp), NEW x \in MdRoutes, NEW t,
         x.file <=> x.tokens > MdThreshold, x.state # "ok",
         t = tmp \/ (x.file /\ t = tmp \cup {Len(s) + 1})
  PROVE  Owned(Append(s, x), t)
<1>1. s \in Seq(MdRoutes) /\ Len(s) \in Nat
  BY DEF Owned
<1>2. PICK n, r : n = Append(s, x) /\ r = Len(s) + 1
  OBVIOUS
<1>3. /\ n \in Seq(MdRoutes) /\ Len(n) = r /\ n[r] = x
      /\ \A i \in 1..Len(s) : n[i] = s[i]
  BY <1>1, <1>2
<1>4. \A i \in 1..r : i \in 1..Len(s) \/ i = r
  BY <1>1, <1>2
<1>5. 1..Len(s) \subseteq 1..r /\ r \in 1..r /\ r \notin 1..Len(s)
  BY <1>1, <1>2
<1>6. t \subseteq 1..r
  BY <1>2, <1>5, Zenon DEF Owned
<1>7. ASSUME NEW i \in 1..r PROVE (i \in t => n[i].file /\ n[i].state # "ok") /\ (n[i].file <=> n[i].tokens > MdThreshold)
  <2>1. CASE i = r
    <3>1. r \notin tmp
      BY <1>5, Zenon DEF Owned
    <3> QED BY <1>2, <1>3, <2>1, <3>1, Zenon
  <2>2. CASE i # r
    <3>1. i \in 1..Len(s) /\ n[i] = s[i]
      BY <1>3, <1>4, <1>7, <2>2, Zenon
    <3>2. i \in t => i \in tmp
      BY <1>2, <2>2, Zenon
    <3> QED BY <3>1, <3>2, Zenon DEF Owned
  <2> QED BY <2>1, <2>2
<1> QED BY <1>2, <1>3, <1>6, <1>7, Zenon DEF Owned

LEMMA OwnedMoved ==
  ASSUME NEW s \in Seq(MdRoutes), NEW tmp, Owned(s, tmp), NEW r \in 1..Len(s), NEW w \in {"ok", "timed out"}, NEW t,
         t = tmp \ {r} \/ (t = tmp /\ w # "ok")
  PROVE  Owned([s EXCEPT ![r].state = w], t)
<1>1. s \in Seq(MdRoutes) /\ s[r] \in MdRoutes
  <2>1. s \in Seq(MdRoutes)
    BY DEF Owned
  <2> QED BY ONLY <2>1, r \in 1..Len(s), SeqPlaces, Zenon
<1>2. PICK x : x = [s[r] EXCEPT !.state = w]
  OBVIOUS
<1>3. x \in MdRoutes /\ x.file = s[r].file /\ x.tokens = s[r].tokens /\ x.state = w
  BY <1>1, <1>2 DEF MdRoutes
<1>4. PICK n : n = [s EXCEPT ![r] = x]
  OBVIOUS
<1>5. n = [s EXCEPT ![r].state = w]
  BY <1>2, <1>4
<1>6. /\ n \in Seq(MdRoutes) /\ Len(n) = Len(s) /\ n[r] = x
      /\ \A i \in 1..Len(s) : i # r => n[i] = s[i]
  <2>1. s \in Seq(MdRoutes) /\ x \in MdRoutes /\ r \in 1..Len(s)
    BY <1>1, <1>3
  <2>2. PICK S : S = MdRoutes
    OBVIOUS
  <2>3. s \in Seq(S) /\ x \in S
    BY <2>1, <2>2, Zenon
  <2>4. DOMAIN s = 1..Len(s) /\ Len(s) \in Nat /\ \A i \in 1..Len(s) : s[i] \in S
    BY ONLY <2>3, SeqPlaces
  <2>5. PICK d, k : d = 1..k /\ k = Len(s)
    OBVIOUS
  <2>6. n \in [d -> S] /\ n[r] = x /\ \A i \in d : i # r => n[i] = s[i]
    BY ONLY <1>4, <2>1, <2>3, <2>4, <2>5, Zenon
  <2>7. n \in Seq(S) /\ Len(n) = k
    BY ONLY <2>4, <2>5, <2>6, PlacesSeq
  <2> QED BY ONLY <2>2, <2>5, <2>6, <2>7, Zenon
<1>7. t \subseteq tmp /\ (w = "ok" => r \notin t)
  OBVIOUS
<1>8. t \subseteq 1..Len(s)
  BY <1>7, Zenon DEF Owned
<1>9. ASSUME NEW i \in 1..Len(s) PROVE (i \in t => n[i].file /\ n[i].state # "ok") /\ (n[i].file <=> n[i].tokens > MdThreshold)
  <2>1. (i \in t => s[i].file) /\ (s[i].file <=> s[i].tokens > MdThreshold) /\ (i \in t => s[i].state # "ok")
    BY <1>7, <1>9, Zenon DEF Owned
  <2>2. CASE i = r
    BY <1>3, <1>6, <1>7, <2>1, <2>2
  <2>3. CASE i # r
    BY <1>6, <1>9, <2>1, <2>3, Zenon
  <2> QED BY <2>2, <2>3
<1> QED BY <1>5, <1>6, <1>8, <1>9, Zenon DEF Owned

LEMMA RouteStep ==
  ASSUME RouteInv, MediaNext \/ UNCHANGED mdVars
  PROVE  RouteInv'
<1>1. Owned(mdRoute, mdTemp)
  BY OwnedIsInv
<1>2. SUFFICES Owned(mdRoute', mdTemp')
  BY OwnedIsInvLater
<1>3. CASE UNCHANGED <<mdTemp, mdRoute>>
  BY <1>1, <1>3
<1>4. ASSUME RouteStart PROVE Owned(mdRoute', mdTemp')
  <2>1. PICK tokens \in MdTokens, b \in BOOLEAN :
           /\ mdTemp' = IF use_file(tokens) THEN mdTemp \cup {Len(mdRoute) + 1} ELSE mdTemp
           /\ mdRoute' = Append(mdRoute, [state |-> IF b THEN "running" ELSE "not spawned",
                                          file |-> use_file(tokens), tokens |-> tokens])
    BY <1>4 DEF RouteStart
  <2>2. tokens \in Nat /\ (use_file(tokens) <=> tokens > MdThreshold) /\ use_file(tokens) \in BOOLEAN
    BY MediaAssumption DEF use_file, build_request
  <2>3. PICK x : x = [state |-> IF b THEN "running" ELSE "not spawned", file |-> use_file(tokens), tokens |-> tokens]
    OBVIOUS
  <2>4. x \in MdRoutes /\ x.file = use_file(tokens) /\ x.tokens = tokens /\ x.state # "ok"
    BY <2>2, <2>3 DEF MdRoutes
  <2>5. PICK t : t = mdTemp'
    OBVIOUS
  <2>6. t = mdTemp \/ (x.file /\ t = mdTemp \cup {Len(mdRoute) + 1})
    BY <2>1, <2>4, <2>5
  <2>7. x.file <=> x.tokens > MdThreshold
    BY <2>2, <2>4
  <2>8. Owned(Append(mdRoute, x), t)
    BY ONLY <1>1, <2>4, <2>6, <2>7, OwnedAdded
  <2> QED BY <2>1, <2>3, <2>5, <2>8, Zenon
<1>5. ASSUME NEW r \in DOMAIN mdRoute, RouteEnd(r) \/ RouteTimeout(r)
      PROVE  Owned(mdRoute', mdTemp')
  <2>1. PICK w \in {"ok", "timed out"} :
           /\ mdRoute' = [mdRoute EXCEPT ![r].state = w]
           /\ mdTemp' = IF w = "ok" THEN mdTemp \ {r} ELSE mdTemp
    <3>1. CASE RouteEnd(r)
      BY <3>1 DEF RouteEnd, Removed
    <3>2. CASE RouteTimeout(r)
      BY <3>2 DEF RouteTimeout
    <3> QED BY <1>5, <3>1, <3>2
  <2>2. PICK t : t = mdTemp'
    OBVIOUS
  <2>3. t = mdTemp \ {r} \/ (t = mdTemp /\ w # "ok")
    BY <2>1, <2>2
  <2>6. mdRoute \in Seq(MdRoutes)
    BY DEF RouteInv
  <2>5. r \in 1..Len(mdRoute)
    BY ONLY <1>5, <2>6, SeqPlaces, Zenon
  <2>4. Owned([mdRoute EXCEPT ![r].state = w], t)
    BY ONLY <1>1, <2>3, <2>5, <2>6, w \in {"ok", "timed out"}, OwnedMoved
  <2> QED BY <2>1, <2>2, <2>4, Zenon
<1>6. MediaNext => \/ UNCHANGED <<mdTemp, mdRoute>> \/ RouteStart
                   \/ \E r \in DOMAIN mdRoute : RouteEnd(r) \/ RouteTimeout(r)
  BY DEF MediaNext, add_image, add_audio, MdCaption, add_video, MdExtract, MdList, MdIndex, MdCrash, mdFiles
<1>7. UNCHANGED mdVars => UNCHANGED <<mdTemp, mdRoute>>
  BY DEF mdVars
<1> QED BY <1>3, <1>4, <1>5, <1>6, <1>7

\* Every step keeps the invariant; a routed request touches nothing of it.
LEMMA MdStep ==
  ASSUME MdInv, MediaNext \/ UNCHANGED mdVars
  PROVE  MdInv'
<1>1. CASE UNCHANGED mdMedia
  <2>1. UNCHANGED <<mdAssets, mdDir, mdGen, mdCall, mdDone, mdUsed>>
    BY <1>1 DEF mdMedia
  <2>2. MdTyped' /\ CallsApart' /\ \A p \in MdDirs : DirFits(p)'
    BY <2>1 DEF MdInv, MdTyped, CallsApart, DirFits
  <2>3. ParentsFit' /\ \A d \in mdDone' : DoneFits(d)'
    BY <2>1, StoredStays, Zenon DEF MdInv
  <2>4. ASSUME NEW w \in MdWorkers PROVE MdCallFits(mdCall[w], tempdir(w))'
    <3>1. PICK c, p : c = mdCall[w] /\ p = tempdir(w) /\ c = mdCall'[w] /\ p = tempdir(w)'
      BY <2>1, TempdirStays DEF MdInv
    <3>2. MdCallFits(c, p)
      BY <3>1 DEF MdInv
    <3>3. MdCallFits(c, p)'
      BY <2>1, <3>2, StoredStays, Zenon DEF MdCallFits
    <3> QED BY ONLY <3>1, <3>3 DEF MdCallFits, Numbered, AllIn, FrameIds, CaptionIds
  <2> QED BY <2>2, <2>3, <2>4 DEF MdInv
<1>2. MediaNext => \/ \E w \in MdWorkers : \/ add_image(w) \/ add_audio(w) \/ MdCaption(w)
                                           \/ add_video(w) \/ MdExtract(w) \/ MdList(w) \/ MdIndex(w)
                   \/ \E p \in MdProcs : MdCrash(p)
                   \/ UNCHANGED mdMedia
  BY DEF MediaNext, RouteStart, RouteEnd, RouteTimeout
<1>3. UNCHANGED mdVars => UNCHANGED mdMedia
  BY DEF mdVars
<1> QED BY <1>1, <1>2, <1>3, add_imageKeeps, add_audioKeeps, MdCaptionKeeps, add_videoKeeps,
           MdExtractKeeps, MdListKeeps, MdIndexKeeps, MdCrashKeeps

LEMMA MdInit == MediaInit => MdInv /\ RouteInv
<1> SUFFICES ASSUME MediaInit PROVE MdInv /\ RouteInv
  OBVIOUS
<1>1. /\ mdAssets = <<>> /\ mdDone = {} /\ mdTemp = {} /\ mdRoute = <<>>
      /\ mdDir = [d \in MdDirs |-> <<>>] /\ mdUsed = [d \in MdDirs |-> {}]
      /\ mdGen = [p \in MdProcs |-> 0]
      /\ mdCall = [w \in MdWorkers |-> MdIdle]
  BY DEF MediaInit
<1>2. DOMAIN mdAssets = {} /\ DOMAIN mdRoute = {} /\ mdAssets \in Seq(MdRows) /\ mdRoute \in Seq(MdRoutes)
  BY <1>1
<1>3. RouteInv
  BY <1>1, <1>2 DEF RouteInv, TempFilesAreOwned
<1>4. MdTyped
  <2>1. <<>> \in Seq(MdVideos)
    OBVIOUS
  <2>2. mdGen \in [MdProcs -> 0..MdMaxKills]
    BY <1>1, MediaAssumption
  <2> QED BY <1>1, <1>2, <2>1, <2>2, IdleFits, Zenon DEF MdTyped
<1>5. ASSUME NEW p \in MdDirs PROVE DirFits(p)
  <2>1. mdDir[p] = <<>> /\ Len(mdDir[p]) = 0 /\ DOMAIN mdDir[p] = {}
    BY <1>1
  <2> QED BY <2>1, MediaAssumption DEF DirFits, MdVideos
<1>6. \A w \in MdWorkers : mdCall[w] = MdIdle /\ mdCall[w].pc = "idle"
  BY <1>1, IdleFits
<1>7. \A w \in MdWorkers : MdCallFits(mdCall[w], tempdir(w))
  BY <1>6, IdleFits
<1>8. CallsApart /\ ParentsFit
  BY <1>1, <1>2, <1>6 DEF CallsApart, ParentsFit
<1> QED BY <1>1, <1>3, <1>4, <1>5, <1>7, <1>8 DEF MdInv

\* The invariant says what the readers of media_assets rely on.
FramesOfThere(d) ==
    LET f == frames_of(d.id) IN
    /\ Len(f) >= MdLength[d.of]
    /\ \A n \in DOMAIN f : mdAssets[f[n]].path[2] \in DOMAIN mdDir[mdAssets[f[n]].path[1]]
    /\ mdUsed[d.dir] \subseteq {d.of} => Len(f) = MdLength[d.of] /\ \A n \in DOMAIN f : Shows(f[n]) = d.of
LEMMA MdInvIsWhole ==
  ASSUME MdInv
  PROVE  FamiliesAreWhole /\ FramesAreThere
<1>1. MdTyped /\ ParentsFit /\ \A d \in mdDone : DoneFits(d)
  BY DEF MdInv
<1>2. ASSUME NEW d \in mdDone, d.kind = "video"
      PROVE  /\ frames_of(d.id) # <<>>
             /\ \A n \in DOMAIN frames_of(d.id) : mdAssets[frames_of(d.id)[n]].ts = n - 1
             /\ FramesOfThere(d)
  <2>2. PICK f, q, r, v : f = frames_of(d.id) /\ q = d.id /\ r = d.dir /\ v = d.of
    OBVIOUS
  <2>1. PICK n \in Nat \ {0} : /\ Numbered(q, n) /\ AllIn(q, r) /\ r \in MdDirs /\ v \in mdUsed[r]
                               /\ MdLength[v] <= n /\ n <= Len(mdDir[r])
    BY <1>1, <1>2, <2>2 DEF DoneFits
  <2>3. f \in [1..n -> FrameIds(q)] /\ \A k \in 1..n : mdAssets[f[k]].ts = k - 1
    BY <1>1, <2>1, <2>2, FramesInOrder
  <2>4. DOMAIN f = 1..n /\ 1 \in DOMAIN f /\ DOMAIN f # {}
    <3>1. 1 \in 1..n
      OBVIOUS
    <3> QED BY ONLY <2>3, <3>1, Zenon
  <2>5. f # <<>>
    <3>1. DOMAIN << >> = {}
      OBVIOUS
    <3> QED BY <2>4, <3>1, Zenon
  <2>6. Len(f) = n
    BY ONLY <2>1, <2>3, n \in Nat \ {0}, PlacesSeq
  <2>7. PICK s \in Seq(MdVideos) : s = mdDir[r] /\ v \in MdVideos /\ MdLength[v] \in Nat /\ DirFits(r)
    BY <1>1, <2>1, MediaAssumption DEF MdTyped, MdInv, MdVideos
  <2>8. \A k \in DOMAIN f : mdAssets[f[k]].path = <<r, k>>
    <3> SUFFICES ASSUME NEW k \in 1..n PROVE mdAssets[f[k]].path = <<r, k>>
      BY <2>4
    <3>1. f[k] \in FrameIds(q) /\ mdAssets[f[k]].ts = k - 1 /\ (k - 1) + 1 = k
      BY <2>3
    <3>2. mdAssets[f[k]].path = <<r, mdAssets[f[k]].ts + 1>>
      BY <2>1, <3>1 DEF AllIn
    <3> QED BY <3>1, <3>2
  <2>9. \A k \in DOMAIN f : k \in DOMAIN s
    BY <2>1, <2>4, <2>7
  <2>10. ASSUME mdUsed[r] \subseteq {v} PROVE n = MdLength[v] /\ \A k \in DOMAIN f : s[k] = v
    <3>1. Len(s) <= MdLength[v] /\ Len(s) \in Nat
      BY <2>7, <2>10 DEF DirFits
    <3>2. \A k \in DOMAIN s : s[k] = v
      BY <2>7, <2>10 DEF DirFits
    <3> QED BY <2>1, <2>7, <2>9, <3>1, <3>2
  <2>11. \A k \in DOMAIN f : /\ mdAssets[f[k]].path[1] = r /\ mdAssets[f[k]].path[2] = k
    BY <2>8
  <2>12. /\ Len(f) >= MdLength[v]
         /\ \A k \in DOMAIN f : mdAssets[f[k]].path[2] \in DOMAIN mdDir[mdAssets[f[k]].path[1]]
         /\ mdUsed[r] \subseteq {v} => Len(f) = MdLength[v] /\ \A k \in DOMAIN f : Shows(f[k]) = v
    <3>1. Len(f) >= MdLength[v]
      BY <2>1, <2>6, <2>7
    <3>2. \A k \in DOMAIN f : Shows(f[k]) = s[k]
      BY <2>7, <2>11, Zenon DEF Shows
    <3> QED BY <2>6, <2>7, <2>9, <2>10, <2>11, <3>1, <3>2, Zenon
  <2>13. FramesOfThere(d)
    BY ONLY <2>2, <2>12, Zenon DEF FramesOfThere
  <2> QED BY <2>2, <2>3, <2>4, <2>5, <2>13
<1>3. ASSUME NEW d \in mdDone, d.kind = "spoken" PROVE Cardinality(CaptionIds(d.id)) = 1
  <2>1. PICK i : CaptionIds(d.id) = {i}
    BY <1>1, <1>3 DEF DoneFits
  <2> QED BY <2>1, FS_Singleton
<1>4. FamiliesAreWhole
  BY <1>1, <1>2, <1>3, Zenon DEF FamiliesAreWhole, ParentsFit, CaptionIds
<1>5. FramesAreThere
  BY <1>2, Zenon DEF FramesAreThere, FramesOfThere
<1> QED BY <1>4, <1>5

\* Rows of one call are committed among those of others, and crashes cut calls
\* short: every frame and caption still has its parent, a returned video the
\* frames 0, 1, 2, ..., each with its file, which shows the video as long as its
\* process extracts nothing else into its directory, before or after, and a
\* temporary file outlives only a request whose CLI never ended.
THEOREM MediaFamiliesAreWhole == Spec => []MediaIsWhole
<1>1. Init => MdInv /\ RouteInv
  BY MdInit DEF Init
<1>2. MdInv /\ RouteInv /\ [Next]_vars => (MdInv /\ RouteInv)'
  BY OneComponentMoves, MdStep, RouteStep
<1>3. MdInv /\ RouteInv => MediaIsWhole
  BY MdInvIsWhole DEF RouteInv, MediaIsWhole
<1> QED BY <1>1, <1>2, <1>3, PTL DEF Spec

-----------------------------------------------------------------------------
(* The model router: sums over the rules of a configuration.                *)
IsSum(s, f, len) == s = [n \in 0..len |-> IF n = 0 THEN 0 ELSE s[n - 1] + f[n]]

LEMMA SumExists ==
  ASSUME NEW len \in Nat, NEW f \in [1..len -> Nat]
  PROVE  \E s : s \in [0..len -> Nat] /\ s[0] = 0 /\ (\A n \in 1..len : s[n] = s[n - 1] + f[n]) /\ Total(f, len) = s[len]
<1>1. PICK h : h = [n \in 1..len |-> [x \in Nat |-> x + f[n]]]
  OBVIOUS
<1>2. h \in [1..len -> [Nat -> Nat]]
  BY <1>1
<1>3. PICK s \in [0..len -> Nat] : s[0] = 0 /\ \A n \in 1..len : s[n] = h[n][s[n - 1]]
  <2>1. PICK C, a : C = Nat /\ a = 0
    OBVIOUS
  <2>2. a \in C /\ h \in [1..len -> [C -> C]]
    BY <1>2, <2>1
  <2>4. Climbs(a, h, C, len)
    BY <2>2 DEF Climbs
  <2>3. \E r \in [0..len -> C] : r[0] = a /\ \A n \in 1..len : r[n] = h[n][r[n - 1]]
    BY ONLY len \in Nat, <2>4, Iterated
  <2> QED BY <2>1, <2>3, Zenon
<1>4. ASSUME NEW n \in 1..len PROVE s[n] = s[n - 1] + f[n]
  <2>1. n - 1 \in 0..len /\ s[n - 1] \in Nat
    BY <1>3
  <2> QED BY <1>1, <1>3, <2>1
<1>5. IsSum(s, f, len)
  <2>1. \A n \in 0..len : n = 0 \/ n \in 1..len
    OBVIOUS
  <2>2. \A n \in 0..len : s[n] = IF n = 0 THEN 0 ELSE s[n - 1] + f[n]
    BY <1>3, <1>4, <2>1
  <2>3. s = [n \in 0..len |-> s[n]]
    BY <1>3
  <2> QED BY <2>2, <2>3 DEF IsSum
<1>6. PICK t : IsSum(t, f, len) /\ Total(f, len) = t[len]
  <2>1. PICK t : t = CHOOSE z : IsSum(z, f, len)
    OBVIOUS
  <2>2. IsSum(t, f, len)
    BY <1>5, <2>1
  <2>3. Total(f, len) = (CHOOSE z : IsSum(z, f, len))[len]
    BY DEF Total, IsSum
  <2> QED BY <2>1, <2>2, <2>3
<1>7. \A n \in 0..len : t[n] = s[n]
  <2>1. \A n \in 0..len : t[n] = IF n = 0 THEN 0 ELSE t[n - 1] + f[n]
    BY <1>6 DEF IsSum
  <2>2. t[0] = s[0]
    BY <1>3, <2>1
  <2>3. ASSUME NEW n \in 1..len, t[n - 1] = s[n - 1] PROVE t[n] = s[n]
    <3>1. n \in 0..len /\ n # 0
      OBVIOUS
    <3> QED BY <1>4, <2>1, <2>3, <3>1
  <2>4. PICK x, y : x = t /\ y = s
    OBVIOUS
  <2>5. GoAlike(x, y, len)
    BY <2>2, <2>3, <2>4 DEF GoAlike
  <2>6. \A n \in 0..len : x[n] = y[n]
    BY ONLY len \in Nat, <2>5, SameWay
  <2> QED BY <2>4, <2>6
<1>8. Total(f, len) = s[len]
  BY <1>6, <1>7
<1> QED BY <1>3, <1>4, <1>8

\* One summand more, and one summand larger by at most one.
LEMMA TotalAdded ==
  ASSUME NEW len \in Nat, NEW f \in [1..len -> Nat], NEW g \in [1..(len + 1) -> Nat], \A i \in 1..len : g[i] = f[i]
  PROVE  Total(g, len + 1) = Total(f, len) + g[len + 1] /\ Total(f, len) \in Nat
<1>1. PICK s : s \in [0..len -> Nat] /\ s[0] = 0 /\ (\A n \in 1..len : s[n] = s[n - 1] + f[n]) /\ Total(f, len) = s[len]
  BY SumExists
<1>2. len + 1 \in Nat
  OBVIOUS
<1>3. PICK m : m = len + 1
  OBVIOUS
<1>4. PICK t : t \in [0..m -> Nat] /\ t[0] = 0 /\ (\A n \in 1..m : t[n] = t[n - 1] + g[n]) /\ Total(g, m) = t[m]
  BY <1>2, <1>3, SumExists
<1>5. \A n \in 0..len : s[n] = t[n]
  <2>1. s[0] = t[0]
    BY <1>1, <1>4
  <2>2. \A n \in 1..len : s[n - 1] = t[n - 1] => s[n] = t[n]
    BY <1>1, <1>3, <1>4
  <2>3. PICK x, y : x = s /\ y = t
    OBVIOUS
  <2>4. GoAlike(x, y, len)
    BY <2>1, <2>2, <2>3 DEF GoAlike
  <2>5. \A n \in 0..len : x[n] = y[n]
    BY ONLY len \in Nat, <2>4, SameWay
  <2> QED BY <2>3, <2>5
<1>6. t[m] = t[len] + g[m] /\ t[len] = s[len] /\ s[len] \in Nat
  BY <1>1, <1>3, <1>4, <1>5
<1> QED BY <1>1, <1>3, <1>4, <1>6

Bumped(f, g, len, j, d) ==
    /\ len \in Nat /\ f \in [1..len -> Nat] /\ g \in [1..len -> Nat] /\ j \in 1..len /\ d \in Nat
    /\ \A i \in 1..len : i # j => g[i] = f[i]
    /\ g[j] = f[j] + d
LEMMA TotalBumped ==
  ASSUME NEW len, NEW f, NEW g, NEW j, NEW d, Bumped(f, g, len, j, d)
  PROVE  Total(g, len) = Total(f, len) + d /\ Total(f, len) \in Nat
<1> USE DEF Bumped
<1>1. PICK s : s \in [0..len -> Nat] /\ s[0] = 0 /\ (\A n \in 1..len : s[n] = s[n - 1] + f[n]) /\ Total(f, len) = s[len]
  BY SumExists
<1>2. PICK t : t \in [0..len -> Nat] /\ t[0] = 0 /\ (\A n \in 1..len : t[n] = t[n - 1] + g[n]) /\ Total(g, len) = t[len]
  BY SumExists
<1>3. PICK T : T = {k \in 0..len : t[k] = IF k >= j THEN s[k] + d ELSE s[k]}
  OBVIOUS
<1>4. 0 \in T
  BY <1>1, <1>2, <1>3
<1>5. ASSUME NEW k \in 0..(len - 1), k \in T PROVE k + 1 \in T
  <2>1. k + 1 \in 1..len /\ k + 1 \in 0..len /\ (k + 1) - 1 = k /\ k \in 0..len
    OBVIOUS
  <2>2. t[k + 1] = t[k] + g[k + 1] /\ s[k + 1] = s[k] + f[k + 1]
    BY <1>1, <1>2, <2>1
  <2>3. t[k] = IF k >= j THEN s[k] + d ELSE s[k]
    BY <1>3, <1>5
  <2>4. s[k] \in Nat /\ f[k + 1] \in Nat /\ g[k + 1] \in Nat
    BY <1>1, <2>1
  <2>5. t[k + 1] = IF k + 1 >= j THEN s[k + 1] + d ELSE s[k + 1]
    <3>1. CASE k + 1 = j
      <4>1. g[k + 1] = f[k + 1] + d /\ k + 1 >= j /\ ~(k >= j)
        BY <3>1
      <4>2. t[k] = s[k]
        BY <2>3, <4>1
      <4> QED BY <2>2, <2>4, <4>1, <4>2
    <3>2. CASE k + 1 # j
      <4>1. g[k + 1] = f[k + 1] /\ (k + 1 >= j <=> k >= j)
        BY <2>1, <3>2
      <4> QED BY <2>2, <2>3, <2>4, <4>1
    <3> QED BY <3>1, <3>2
  <2> QED BY <1>3, <2>1, <2>5
<1>6. \A n \in 0..len : n \in T
  BY ONLY len \in Nat, <1>4, <1>5, UpTo
<1>7. len \in T /\ len >= j
  BY <1>6
<1>8. t[len] = s[len] + d /\ s[len] \in Nat
  BY <1>1, <1>3, <1>7
<1> QED BY <1>1, <1>2, <1>8

-----------------------------------------------------------------------------
(* The rules of a configuration: none twice, and what they count.           *)
MrRules == [shape : MrShapes, model : MrModels, wins : Nat, losses : Nat]
Counted(rules) == total_wins(rules) + total_losses(rules)
Ruled(rules) ==
    /\ rules \in Seq(MrRules) /\ rules # <<>>
    /\ \A i, j \in 1..Len(rules) : rules[i].shape = rules[j].shape /\ rules[i].model = rules[j].model => i = j

LEMMA RuledPlaces ==
  ASSUME NEW f, Ruled(f)
  PROVE  /\ f \in Seq(MrRules) /\ Len(f) \in Nat \ {0} /\ DOMAIN f = 1..Len(f)
         /\ \A i \in 1..Len(f) : f[i] \in MrRules
BY DEF Ruled

LEMMA DefaultRuled == Ruled(MrDefault)
<1>1. MrDefault \in Seq(MrRules) /\ MrDefault # <<>>
  BY MetaAssumption DEF MrRules
<1>2. DOMAIN MrDefault = 1..Len(MrDefault)
  BY <1>1
<1> QED BY <1>1, <1>2, MetaAssumption DEF Ruled

\* A rule that counts an outcome.
LEMMA CountingFacts ==
  ASSUME NEW x \in MrRules, NEW b \in BOOLEAN, NEW y, y = Counting(x, b)
  PROVE  /\ y \in MrRules /\ y.shape = x.shape /\ y.model = x.model
         /\ \E d, e \in Nat : d + e = 1 /\ y.wins = x.wins + d /\ y.losses = x.losses + e
<1>1. CASE b
  <2>1. y = [shape |-> x.shape, model |-> x.model, wins |-> x.wins + 1, losses |-> x.losses]
    BY <1>1 DEF Counting, MrRules
  <2>2. y.wins = x.wins + 1 /\ y.losses = x.losses + 0 /\ 1 + 0 = 1
    BY <2>1 DEF MrRules
  <2> QED BY <2>1, <2>2 DEF MrRules
<1>2. CASE ~b
  <2>1. y = [shape |-> x.shape, model |-> x.model, wins |-> x.wins, losses |-> x.losses + 1]
    BY <1>2 DEF Counting, MrRules
  <2>2. y.wins = x.wins + 0 /\ y.losses = x.losses + 1 /\ 0 + 1 = 1
    BY <2>1 DEF MrRules
  <2> QED BY <2>1, <2>2 DEF MrRules
<1> QED BY <1>1, <1>2

\* The totals of a list of rules.
LEMMA TotalsOf ==
  ASSUME NEW f, f \in Seq(MrRules)
  PROVE  \E w, l : /\ w \in [1..Len(f) -> Nat] /\ l \in [1..Len(f) -> Nat]
                   /\ \A i \in 1..Len(f) : w[i] = f[i].wins /\ l[i] = f[i].losses
                   /\ Counted(f) = Total(w, Len(f)) + Total(l, Len(f))
<1>1. DOMAIN f = 1..Len(f) /\ \A i \in 1..Len(f) : f[i] \in MrRules
  OBVIOUS
<1>2. PICK w, l : w = [i \in DOMAIN f |-> f[i].wins] /\ l = [i \in DOMAIN f |-> f[i].losses]
  OBVIOUS
<1>3. w \in [1..Len(f) -> Nat] /\ l \in [1..Len(f) -> Nat] /\ \A i \in 1..Len(f) : w[i] = f[i].wins /\ l[i] = f[i].losses
  BY <1>1, <1>2 DEF MrRules
<1> QED BY <1>2, <1>3 DEF Counted, total_wins, total_losses

OneChanged(f, g, len, m, d, e) ==
    /\ f \in Seq(MrRules) /\ g \in Seq(MrRules) /\ Len(f) = len /\ Len(g) = len /\ m \in 1..len
    /\ \A i \in 1..len : i # m => g[i] = f[i]
    /\ d \in Nat /\ e \in Nat /\ d + e = 1
    /\ g[m].wins = f[m].wins + d /\ g[m].losses = f[m].losses + e
LEMMA CountedChanged ==
  ASSUME NEW f, NEW g, NEW len, NEW m, NEW d, NEW e, OneChanged(f, g, len, m, d, e)
  PROVE  Counted(f) \in Nat /\ Counted(g) = Counted(f) + 1
<1>1. /\ f \in Seq(MrRules) /\ g \in Seq(MrRules) /\ len = Len(f) /\ len = Len(g) /\ len \in Nat
      /\ d \in Nat /\ e \in Nat /\ d + e = 1
  BY DEF OneChanged
<1>2. PICK w, l : /\ w \in [1..len -> Nat] /\ l \in [1..len -> Nat]
                  /\ \A i \in 1..len : w[i] = f[i].wins /\ l[i] = f[i].losses
                  /\ Counted(f) = Total(w, len) + Total(l, len)
  BY <1>1, TotalsOf, ZenonT(40)
<1>3. PICK v, k : /\ v \in [1..len -> Nat] /\ k \in [1..len -> Nat]
                  /\ \A i \in 1..len : v[i] = g[i].wins /\ k[i] = g[i].losses
                  /\ Counted(g) = Total(v, len) + Total(k, len)
  <2>1. \E v, k : /\ v \in [1..Len(g) -> Nat] /\ k \in [1..Len(g) -> Nat]
                  /\ \A i \in 1..Len(g) : v[i] = g[i].wins /\ k[i] = g[i].losses
                  /\ Counted(g) = Total(v, Len(g)) + Total(k, Len(g))
    BY ONLY <1>1, TotalsOf
  <2> QED BY ONLY <1>1, <2>1
<1>4. /\ m \in 1..len /\ \A i \in 1..len : i # m => v[i] = w[i] /\ k[i] = l[i]
      /\ v[m] = w[m] + d /\ k[m] = l[m] + e
  BY ONLY <1>2, <1>3, OneChanged(f, g, len, m, d, e), ZenonT(40) DEF OneChanged
<1>5. Total(v, len) = Total(w, len) + d /\ Total(w, len) \in Nat
  <2>1. Bumped(w, v, len, m, d)
    BY <1>1, <1>2, <1>3, <1>4 DEF Bumped
  <2> QED BY ONLY <2>1, TotalBumped
<1>6. Total(k, len) = Total(l, len) + e /\ Total(l, len) \in Nat
  <2>1. Bumped(l, k, len, m, e)
    BY <1>1, <1>2, <1>3, <1>4 DEF Bumped
  <2> QED BY ONLY <2>1, TotalBumped
<1>7. PICK a, b, c, h : a = Total(w, len) /\ b = Total(l, len) /\ c = Total(v, len) /\ h = Total(k, len)
  OBVIOUS
<1>8. a \in Nat /\ b \in Nat /\ c = a + d /\ h = b + e /\ d \in Nat /\ e \in Nat /\ d + e = 1
  BY ONLY <1>1, <1>5, <1>6, <1>7
<1>9. a + b \in Nat /\ c + h = a + b + 1
  BY ONLY <1>8
<1> QED BY ONLY <1>2, <1>3, <1>7, <1>9

LEMMA CountedAdded ==
  ASSUME NEW f, f \in Seq(MrRules), NEW x \in MrRules, x.wins + x.losses = 3
  PROVE  Counted(f) \in Nat /\ Counted(Append(f, x)) = Counted(f) + 3
<1>1. PICK len, g : len = Len(f) /\ g = Append(f, x)
  OBVIOUS
<1>0. len \in Nat
  BY <1>1
<1>2. g \in Seq(MrRules) /\ Len(g) = len + 1 /\ g[len + 1] = x /\ \A i \in 1..len : g[i] = f[i]
  BY <1>0, <1>1
<1>3. PICK w, l : /\ w \in [1..len -> Nat] /\ l \in [1..len -> Nat]
                  /\ \A i \in 1..len : w[i] = f[i].wins /\ l[i] = f[i].losses
                  /\ Counted(f) = Total(w, len) + Total(l, len)
  BY <1>1, TotalsOf
<1>4. PICK v, k : /\ v \in [1..(len + 1) -> Nat] /\ k \in [1..(len + 1) -> Nat]
                  /\ \A i \in 1..(len + 1) : v[i] = g[i].wins /\ k[i] = g[i].losses
                  /\ Counted(g) = Total(v, len + 1) + Total(k, len + 1)
  <2>1. PICK m : m = len + 1
    OBVIOUS
  <2>2. m = Len(g)
    BY <1>2, <2>1
  <2>3. \E v, k : /\ v \in [1..m -> Nat] /\ k \in [1..m -> Nat]
                  /\ \A i \in 1..m : v[i] = g[i].wins /\ k[i] = g[i].losses
                  /\ Counted(g) = Total(v, m) + Total(k, m)
    BY <1>2, <2>2, TotalsOf
  <2> QED BY <2>1, <2>3
<1>5. len + 1 \in 1..(len + 1) /\ \A i \in 1..len : i \in 1..(len + 1)
  BY <1>0
<1>6. v[len + 1] = x.wins /\ k[len + 1] = x.losses /\ \A i \in 1..len : v[i] = w[i] /\ k[i] = l[i]
  BY <1>2, <1>3, <1>4, <1>5
<1>7. Total(v, len + 1) = Total(w, len) + x.wins /\ Total(w, len) \in Nat
  BY <1>0, <1>3, <1>4, <1>6, TotalAdded
<1>8. Total(k, len + 1) = Total(l, len) + x.losses /\ Total(l, len) \in Nat
  BY <1>0, <1>3, <1>4, <1>6, TotalAdded, ZenonT(40)
<1>9. x.wins \in Nat /\ x.losses \in Nat
  BY DEF MrRules
<1> QED BY <1>1, <1>3, <1>4, <1>7, <1>8, <1>9, SMTT(40)

\* record_outcome lists no rule twice and adds at most a rule's first three.
LEMMA Recorded ==
  ASSUME NEW f, Ruled(f), NEW o \in Outcomes, NEW g, g = record_outcome(f, o)
  PROVE  Ruled(g) /\ Counted(f) \in Nat /\ Counted(g) \in Nat /\ Counted(g) <= Counted(f) + 3
<1>1. PICK s \in MrShapes, d \in MrModels, b \in BOOLEAN : o[1] = s /\ o[2] = d /\ o[3] = b
  BY DEF Outcomes
<1>2. PICK len : len = Len(f) /\ len \in Nat \ {0}
  BY RuledPlaces
<1>3. /\ f \in Seq(MrRules) /\ DOMAIN f = 1..len /\ \A i \in 1..len : f[i] \in MrRules
      /\ \A i, j \in 1..len : f[i].shape = f[j].shape /\ f[i].model = f[j].model => i = j
  BY <1>2, RuledPlaces DEF Ruled
<1>4. PICK of : of = {i \in 1..len : f[i].shape = s /\ f[i].model = d}
  OBVIOUS
<1>5. of = {i \in DOMAIN f : f[i].shape = o[1] /\ f[i].model = o[2]}
  BY <1>1, <1>3, <1>4
<1>6. g = IF of # {} THEN [f EXCEPT ![Min(of)] = Counting(@, o[3])]
          ELSE Append(f, Counting([shape |-> o[1], model |-> o[2], wins |-> 1, losses |-> 1], o[3]))
  BY <1>5 DEF record_outcome
<1>7. CASE of # {}
  <2>1. PICK m : m = Min(of) /\ m \in of
    <3>1. of \subseteq Nat
      BY <1>2, <1>4
    <3>2. \E x \in of : \A y \in of : x <= y
      BY <1>7, <3>1, LeastNat
    <3> QED BY <3>2, Zenon DEF Min
  <2>2. m \in 1..len
    BY <1>4, <2>1
  <2>3. PICK x, y : x = f[m] /\ y = Counting(x, b) /\ x \in MrRules
    BY <1>3, <2>2
  <2>4. y \in MrRules /\ y.shape = x.shape /\ y.model = x.model
    BY <2>3, CountingFacts
  <2>5. PICK p \in Nat, q \in Nat : p + q = 1 /\ y.wins = x.wins + p /\ y.losses = x.losses + q
    BY <2>3, CountingFacts
  <2>6. g = [f EXCEPT ![m] = y]
    BY <1>1, <1>6, <1>7, <2>1, <2>3
  <2>7. g \in Seq(MrRules) /\ Len(g) = len /\ g[m] = y /\ \A i \in 1..len : i # m => g[i] = f[i]
    <3>1. g \in [1..len -> MrRules] /\ g[m] = y /\ \A i \in 1..len : i # m => g[i] = f[i]
      BY ONLY <1>3, <2>2, <2>4, <2>6
    <3> QED BY <1>2, <3>1, PlacesSeq
  <2>8. \A i \in 1..len : g[i].shape = f[i].shape /\ g[i].model = f[i].model
    BY <2>2, <2>3, <2>4, <2>7
  <2>9. Ruled(g)
    BY <1>2, <1>3, <2>7, <2>8 DEF Ruled
  <2>10. Counted(f) \in Nat /\ Counted(g) = Counted(f) + 1
    <3>1. OneChanged(f, g, len, m, p, q)
      BY <1>2, <1>3, <2>2, <2>3, <2>5, <2>7 DEF OneChanged
    <3> QED BY ONLY <3>1, CountedChanged
  <2> QED BY <2>9, <2>10
<1>8. CASE of = {}
  <2>1. PICK x, y : x = [shape |-> s, model |-> d, wins |-> 1, losses |-> 1] /\ y = Counting(x, b)
    OBVIOUS
  <2>2. x \in MrRules /\ x.shape = s /\ x.model = d /\ x.wins = 1 /\ x.losses = 1
    BY <2>1 DEF MrRules
  <2>3. y \in MrRules /\ y.shape = s /\ y.model = d
    BY <2>1, <2>2, CountingFacts
  <2>4. PICK p \in Nat, q \in Nat : p + q = 1 /\ y.wins = x.wins + p /\ y.losses = x.losses + q
    BY <2>1, <2>2, CountingFacts
  <2>5. y.wins + y.losses = 3
    BY <2>2, <2>4
  <2>6. g = Append(f, y)
    BY <1>1, <1>6, <1>8, <2>1
  <2>7. g \in Seq(MrRules) /\ Len(g) = len + 1 /\ g[len + 1] = y /\ \A i \in 1..len : g[i] = f[i]
    BY ONLY <1>2, <1>3, <2>3, <2>6
  <2>8. \A i \in 1..len : ~(f[i].shape = s /\ f[i].model = d)
    BY <1>4, <1>8
  <2>9. \A i \in 1..(len + 1) : i \in 1..len \/ i = len + 1
    BY <1>2
  <2>10. \A i, j \in 1..(len + 1) : g[i].shape = g[j].shape /\ g[i].model = g[j].model => i = j
    BY <1>3, <2>3, <2>7, <2>8, <2>9
  <2>11. g # <<>>
    BY <1>2, <2>7
  <2>12. Ruled(g)
    BY <2>7, <2>10, <2>11 DEF Ruled
  <2>13. Counted(f) \in Nat /\ Counted(g) = Counted(f) + 3
    BY <1>3, <2>3, <2>5, <2>6, CountedAdded
  <2> QED BY <2>12, <2>13
<1> QED BY <1>7, <1>8

\* Replaying outcomes goes on where it stopped.
IsReplay(r, d) == r = [n \in 0..Len(d) |-> IF n = 0 THEN MrDefault ELSE record_outcome(r[n - 1], d[n])]
LEMMA ReplaySteps ==
  ASSUME NEW d, d \in Seq(Outcomes)
  PROVE  /\ Replay(d)[0] = MrDefault
         /\ \A n \in 1..Len(d) : Replay(d)[n] = record_outcome(Replay(d)[n - 1], d[n])
<1>1. PICK len, C : len = Len(d) /\ C = {f \in Seq(MrRules) : Ruled(f)}
  OBVIOUS
<1>2. len \in Nat /\ \A n \in 1..len : d[n] \in Outcomes
  BY <1>1
<1>3. ASSUME NEW f \in C, NEW o \in Outcomes PROVE record_outcome(f, o) \in C
  <2>1. PICK g : g = record_outcome(f, o)
    OBVIOUS
  <2>2. Ruled(f)
    BY <1>1
  <2>3. Ruled(g)
    BY ONLY <2>1, <2>2, o \in Outcomes, Recorded
  <2> QED BY <1>1, <2>1, <2>3 DEF Ruled
<1>4. PICK h : h = [n \in 1..len |-> [f \in C |-> record_outcome(f, d[n])]]
  OBVIOUS
<1>5. Climbs(MrDefault, h, C, len)
  <2>1. MrDefault \in C
    BY <1>1, DefaultRuled DEF Ruled
  <2> QED BY <1>2, <1>3, <1>4, <2>1 DEF Climbs
<1>6. PICK s \in [0..len -> C] : s[0] = MrDefault /\ \A n \in 1..len : s[n] = h[n][s[n - 1]]
  BY ONLY <1>2, <1>5, Iterated
<1>7. ASSUME NEW n \in 1..len PROVE s[n] = record_outcome(s[n - 1], d[n])
  <2>1. n - 1 \in 0..len
    BY <1>2
  <2>2. s[n - 1] \in C
    BY <2>1, Zenon
  <2> QED BY <1>4, <1>6, <2>2, Zenon
<1>8. IsReplay(s, d)
  <2>1. \A n \in 0..len : n = 0 \/ n \in 1..len
    BY <1>2
  <2>2. \A n \in 0..len : s[n] = IF n = 0 THEN MrDefault ELSE record_outcome(s[n - 1], d[n])
    BY <1>6, <1>7, <2>1
  <2>3. s = [n \in 0..len |-> s[n]]
    BY <1>6
  <2> QED BY <1>1, <2>2, <2>3 DEF IsReplay
<1>9. PICK r : r = Replay(d) /\ IsReplay(r, d)
  <2>1. Replay(d) = CHOOSE r : IsReplay(r, d)
    BY DEF Replay, IsReplay
  <2> QED BY <1>8, <2>1
<1>10. \A n \in 0..len : r[n] = IF n = 0 THEN MrDefault ELSE record_outcome(r[n - 1], d[n])
  BY <1>1, <1>9 DEF IsReplay
<1>11. 0 \in 0..len /\ \A n \in 1..len : n \in 0..len /\ n # 0
  BY <1>2
<1> QED BY <1>1, <1>9, <1>10, <1>11

LEMMA ReplayEmpty == Replay(<<>>)[Len(<<>>)] = MrDefault
<1>1. <<>> \in Seq(Outcomes) /\ Len(<<>>) = 0
  OBVIOUS
<1> QED BY <1>1, ReplaySteps

LEMMA ReplayAdded ==
  ASSUME NEW d, d \in Seq(Outcomes), NEW o \in Outcomes, NEW e, e = Append(d, o)
  PROVE  Replay(e)[Len(e)] = record_outcome(Replay(d)[Len(d)], o)
<1>1. PICK len : len = Len(d) /\ len \in Nat
  OBVIOUS
<1>2. e \in Seq(Outcomes) /\ Len(e) = len + 1 /\ e[len + 1] = o /\ \A n \in 1..len : e[n] = d[n]
  BY <1>1
<1>3. PICK x, y : x = Replay(d) /\ y = Replay(e)
  OBVIOUS
<1>4. x[0] = MrDefault /\ \A n \in 1..len : x[n] = record_outcome(x[n - 1], d[n])
  BY <1>1, <1>3, ReplaySteps
<1>5. y[0] = MrDefault /\ \A n \in 1..(len + 1) : y[n] = record_outcome(y[n - 1], e[n])
  BY <1>2, <1>3, ReplaySteps
<1>6. \A n \in 1..len : n \in 1..(len + 1)
  BY <1>1
<1>7. GoAlike(x, y, len)
  BY <1>2, <1>4, <1>5, <1>6 DEF GoAlike
<1>8. x[len] = y[len]
  <2>1. \A n \in 0..len : x[n] = y[n]
    BY ONLY <1>1, <1>7, SameWay
  <2> QED BY <1>1, <2>1
<1>9. len + 1 \in 1..(len + 1) /\ (len + 1) - 1 = len
  BY <1>1
<1>10. y[len + 1] = record_outcome(y[len], o)
  BY <1>2, <1>5, <1>9
<1> QED BY <1>1, <1>2, <1>3, <1>8, <1>10

-----------------------------------------------------------------------------
(* The router's file: what is saved counts at most what was asked for; and  *)
(* while no two calls overlapped, the one under way saves the file and its  *)
(* outcome, through a temporary file that is its own.                       *)
Sound(f, ops) == Ruled(f) /\ Counted(f) <= Counted(MrDefault) + 3 * ops
SavedFile(f, ops) == f = NoFile \/ f = TornFile \/ Sound(f, ops)
Saving(c, ops) ==
    /\ c = [at |-> c.at, cfg |-> c.cfg, o |-> c.o]
    /\ c.at \in {"truncate", "fill", "rename"} /\ c.o \in Outcomes \cup {<<>>} /\ Sound(c.cfg, ops)
WithOutcome(f, o) == IF o = <<>> THEN load(f) ELSE record_outcome(load(f), o)
OneAtATime ==
    /\ mrFile # TornFile /\ load(mrFile) = Replayed
    /\ \A p, q \in MrProcs : mrProc[p] # MrIdle /\ mrProc[q] # MrIdle => p = q
    /\ \A p \in MrProcs : mrProc[p] # MrIdle =>
          /\ mrProc[p].cfg = WithOutcome(mrFile, mrProc[p].o)
          /\ mrProc[p].at = "rename" => mrTmp = mrProc[p].cfg
RouterInv ==
    /\ mrOps \in Nat /\ mrDone \in Seq(Outcomes) /\ DOMAIN mrProc = MrProcs
    /\ SavedFile(mrFile, mrOps) /\ SavedFile(mrTmp, mrOps)
    /\ \A p \in MrProcs : mrProc[p] = MrIdle \/ Saving(mrProc[p], mrOps)
    /\ ~mrOverlap => OneAtATime

LEMMA TotalNat ==
  ASSUME NEW len, len \in Nat, NEW u, u \in [1..len -> Nat]
  PROVE  Total(u, len) \in Nat
<1>1. PICK s : s \in [0..len -> Nat] /\ Total(u, len) = s[len]
  BY SumExists
<1> QED BY <1>1

LEMMA CountedNat ==
  ASSUME NEW f, f \in Seq(MrRules)
  PROVE  Counted(f) \in Nat
<1>1. PICK len : len = Len(f)
  OBVIOUS
<1>2. len \in Nat
  BY <1>1
<1>3. PICK w, l : w \in [1..len -> Nat] /\ l \in [1..len -> Nat] /\ Counted(f) = Total(w, len) + Total(l, len)
  BY <1>1, TotalsOf
<1>4. Total(w, len) \in Nat /\ Total(l, len) \in Nat
  BY <1>2, <1>3, TotalNat
<1> QED BY <1>3, <1>4

LEMMA MrDefaultCounted == Counted(MrDefault) \in Nat
BY DefaultRuled, CountedNat DEF Ruled

\* A configuration that is loaded and counts one outcome more.
LEMMA SoundStays ==
  ASSUME NEW f, NEW n \in Nat
  PROVE  /\ Sound(f, n) => Sound(f, n + 1) /\ f # NoFile /\ f # TornFile /\ load(f) = f
         /\ SavedFile(f, n) => SavedFile(f, n + 1)
         /\ \A c : Saving(c, n) => Saving(c, n + 1)
<1>1. ASSUME NEW g, Sound(g, n) PROVE Sound(g, n + 1) /\ g # NoFile /\ g # TornFile /\ load(g) = g
  <2>1. g # NoFile
    BY <1>1 DEF Sound, Ruled, NoFile
  <2>2. g # TornFile
    <3>1. g[1] \in MrRules
      BY <1>1, RuledPlaces DEF Sound
    <3>2. DOMAIN g[1] # DOMAIN TornFile[1]
      BY <3>1 DEF MrRules, TornFile
    <3> QED BY <3>2
  <2>3. Counted(MrDefault) \in Nat /\ Counted(g) \in Nat
    BY <1>1, CountedNat, MrDefaultCounted DEF Sound, Ruled
  <2>4. Counted(g) <= Counted(MrDefault) + 3 * (n + 1)
    BY <1>1, <2>3 DEF Sound
  <2> QED BY <1>1, <2>1, <2>2, <2>4 DEF Sound, load
<1> QED BY <1>1 DEF SavedFile, Saving

LEMMA LoadedSound ==
  ASSUME NEW f, NEW n \in Nat, SavedFile(f, n), f # TornFile, NEW o \in Outcomes \cup {<<>>}
  PROVE  Sound(load(f), n) /\ Sound(WithOutcome(f, o), n + 1)
<1>1. PICK g : g = load(f) /\ Sound(g, n)
  <2>1. Sound(MrDefault, n)
    BY DefaultRuled, MrDefaultCounted DEF Sound
  <2> QED BY <2>1, SoundStays DEF SavedFile, load
<1>2. CASE o = <<>>
  BY <1>1, <1>2, SoundStays DEF WithOutcome
<1>3. CASE o # <<>>
  <2>1. PICK e : e = record_outcome(g, o)
    OBVIOUS
  <2>2. Ruled(e) /\ Counted(g) \in Nat /\ Counted(e) \in Nat /\ Counted(e) <= Counted(g) + 3
    <3>1. Ruled(g) /\ o \in Outcomes
      BY <1>1, <1>3 DEF Sound
    <3> QED BY ONLY <2>1, <3>1, Recorded
  <2>3. Counted(e) <= Counted(MrDefault) + 3 * (n + 1)
    BY <1>1, <2>2, MrDefaultCounted DEF Sound
  <2> QED BY <1>1, <1>3, <2>1, <2>2, <2>3 DEF Sound, WithOutcome
<1> QED BY <1>2, <1>3

LEMMA RouterStarts == MetaInit => RouterInv
<1> SUFFICES ASSUME MetaInit PROVE RouterInv
  OBVIOUS
<1>1. /\ mrFile = NoFile /\ mrTmp = NoFile /\ mrDone = <<>> /\ mrOps = 0 /\ mrOverlap = FALSE
      /\ mrProc = [p \in MrProcs |-> MrIdle]
  BY DEF MetaInit
<1>2. mrDone \in Seq(Outcomes) /\ mrFile # TornFile
  BY <1>1 DEF NoFile, TornFile
<1>3. load(mrFile) = Replayed
  BY <1>1, ReplayEmpty DEF load, Replayed
<1>4. \A p \in MrProcs : mrProc[p] = MrIdle
  BY <1>1
<1> QED BY <1>1, <1>2, <1>3, <1>4 DEF RouterInv, OneAtATime, SavedFile

LEMMA RouterStep ==
  ASSUME RouterInv, MetaNext \/ UNCHANGED mrVars
  PROVE  RouterInv'
<1>0. /\ mrOps \in Nat /\ mrDone \in Seq(Outcomes) /\ DOMAIN mrProc = MrProcs
      /\ SavedFile(mrFile, mrOps) /\ SavedFile(mrTmp, mrOps)
      /\ \A p \in MrProcs : mrProc[p] = MrIdle \/ Saving(mrProc[p], mrOps)
      /\ ~mrOverlap => OneAtATime
  BY DEF RouterInv
<1>1. CASE UNCHANGED mrVars
  BY <1>1 DEF mrVars, RouterInv, OneAtATime, Replayed
<1>2. ASSUME NEW p \in MrProcs, NEW o \in Outcomes \cup {<<>>}, MetaStart(p, o) PROVE RouterInv'
  <2>1. PICK c : c = [at |-> "truncate", cfg |-> WithOutcome(mrFile, o), o |-> o]
    OBVIOUS
  <2>2. /\ mrProc[p] = MrIdle /\ mrFile # TornFile /\ mrOps' = mrOps + 1
        /\ mrProc' = [mrProc EXCEPT ![p] = c]
        /\ mrOverlap' = (mrOverlap \/ \E q \in MrProcs : mrProc[q] # MrIdle)
        /\ mrFile' = mrFile /\ mrTmp' = mrTmp /\ mrDone' = mrDone
    BY <1>2, <2>1 DEF MetaStart, WithOutcome
  <2>3. c.at = "truncate" /\ c.cfg = WithOutcome(mrFile, o) /\ c.o = o
    BY <2>1
  <2>4. Saving(c, mrOps + 1)
    <3>1. Sound(WithOutcome(mrFile, o), mrOps + 1)
      BY <1>0, <2>2, LoadedSound
    <3> QED BY <2>1, <2>3, <3>1 DEF Saving
  <2>5. /\ \A q \in MrProcs : q # p => mrProc'[q] = mrProc[q]
        /\ mrProc'[p] = c /\ DOMAIN mrProc' = MrProcs
    BY <1>0, <2>2
  <2>6. /\ SavedFile(mrFile', mrOps') /\ SavedFile(mrTmp', mrOps')
        /\ \A q \in MrProcs : mrProc'[q] = MrIdle \/ Saving(mrProc'[q], mrOps')
    BY <1>0, <2>2, <2>4, <2>5, SoundStays
  <2>7. ASSUME ~mrOverlap' PROVE OneAtATime'
    <3>1. OneAtATime /\ \A q \in MrProcs : mrProc[q] = MrIdle
      BY <1>0, <2>2, <2>7
    <3>2. \A q \in MrProcs : q # p => mrProc'[q] = MrIdle
      BY <2>5, <3>1
    <3>3. mrFile' # TornFile /\ load(mrFile') = Replayed'
      BY <2>2, <3>1 DEF OneAtATime, Replayed
    <3>4. \A q \in MrProcs : mrProc'[q] # MrIdle =>
             /\ mrProc'[q].cfg = WithOutcome(mrFile', mrProc'[q].o)
             /\ mrProc'[q].at = "rename" => mrTmp' = mrProc'[q].cfg
      BY <2>2, <2>3, <2>5, <3>2
    <3> QED BY <3>2, <3>3, <3>4 DEF OneAtATime
  <2>8. mrOps' \in Nat /\ mrDone' \in Seq(Outcomes)
    BY <1>0, <2>2
  <2> QED BY <2>5, <2>6, <2>7, <2>8 DEF RouterInv
<1>3. ASSUME NEW p \in MrProcs, MetaWrite(p) PROVE RouterInv'
  <2>1. PICK a, c, e : /\ c = mrProc[p] /\ e = [c EXCEPT !.at = a]
                       /\ c.at # "idle" /\ mrProc' = [mrProc EXCEPT ![p].at = a]
                       /\ \/ a = "fill" /\ mrTmp' = TornFile
                          \/ a = "rename" /\ mrTmp' = c.cfg
    BY <1>3 DEF MetaWrite
  <2>2. UNCHANGED <<mrFile, mrDone, mrOps, mrOverlap>>
    BY <1>3 DEF MetaWrite
  <2>3. c # MrIdle /\ Saving(c, mrOps)
    BY <1>0, <2>1 DEF MrIdle
  <2>4. e.at = a /\ e.cfg = c.cfg /\ e.o = c.o /\ e = [at |-> a, cfg |-> c.cfg, o |-> c.o] /\ e # MrIdle
    BY <2>1, <2>3 DEF Saving, MrIdle
  <2>5. Saving(e, mrOps) /\ Sound(c.cfg, mrOps)
    BY <2>1, <2>3, <2>4 DEF Saving
  <2>6. /\ \A q \in MrProcs : q # p => mrProc'[q] = mrProc[q]
        /\ mrProc'[p] = e /\ DOMAIN mrProc' = MrProcs
    BY <1>0, <2>1
  <2>7. SavedFile(mrFile', mrOps') /\ SavedFile(mrTmp', mrOps')
    BY <1>0, <2>1, <2>2, <2>5 DEF SavedFile
  <2>8. \A q \in MrProcs : mrProc'[q] = MrIdle \/ Saving(mrProc'[q], mrOps')
    BY <1>0, <2>2, <2>5, <2>6
  <2>9. ASSUME ~mrOverlap' PROVE OneAtATime'
    <3>1. OneAtATime
      BY <1>0, <2>2, <2>9
    <3>2. \A q \in MrProcs : q # p => mrProc[q] = MrIdle
      BY <2>1, <2>3, <3>1 DEF OneAtATime
    <3>3. mrFile' # TornFile /\ load(mrFile') = Replayed'
      BY <2>2, <3>1 DEF OneAtATime, Replayed
    <3>4. \A q \in MrProcs : q # p => mrProc'[q] = MrIdle
      BY <2>6, <3>2
    <3>5. e.cfg = WithOutcome(mrFile', e.o)
      BY <2>1, <2>2, <2>3, <2>4, <3>1 DEF OneAtATime
    <3>6. e.at = "rename" => mrTmp' = e.cfg
      BY <2>1, <2>4
    <3> QED BY <2>6, <3>3, <3>4, <3>5, <3>6 DEF OneAtATime
  <2> QED BY <1>0, <2>2, <2>6, <2>7, <2>8, <2>9 DEF RouterInv
<1>4. ASSUME NEW p \in MrProcs, MetaRename(p) PROVE RouterInv'
  <2>1. PICK c : c = mrProc[p] /\ c.at = "rename" /\ c # MrIdle /\ Saving(c, mrOps)
    BY <1>0, <1>4 DEF MetaRename, MrIdle
  <2>2. mrProc' = [mrProc EXCEPT ![p] = MrIdle] /\ UNCHANGED <<mrOps, mrOverlap>>
    BY <1>4 DEF MetaRename
  <2>3. /\ \A q \in MrProcs : q # p => mrProc'[q] = mrProc[q]
        /\ mrProc'[p] = MrIdle /\ DOMAIN mrProc' = MrProcs
    BY <1>0, <2>2
  <2>4. \A q \in MrProcs : mrProc'[q] = MrIdle \/ Saving(mrProc'[q], mrOps')
    BY <1>0, <2>2, <2>3
  <2>5. CASE mrTmp = NoFile
    <3>1. UNCHANGED <<mrFile, mrTmp, mrDone>>
      BY <1>4, <2>5 DEF MetaRename
    <3>2. mrOverlap
      BY <1>0, <2>1, <2>5, SoundStays DEF OneAtATime, Saving
    <3> QED BY <1>0, <2>2, <2>3, <2>4, <3>1, <3>2 DEF RouterInv
  <2>6. CASE mrTmp # NoFile
    <3>1. /\ mrFile' = mrTmp /\ mrTmp' = NoFile
          /\ mrDone' = IF c.o = <<>> THEN mrDone ELSE Append(mrDone, c.o)
      BY <1>4, <2>1, <2>6 DEF MetaRename
    <3>2. c.o = <<>> \/ c.o \in Outcomes
      BY <2>1 DEF Saving
    <3>3. mrDone' \in Seq(Outcomes)
      BY <1>0, <3>1, <3>2
    <3>4. SavedFile(mrFile', mrOps') /\ SavedFile(mrTmp', mrOps')
      BY <1>0, <2>2, <3>1 DEF SavedFile
    <3>5. ASSUME ~mrOverlap' PROVE OneAtATime'
      <4>1. OneAtATime
        BY <1>0, <2>2, <3>5
      <4>2. \A q \in MrProcs : mrProc'[q] = MrIdle
        BY <2>1, <2>3, <4>1 DEF OneAtATime
      <4>3. mrFile' = c.cfg /\ c.cfg = WithOutcome(mrFile, c.o) /\ load(mrFile) = Replayed
        BY <2>1, <3>1, <4>1 DEF OneAtATime
      <4>4. load(mrFile') = mrFile' /\ mrFile' # TornFile
        BY <1>0, <2>1, <4>3, SoundStays DEF Saving
      <4>5. Replayed' = WithOutcome(mrFile, c.o)
        <5>1. CASE c.o = <<>>
          BY <3>1, <4>3, <5>1 DEF WithOutcome, Replayed
        <5>2. CASE c.o # <<>>
          <6>1. PICK e : e = mrDone' /\ e = Append(mrDone, c.o) /\ c.o \in Outcomes
            BY <3>1, <3>2, <5>2
          <6>2. Replay(e)[Len(e)] = record_outcome(Replay(mrDone)[Len(mrDone)], c.o)
            BY ONLY <1>0, <6>1, ReplayAdded
          <6> QED BY <4>3, <5>2, <6>1, <6>2 DEF WithOutcome, Replayed
        <5> QED BY <5>1, <5>2
      <4> QED BY <4>2, <4>3, <4>4, <4>5 DEF OneAtATime
    <3> QED BY <1>0, <2>2, <2>3, <2>4, <3>3, <3>4, <3>5 DEF RouterInv
  <2> QED BY <2>5, <2>6
<1>5. ASSUME NEW p \in MrProcs, MetaCrash(p) PROVE RouterInv'
  <2>1. mrProc' = [mrProc EXCEPT ![p] = MrIdle] /\ UNCHANGED <<mrFile, mrTmp, mrDone, mrOps, mrOverlap>>
    BY <1>5 DEF MetaCrash
  <2>2. /\ \A q \in MrProcs : q # p => mrProc'[q] = mrProc[q]
        /\ mrProc'[p] = MrIdle /\ DOMAIN mrProc' = MrProcs
    BY <1>0, <2>1
  <2>3. ASSUME ~mrOverlap' PROVE OneAtATime'
    BY <1>0, <2>1, <2>2, <2>3 DEF OneAtATime, Replayed
  <2>4. \A q \in MrProcs : mrProc'[q] = MrIdle \/ Saving(mrProc'[q], mrOps')
    BY <1>0, <2>1, <2>2
  <2> QED BY <1>0, <2>1, <2>2, <2>3, <2>4 DEF RouterInv
<1> QED BY <1>1, <1>2, <1>3, <1>4, <1>5 DEF MetaNext

LEMMA RouterInvKeeps ==
  ASSUME RouterInv
  PROVE  OutcomesAreKept /\ NothingCountedTwice
<1>1. OutcomesAreKept
  BY DEF RouterInv, OneAtATime, OutcomesAreKept
<1>2. ASSUME mrFile \notin {NoFile, TornFile}
      PROVE  /\ total_wins(mrFile) + total_losses(mrFile) <= total_wins(MrDefault) + total_losses(MrDefault) + 3 * mrOps
             /\ \A i, j \in DOMAIN mrFile : <<mrFile[i].shape, mrFile[i].model>> = <<mrFile[j].shape, mrFile[j].model>> => i = j
  <2>1. Sound(mrFile, mrOps)
    BY <1>2 DEF RouterInv, SavedFile
  <2>2. DOMAIN mrFile = 1..Len(mrFile)
    BY <2>1, RuledPlaces DEF Sound
  <2> QED BY <2>1, <2>2 DEF Sound, Ruled, Counted
<1> QED BY <1>1, <1>2 DEF NothingCountedTwice

\* While no two calls overlapped, router.toml holds exactly the outcomes whose
\* calls returned, whatever crashes cut a save; and however calls overlapped, it
\* lists no rule twice and counts no outcome twice.
THEOREM RouterNeverForgets == Spec => []RouterRemembers
<1>1. Init => RouterInv
  BY RouterStarts DEF Init
<1>2. RouterInv /\ [Next]_vars => RouterInv'
  BY OneComponentMoves, RouterStep
<1>3. RouterInv => RouterRemembers
  BY RouterInvKeeps DEF RouterRemembers
<1> QED BY <1>1, <1>2, <1>3, PTL DEF Spec

-----------------------------------------------------------------------------
(* Learning: a call rewards its shard last, and an accepted one right after *)
(* it wrote its row.                                                        *)
Statements ==
    [op : {"context", "route", "row", "kind", "bandit", "accepted"}, name : LnShards \cup LnContexts \cup LnKinds, hit : BOOLEAN]
Call(c) ==
    /\ c \in Seq(Statements)
    /\ \A k \in 1..Len(c) :
          /\ c[k].op \in {"bandit", "accepted"} => c[k].name \in LnShards
          /\ c[k].op = "kind" => c[k].name \in LnKinds
          /\ c[k].op \in {"context", "route"} => c[k].name \in LnContexts
          /\ c[k].op = "accepted" => k = Len(c) /\ (k > 1 => c[k - 1].op = "row")
          /\ c[k].op = "row" => k = Len(c) - 1 /\ c[k + 1].op = "accepted"
OwesReward(c) == Len(c) = 1 /\ c[1].op = "accepted"
Owing == {p \in LnProcs : OwesReward(lnCall[p])}

Balanced(row, given) ==
    /\ row \in [wins : Nat, losses : Nat] /\ given \in [wins : Nat, losses : Nat]
    /\ IF given.wins + given.losses = 0 THEN row = NoRow
       ELSE /\ row.wins + row.losses = given.wins + given.losses + 1
            /\ row.wins - 1 \in {given.wins - 1, given.wins}

RewardInv ==
    /\ lnBandit = [s \in LnShards |-> lnBandit[s]] /\ lnGiven = [s \in LnShards |-> lnGiven[s]]
    /\ \A s \in LnShards : Balanced(lnBandit[s], lnGiven[s])
    /\ lnCall = [p \in LnProcs |-> lnCall[p]] /\ \A p \in LnProcs : Call(lnCall[p])
    /\ lnRows \in Nat /\ lnAccepted \in Nat /\ lnKilled \in Nat
    /\ lnAccepted + Cardinality(Owing) <= lnRows
    /\ lnRows <= lnAccepted + Cardinality(Owing) + lnKilled

LEMMA OwingFacts ==
  ASSUME NEW P, P \subseteq LnProcs
  PROVE  IsFiniteSet(P) /\ Cardinality(P) \in Nat
BY LearnAssumption, FS_Subset, FS_CardinalityType

LEMMA EmptyCall ==
  Call(<<>>) /\ ~OwesReward(<<>>)
<1>1. <<>> \in Seq(Statements) /\ Len(<<>>) = 0
  OBVIOUS
<1> QED BY <1>1 DEF Call, OwesReward

LEMMA RewardInit ==
  ASSUME LearnInit
  PROVE  RewardInv
<1>1. /\ lnBandit = [s \in LnShards |-> NoRow] /\ lnGiven = [s \in LnShards |-> NoRow]
      /\ lnCall = [p \in LnProcs |-> <<>>] /\ lnRows = 0 /\ lnAccepted = 0 /\ lnKilled = 0
  BY DEF LearnInit
<1>2. Balanced(NoRow, NoRow)
  BY DEF Balanced, NoRow
<1>3. \A p \in LnProcs : Call(lnCall[p]) /\ ~OwesReward(lnCall[p])
  BY <1>1, EmptyCall
<1>4. Owing = {}
  BY <1>3 DEF Owing
<1>5. Cardinality(Owing) = 0
  BY <1>4, FS_EmptySet
<1>6. lnBandit = [s \in LnShards |-> lnBandit[s]] /\ lnGiven = [s \in LnShards |-> lnGiven[s]] /\ lnCall = [p \in LnProcs |-> lnCall[p]]
  BY <1>1
<1>7. \A s \in LnShards : Balanced(lnBandit[s], lnGiven[s])
  BY <1>1, <1>2
<1> QED BY <1>1, <1>3, <1>5, <1>6, <1>7 DEF RewardInv

LEMMA RewardBalances ==
  ASSUME NEW row, NEW given, Balanced(row, given), NEW hit \in BOOLEAN, NEW more, more = Tallied(given, hit)
  PROVE  Balanced(Rewarded(row, hit), more)
<1>1. /\ row \in [wins : Nat, losses : Nat] /\ given \in [wins : Nat, losses : Nat]
  BY DEF Balanced
<1>2. more = [wins |-> IF hit THEN given.wins + 1 ELSE given.wins, losses |-> IF hit THEN given.losses ELSE given.losses + 1]
  BY <1>1 DEF Tallied
<1>3. more \in [wins : Nat, losses : Nat] /\ more.wins + more.losses = given.wins + given.losses + 1
      /\ more.wins \in {given.wins, given.wins + 1} /\ (hit <=> more.wins = given.wins + 1)
  BY <1>1, <1>2
<1>4. CASE row = NoRow
  <2>1. given.wins + given.losses = 0
    BY <1>1, <1>4 DEF Balanced, NoRow
  <2>2. given.wins = 0 /\ given.losses = 0
    BY <1>1, <2>1
  <2>3. Rewarded(row, hit) = [wins |-> 1, losses |-> 1]
    BY <1>4 DEF Rewarded
  <2> QED BY <1>3, <2>2, <2>3 DEF Balanced
<1>5. CASE row # NoRow
  <2>1. /\ given.wins + given.losses # 0 /\ row.wins + row.losses = given.wins + given.losses + 1
        /\ row.wins - 1 \in {given.wins - 1, given.wins}
    BY <1>5 DEF Balanced
  <2>2. Rewarded(row, hit) = [wins |-> IF hit THEN row.wins + 1 ELSE row.wins, losses |-> IF hit THEN row.losses ELSE row.losses + 1]
    BY <1>1, <1>5 DEF Rewarded, Tallied
  <2>3. PICK r : r = Rewarded(row, hit)
    OBVIOUS
  <2>4. /\ r \in [wins : Nat, losses : Nat] /\ r.wins + r.losses = row.wins + row.losses + 1
        /\ r.wins = IF hit THEN row.wins + 1 ELSE row.wins
    BY <1>1, <2>2, <2>3
  <2> QED BY <1>1, <1>3, <2>1, <2>3, <2>4 DEF Balanced
<1> QED BY <1>4, <1>5

(* What a process that starts, continues or dies does to those that owe.    *)
LEMMA OwingChanges ==
  ASSUME NEW p \in LnProcs, NEW c, lnCall' = [lnCall EXCEPT ![p] = c], lnCall = [q \in LnProcs |-> lnCall[q]]
  PROVE  /\ OwesReward(c) /\ ~OwesReward(lnCall[p]) => Cardinality(Owing') = Cardinality(Owing) + 1
         /\ ~OwesReward(c) /\ OwesReward(lnCall[p]) => Cardinality(Owing') = Cardinality(Owing) - 1
         /\ (OwesReward(c) <=> OwesReward(lnCall[p])) => Owing' = Owing
<1>1. lnCall'[p] = c /\ \A q \in LnProcs : q # p => lnCall'[q] = lnCall[q]
  OBVIOUS
<1>2. IsFiniteSet(Owing) /\ Cardinality(Owing) \in Nat
  BY OwingFacts DEF Owing
<1>3. Owing' = {q \in LnProcs : IF q = p THEN OwesReward(c) ELSE OwesReward(lnCall[q])}
  BY <1>1 DEF Owing
<1>4. p \in Owing <=> OwesReward(lnCall[p])
  BY DEF Owing
<1>5. ASSUME OwesReward(c), ~OwesReward(lnCall[p]) PROVE Cardinality(Owing') = Cardinality(Owing) + 1
  <2>1. Owing' = Owing \cup {p} /\ p \notin Owing
    BY <1>3, <1>4, <1>5 DEF Owing
  <2> QED BY <1>2, <2>1, FS_AddElement
<1>6. ASSUME ~OwesReward(c), OwesReward(lnCall[p]) PROVE Cardinality(Owing') = Cardinality(Owing) - 1
  <2>1. Owing' = Owing \ {p} /\ p \in Owing
    BY <1>3, <1>4, <1>6 DEF Owing
  <2> QED BY <1>2, <2>1, FS_RemoveElement
<1>7. (OwesReward(c) <=> OwesReward(lnCall[p])) => Owing' = Owing
  BY <1>3 DEF Owing
<1> QED BY <1>5, <1>6, <1>7

LEMMA CallGoesOn ==
  ASSUME NEW c, Call(c), c # <<>>
  PROVE  /\ Call(Tail(c)) /\ Head(c) \in Statements
         /\ Head(c) = c[1]
         /\ Head(c).op \in {"bandit", "accepted"} => Head(c).name \in LnShards
         /\ Head(c).op = "accepted" <=> OwesReward(c)
         /\ Head(c).op = "row" <=> OwesReward(Tail(c))
         /\ ~(OwesReward(c) /\ OwesReward(Tail(c)))
<1>1. c \in Seq(Statements) /\ Len(c) \in Nat /\ Len(c) > 0 /\ Head(c) = c[1] /\ 1 \in 1..Len(c)
  BY DEF Call
<1>2. PICK t, n : t = Tail(c) /\ n = Len(c)
  OBVIOUS
<1>3. n \in Nat /\ t \in Seq(Statements) /\ Len(t) = n - 1 /\ \A k \in 1..(n - 1) : t[k] = c[k + 1]
  BY <1>1, <1>2
<1>4. ASSUME NEW k \in 1..n
      PROVE  /\ c[k].op \in {"bandit", "accepted"} => c[k].name \in LnShards
             /\ c[k].op = "kind" => c[k].name \in LnKinds
             /\ c[k].op \in {"context", "route"} => c[k].name \in LnContexts
             /\ c[k].op = "accepted" => k = n /\ (k > 1 => c[k - 1].op = "row")
             /\ c[k].op = "row" => k = n - 1 /\ c[k + 1].op = "accepted"
  BY <1>2 DEF Call
<1>5. ASSUME NEW k \in 1..(n - 1)
      PROVE  /\ t[k].op \in {"bandit", "accepted"} => t[k].name \in LnShards
             /\ t[k].op = "kind" => t[k].name \in LnKinds
             /\ t[k].op \in {"context", "route"} => t[k].name \in LnContexts
             /\ t[k].op = "accepted" => k = n - 1 /\ (k > 1 => t[k - 1].op = "row")
             /\ t[k].op = "row" => k = (n - 1) - 1 /\ t[k + 1].op = "accepted"
  <2>1. k + 1 \in 1..n /\ t[k] = c[k + 1]
    BY <1>3
  <2>2. t[k].op = "accepted" => k = n - 1 /\ (k > 1 => t[k - 1].op = "row")
    <3> SUFFICES ASSUME c[k + 1].op = "accepted" PROVE k = n - 1 /\ (k > 1 => t[k - 1].op = "row")
      BY <2>1
    <3>1. k + 1 = n /\ c[(k + 1) - 1].op = "row"
      BY <1>4, <2>1
    <3>2. k > 1 => k - 1 \in 1..(n - 1) /\ (k - 1) + 1 = k
      BY <1>3
    <3>3. k > 1 => t[k - 1] = c[k]
      BY <1>3, <3>2
    <3> QED BY <3>1, <3>3
  <2>3. t[k].op = "row" => k = (n - 1) - 1 /\ t[k + 1].op = "accepted"
    <3> SUFFICES ASSUME c[k + 1].op = "row" PROVE k = (n - 1) - 1 /\ t[k + 1].op = "accepted"
      BY <2>1
    <3>1. k + 1 = n - 1 /\ c[(k + 1) + 1].op = "accepted"
      BY <1>4, <2>1
    <3>2. k + 1 \in 1..(n - 1)
      BY <3>1
    <3>3. t[k + 1] = c[(k + 1) + 1]
      BY <1>3, <3>2
    <3> QED BY <3>1, <3>3
  <2> QED BY <1>4, <2>1, <2>2, <2>3
<1>6. Call(t)
  BY <1>3, <1>5 DEF Call
<1>7. Head(c).op = "accepted" <=> OwesReward(c)
  BY <1>1, <1>2, <1>4 DEF OwesReward
<1>8. Head(c).op = "row" <=> OwesReward(t)
  <2>1. ASSUME c[1].op = "row" PROVE OwesReward(t)
    <3>1. n = 2 /\ c[2].op = "accepted"
      BY <1>1, <1>2, <1>4, <2>1
    <3> QED BY <1>3, <3>1 DEF OwesReward
  <2>2. ASSUME OwesReward(t) PROVE c[1].op = "row"
    <3>0. Len(t) = 1 /\ t[1].op = "accepted"
      BY <2>2 DEF OwesReward
    <3>1. n = 2 /\ t[1].op = "accepted"
      <4>1. PICK m : m = Len(t)
        OBVIOUS
      <4>2. n \in Nat /\ m = n - 1
        BY <1>3, <4>1
      <4>3. m = 1
        BY <3>0, <4>1
      <4>4. n = 2
        BY ONLY <4>2, <4>3
      <4> QED BY <3>0, <4>4
    <3>2. t[1] = c[2] /\ 2 \in 1..n
      BY <1>3, <3>1
    <3>3. c[2 - 1].op = "row"
      BY <1>4, <3>1, <3>2
    <3> QED BY <3>3
  <2> QED BY <1>1, <2>1, <2>2
<1>9. Head(c).op \in {"bandit", "accepted"} => Head(c).name \in LnShards
  BY <1>1, <1>2, <1>4
<1>10. Head(c) \in Statements
  BY <1>1
<1>11. ~(OwesReward(c) /\ OwesReward(t))
  BY <1>7, <1>8
<1> QED BY <1>1, <1>2, <1>6, <1>7, <1>8, <1>9, <1>10, <1>11

LEMMA StatementOf ==
  ASSUME NEW op \in {"context", "route", "row", "kind", "bandit", "accepted"}, NEW name \in LnShards \cup LnContexts \cup LnKinds,
         NEW hit \in BOOLEAN, NEW x, x = [op |-> op, name |-> name, hit |-> hit]
  PROVE  x \in Statements /\ x.op = op /\ x.name = name
BY DEF Statements

LEMMA ListOf ==
  ASSUME NEW n \in Nat, NEW S, NEW c, c = [k \in 1..n |-> c[k]], \A k \in 1..n : c[k] \in S
  PROVE  c \in Seq(S) /\ Len(c) = n
<1>1. c \in [1..n -> S]
  OBVIOUS
<1> QED BY <1>1

LEMMA AcceptIsCall ==
  ASSUME NEW context \in LnContexts \cup {"free"}, NEW s \in LnShards, NEW c, c = record_accept(context, s)
  PROVE  Call(c) /\ ~OwesReward(c)
<1>1. PICK x, y : x = [op |-> "row", name |-> s, hit |-> TRUE] /\ y = [op |-> "accepted", name |-> s, hit |-> TRUE]
  OBVIOUS
<1>2. x \in Statements /\ y \in Statements /\ x.op = "row" /\ y.op = "accepted" /\ y.name = s
  BY <1>1, StatementOf
<1>3. CASE context \notin LnContexts
  <2>1. c = <<>> \o <<x, y>>
    BY <1>1, <1>3 DEF record_accept
  <2>2. c = <<x, y>>
    BY <1>2, <2>1
  <2>3. c \in Seq(Statements) /\ Len(c) = 2 /\ c[1] = x /\ c[2] = y
    BY <1>2, <2>2
  <2>4. \A k \in 1..2 : k = 1 \/ k = 2
    OBVIOUS
  <2> QED BY <1>2, <2>3, <2>4 DEF Call, OwesReward
<1>4. CASE context \in LnContexts
  <2>1. PICK u, v : u = [op |-> "context", name |-> context, hit |-> TRUE] /\ v = [op |-> "route", name |-> context, hit |-> TRUE]
    OBVIOUS
  <2>2. u \in Statements /\ v \in Statements /\ u.op = "context" /\ v.op = "route" /\ u.name = context /\ v.name = context
    BY <1>4, <2>1, StatementOf
  <2>3. c = <<u, v>> \o <<x, y>>
    BY <1>1, <1>4, <2>1 DEF record_accept
  <2>4. <<u, v>> \in Seq(Statements) /\ <<x, y>> \in Seq(Statements)
    BY <1>2, <2>2
  <2>5. c \in Seq(Statements) /\ Len(c) = 4
    BY <2>3, <2>4
  <2>6. c[1] = u /\ c[2] = v /\ c[3] = x /\ c[4] = y
    BY <2>3, <2>4
  <2>7. \A k \in 1..4 : k = 1 \/ k = 2 \/ k = 3 \/ k = 4
    OBVIOUS
  <2> QED BY <1>2, <1>4, <2>2, <2>5, <2>6, <2>7 DEF Call, OwesReward
<1> QED BY <1>3, <1>4

LEMMA SweepIsCall ==
  ASSUME NEW s \in LnShards, NEW c, c = sweep_unaccepted(s)
  PROVE  Call(c) /\ ~OwesReward(c)
<1>1. CASE c = <<>>
  BY <1>1, EmptyCall
<1>2. CASE c = <<[op |-> "bandit", name |-> s, hit |-> FALSE]>>
  <2>1. PICK x : x = [op |-> "bandit", name |-> s, hit |-> FALSE]
    OBVIOUS
  <2>2. x \in Statements /\ x.op = "bandit" /\ x.name = s
    BY <2>1, StatementOf
  <2>3. c = <<x>>
    BY <1>2, <2>1
  <2>4. c \in Seq(Statements) /\ Len(c) = 1 /\ c[1] = x
    BY <2>2, <2>3
  <2> QED BY <2>2, <2>4 DEF Call, OwesReward
<1> QED BY <1>1, <1>2 DEF sweep_unaccepted

LEMMA ListedSet ==
  ASSUME NEW S, IsFiniteSet(S)
  PROVE  SetToSeq(S) \in [1..Cardinality(S) -> S]
<1>1. PICK n \in Nat : n = Cardinality(S)
  BY FS_CardinalityType
<1>2. ExistsBijection(1..n, S)
  BY <1>1, FS_CardinalityType
<1>3. PICK f \in [1..n -> S] : IsInjective(f)
  <2>1. PICK f \in Bijection(1..n, S) : TRUE
    BY <1>2 DEF ExistsBijection
  <2> QED BY <2>1, Zenon DEF Bijection, Injection
<1> QED BY <1>1, <1>3, Zenon DEF SetToSeq

LEMMA ContextIsCall ==
  ASSUME NEW ks \in SUBSET LnKinds, NEW h \in BOOLEAN, NEW s \in LnShards, NEW c, c = record_ctx_reward(SetToSeq(ks), h, s)
  PROVE  Call(c) /\ ~OwesReward(c)
<1>1. IsFiniteSet(ks)
  BY LearnAssumption, FS_Subset
<1>2. PICK f, n : f = SetToSeq(ks) /\ n = Cardinality(ks)
  OBVIOUS
<1>3. n \in Nat /\ f \in [1..n -> ks]
  BY <1>1, <1>2, ListedSet, FS_CardinalityType
<1>4. Len(f) = n /\ \A i \in 1..n : f[i] \in LnKinds
  BY <1>3
<1>5. PICK x, z : x = [i \in 1..n |-> [op |-> "kind", name |-> f[i], hit |-> h]] /\ z = [op |-> "bandit", name |-> s, hit |-> h]
  OBVIOUS
<1>6. z \in Statements /\ z.op = "bandit" /\ z.name = s
  BY <1>5, StatementOf
<1>7. ASSUME NEW i \in 1..n PROVE x[i] \in Statements /\ x[i].op = "kind" /\ x[i].name = f[i]
  <2>1. PICK y : y = [op |-> "kind", name |-> f[i], hit |-> h]
    OBVIOUS
  <2>2. y \in Statements /\ y.op = "kind" /\ y.name = f[i]
    BY <1>4, <2>1, StatementOf
  <2> QED BY <1>5, <2>1, <2>2
<1>8. x \in Seq(Statements) /\ Len(x) = n
  <2>1. x = [i \in 1..n |-> x[i]]
    BY <1>5
  <2> QED BY <1>3, <1>7, <2>1, ListOf
<1>9. c = x \o <<z>>
  BY <1>2, <1>4, <1>5 DEF record_ctx_reward
<1>10. c \in Seq(Statements) /\ Len(c) = n + 1 /\ c[n + 1] = z /\ \A i \in 1..n : c[i] = x[i]
  BY <1>3, <1>6, <1>8, <1>9
<1>11. \A k \in 1..(n + 1) : k = n + 1 \/ k \in 1..n
  BY <1>3
<1>12. ASSUME NEW k \in 1..(n + 1) PROVE (c[k].op = "bandit" /\ c[k].name = s) \/ (c[k].op = "kind" /\ c[k].name \in LnKinds)
  <2>1. CASE k = n + 1
    BY <1>6, <1>10, <2>1
  <2>2. CASE k \in 1..n
    BY <1>4, <1>7, <1>10, <2>2
  <2> QED BY <1>11, <2>1, <2>2
<1>13. Call(c)
  BY <1>10, <1>12 DEF Call
<1>14. ~OwesReward(c)
  BY <1>10, <1>12 DEF OwesReward
<1> QED BY <1>13, <1>14

NewCalls(s) ==
    {record_accept(c, s) : c \in LnContexts \cup {"free"}}
    \cup {record_ctx_reward(SetToSeq(ks), h, s) : ks \in SUBSET LnKinds, h \in BOOLEAN}
    \cup {sweep_unaccepted(s)}

LEMMA RewardStep ==
  ASSUME RewardInv, LearnNext \/ UNCHANGED lnVars
  PROVE  RewardInv'
<1>1. CASE UNCHANGED lnBase
  <2>1. UNCHANGED <<lnBandit, lnGiven, lnCall, lnRows, lnAccepted, lnKilled>>
    BY <1>1 DEF lnBase
  <2> QED BY <2>1 DEF RewardInv, Owing
<1>2. IsFiniteSet(Owing) /\ Cardinality(Owing) \in Nat
  BY OwingFacts DEF Owing
<1>3. ASSUME NEW p \in LnProcs, LearnStart(p) PROVE RewardInv'
  <2>0. PICK s \in LnShards : lnCall' \in {[lnCall EXCEPT ![p] = c] : c \in NewCalls(s)}
    BY <1>3 DEF LearnStart, NewCalls
  <2>1. PICK c \in NewCalls(s) : lnCall' = [lnCall EXCEPT ![p] = c]
    BY <2>0
  <2>2. Call(c) /\ ~OwesReward(c)
    BY <2>1, AcceptIsCall, ContextIsCall, SweepIsCall DEF NewCalls
  <2>3. lnCall[p] = <<>> /\ ~OwesReward(lnCall[p]) /\ UNCHANGED <<lnBandit, lnGiven, lnRows, lnAccepted, lnKilled>>
    BY <1>3, EmptyCall DEF LearnStart
  <2>4. lnCall = [q \in LnProcs |-> lnCall[q]]
    BY DEF RewardInv
  <2>5. Owing' = Owing
    BY <2>1, <2>2, <2>3, <2>4, OwingChanges
  <2>6. lnCall' = [q \in LnProcs |-> lnCall'[q]] /\ \A q \in LnProcs : lnCall'[q] = c \/ lnCall'[q] = lnCall[q]
    BY <2>1, <2>4
  <2> QED BY <2>2, <2>3, <2>5, <2>6 DEF RewardInv
<1>4. ASSUME NEW p \in LnProcs, LearnKill(p) PROVE RewardInv'
  <2>1. lnCall' = [lnCall EXCEPT ![p] = <<>>] /\ lnKilled' = lnKilled + 1 /\ UNCHANGED <<lnBandit, lnGiven, lnRows, lnAccepted>>
    BY <1>4 DEF LearnKill
  <2>2. lnCall = [q \in LnProcs |-> lnCall[q]] /\ lnKilled \in Nat /\ lnRows \in Nat /\ lnAccepted \in Nat
        /\ lnAccepted + Cardinality(Owing) <= lnRows /\ lnRows <= lnAccepted + Cardinality(Owing) + lnKilled
    BY DEF RewardInv
  <2>3. Cardinality(Owing') = Cardinality(Owing) \/ Cardinality(Owing') = Cardinality(Owing) - 1
    BY <2>1, <2>2, EmptyCall, OwingChanges
  <2>4. Cardinality(Owing') \in Nat
    BY OwingFacts DEF Owing
  <2>5. lnCall' = [q \in LnProcs |-> lnCall'[q]] /\ \A q \in LnProcs : lnCall'[q] = <<>> \/ lnCall'[q] = lnCall[q]
    BY <2>1, <2>2
  <2>6. \A q \in LnProcs : Call(lnCall'[q])
    BY <2>5, EmptyCall DEF RewardInv
  <2>7. /\ lnKilled' \in Nat /\ lnAccepted' + Cardinality(Owing') <= lnRows'
        /\ lnRows' <= lnAccepted' + Cardinality(Owing') + lnKilled'
    BY <1>2, <2>1, <2>2, <2>3, <2>4
  <2> QED BY <2>1, <2>2, <2>5, <2>6, <2>7 DEF RewardInv
<1>5. ASSUME NEW p \in LnProcs, LearnStatement(p) PROVE RewardInv'
  <2>1. PICK c, st : c = lnCall[p] /\ st = Head(c)
    OBVIOUS
  <2>2. Call(c) /\ c # <<>>
    BY <1>5, <2>1 DEF RewardInv, LearnStatement
  <2>3. /\ Call(Tail(c)) /\ st \in Statements
        /\ st.op \in {"bandit", "accepted"} => st.name \in LnShards
        /\ st.op = "accepted" <=> OwesReward(c)
        /\ st.op = "row" <=> OwesReward(Tail(c))
    BY <2>1, <2>2, CallGoesOn
  <2>4. /\ lnCall' = [lnCall EXCEPT ![p] = Tail(c)]
        /\ lnAccepted' = lnAccepted + (IF st.op = "accepted" THEN 1 ELSE 0) /\ lnKilled' = lnKilled
    BY <1>5, <2>1 DEF LearnStatement
  <2>5. /\ lnRows' = lnRows + (IF st.op = "row" THEN 1 ELSE 0)
        /\ \/ UNCHANGED <<lnBandit, lnGiven>>
           \/ st.op \in {"bandit", "accepted"} /\ update_bandit(st.name, st.hit)
    <3>1. st.op \in {"context", "route", "row", "kind", "bandit", "accepted"} /\ lnRows \in Nat
      BY <2>3 DEF Statements, RewardInv
    <3>2. /\ \/ st.op # "row" /\ lnRows' = lnRows
             \/ st.op = "row" /\ lnRows' = lnRows + 1
          /\ \/ UNCHANGED <<lnBandit, lnGiven>>
             \/ st.op \in {"bandit", "accepted"} /\ update_bandit(st.name, st.hit)
      BY <1>5, <2>1, <3>1, Zenon DEF LearnStatement
    <3> QED BY <3>1, <3>2
  <2>6. lnCall = [q \in LnProcs |-> lnCall[q]] /\ lnKilled \in Nat /\ lnRows \in Nat /\ lnAccepted \in Nat
        /\ lnAccepted + Cardinality(Owing) <= lnRows /\ lnRows <= lnAccepted + Cardinality(Owing) + lnKilled
    BY DEF RewardInv
  <2>7. Cardinality(Owing') = Cardinality(Owing) + (IF st.op = "row" THEN 1 ELSE 0) - (IF st.op = "accepted" THEN 1 ELSE 0)
    <3>1. PICK t : t = Tail(c)
      OBVIOUS
    <3>2. /\ OwesReward(t) /\ ~OwesReward(lnCall[p]) => Cardinality(Owing') = Cardinality(Owing) + 1
          /\ ~OwesReward(t) /\ OwesReward(lnCall[p]) => Cardinality(Owing') = Cardinality(Owing) - 1
          /\ (OwesReward(t) <=> OwesReward(lnCall[p])) => Owing' = Owing
      BY <2>4, <2>6, <3>1, OwingChanges
    <3> QED BY <1>2, <2>1, <2>3, <3>1, <3>2
  <2>8. /\ lnRows' \in Nat /\ lnAccepted' \in Nat /\ lnAccepted' + Cardinality(Owing') <= lnRows'
        /\ lnRows' <= lnAccepted' + Cardinality(Owing') + lnKilled'
    BY <1>2, <2>4, <2>5, <2>6, <2>7
  <2>9. lnCall' = [q \in LnProcs |-> lnCall'[q]] /\ \A q \in LnProcs : lnCall'[q] = Tail(c) \/ lnCall'[q] = lnCall[q]
    BY <2>4, <2>6
  <2>10. \A q \in LnProcs : Call(lnCall'[q])
    BY <2>3, <2>9 DEF RewardInv
  <2>11. /\ lnBandit' = [s \in LnShards |-> lnBandit'[s]] /\ lnGiven' = [s \in LnShards |-> lnGiven'[s]]
         /\ \A s \in LnShards : Balanced(lnBandit'[s], lnGiven'[s])
    <3>1. CASE UNCHANGED <<lnBandit, lnGiven>>
      BY <3>1 DEF RewardInv
    <3>2. CASE st.op \in {"bandit", "accepted"} /\ update_bandit(st.name, st.hit)
      <4>1. PICK s, h : s = st.name /\ h = st.hit
        OBVIOUS
      <4>2. s \in LnShards /\ h \in BOOLEAN
        BY <2>3, <3>2, <4>1 DEF Statements
      <4>3. PICK row, given, more : /\ row = lnBandit[s] /\ given = lnGiven[s]
                                    /\ more = Tallied(given, h)
        OBVIOUS
      <4>4. lnBandit' = [lnBandit EXCEPT ![s] = Rewarded(row, h)] /\ lnGiven' = [lnGiven EXCEPT ![s] = more]
        <5>1. lnBandit' = [lnBandit EXCEPT ![s] = Rewarded(row, h)]
          BY <3>2, <4>1, <4>3 DEF update_bandit
        <5>2. lnGiven' = [lnGiven EXCEPT ![s] = Tallied(lnGiven[s], h)]
          BY <3>2, <4>1 DEF update_bandit
        <5> QED BY <4>3, <5>1, <5>2
      <4>5. Balanced(Rewarded(row, h), more)
        <5>1. Balanced(row, given)
          BY <4>2, <4>3 DEF RewardInv
        <5> QED BY <4>2, <4>3, <5>1, RewardBalances
      <4>6. lnBandit = [q \in LnShards |-> lnBandit[q]] /\ lnGiven = [q \in LnShards |-> lnGiven[q]]
        BY DEF RewardInv
      <4>7. /\ lnBandit' = [q \in LnShards |-> lnBandit'[q]] /\ lnGiven' = [q \in LnShards |-> lnGiven'[q]]
            /\ lnBandit'[s] = Rewarded(row, h) /\ lnGiven'[s] = more
            /\ \A q \in LnShards : q # s => lnBandit'[q] = lnBandit[q] /\ lnGiven'[q] = lnGiven[q]
        BY <4>2, <4>4, <4>6
      <4> QED BY <4>5, <4>7 DEF RewardInv
    <3> QED BY <2>5, <3>1, <3>2
  <2> QED BY <2>4, <2>6, <2>8, <2>9, <2>10, <2>11 DEF RewardInv
<1>6. ASSUME NEW c \in LnContexts, NEW r \in LnRoutes, log_context_query(c, r) PROVE RewardInv'
  <2>1. UNCHANGED <<lnBandit, lnGiven, lnCall, lnRows, lnAccepted, lnKilled>>
    BY <1>6 DEF log_context_query
  <2> QED BY <2>1 DEF RewardInv, Owing
<1>7. CASE LearnAge
  <2>1. UNCHANGED <<lnBandit, lnGiven, lnCall, lnRows, lnAccepted, lnKilled>>
    BY <1>7 DEF LearnAge
  <2> QED BY <2>1 DEF RewardInv, Owing
<1>8. CASE UNCHANGED lnVars
  BY <1>1, <1>8 DEF lnVars
<1>9. CASE LearnNext
  BY <1>1, <1>3, <1>4, <1>5, <1>6, <1>7, <1>9, Zenon DEF LearnNext
<1> QED BY <1>8, <1>9

LEMMA RewardInvIsEnough ==
  ASSUME RewardInv
  PROVE  RewardsAddUp
<1>1. \A s \in LnShards : Balanced(lnBandit[s], lnGiven[s])
  BY DEF RewardInv
<1>2. PICK P : P = {p \in LnProcs : lnCall[p] # <<>>}
  OBVIOUS
<1>3. Owing \subseteq P
  BY <1>2, EmptyCall DEF Owing
<1>4. /\ Cardinality(Owing) \in Nat /\ Cardinality(P) \in Nat /\ Cardinality(Owing) <= Cardinality(P)
  <2>1. IsFiniteSet(P) /\ Cardinality(P) \in Nat
    BY <1>2, OwingFacts
  <2> QED BY <1>3, <2>1, FS_Subset, FS_CardinalityType
<1>5. lnRows \in Nat /\ lnAccepted \in Nat /\ lnKilled \in Nat
      /\ lnAccepted + Cardinality(Owing) <= lnRows /\ lnRows <= lnAccepted + Cardinality(Owing) + lnKilled
  BY DEF RewardInv
<1>6. lnAccepted <= lnRows /\ lnRows <= lnAccepted + lnKilled + Cardinality(P)
  BY <1>4, <1>5
<1>7. \A s \in LnShards :
         IF lnGiven[s].wins + lnGiven[s].losses = 0 THEN lnBandit[s] = NoRow
         ELSE /\ lnBandit[s].wins + lnBandit[s].losses = lnGiven[s].wins + lnGiven[s].losses + 1
              /\ lnBandit[s].wins - 1 \in {lnGiven[s].wins - 1, lnGiven[s].wins}
  BY <1>1 DEF Balanced
<1> QED BY <1>2, <1>6, <1>7 DEF RewardsAddUp

-----------------------------------------------------------------------------
(* Consolidation: a pointer leads to a smaller id, and of every close pair  *)
(* that a run has done one document is marked.                              *)
RunsOver(r, n, merged) ==
    /\ r = [rows |-> r.rows, bucket |-> r.bucket, left |-> r.left]
    /\ r.rows \in [1..n -> 1..n] /\ \A d \in 1..n : \E k \in 1..n : r.rows[k] = d
    /\ r.bucket \in [1..n -> {0, 1}]
    /\ r.left \subseteq ClosePairs(r.rows, r.bucket, n)
    /\ \A x \in ClosePairs(r.rows, r.bucket, n) : x \in r.left \/ merged[r.rows[x[1]]] # 0 \/ merged[r.rows[x[2]]] # 0

MergeInv ==
    /\ lnDocs \in 0..LnMaxDocs
    /\ lnMerged = [d \in 1..LnMaxDocs |-> lnMerged[d]]
    /\ \A d \in 1..LnMaxDocs : lnMerged[d] \in 0..(d - 1)
    /\ lnRun = [p \in LnProcs |-> lnRun[p]]
    /\ \A p \in LnProcs : \E n \in 0..LnMaxDocs : RunsOver(lnRun[p], n, lnMerged)

LEMMA NoRunIsOver ==
  ASSUME NEW merged
  PROVE  0 \in 0..LnMaxDocs /\ RunsOver(NoRun, 0, merged)
<1>1. PICK e : e = <<>>
  OBVIOUS
<1>2. e \in [1..0 -> 1..0] /\ e \in [1..0 -> {0, 1}] /\ 1..0 = {}
  BY <1>1
<1>3. ClosePairs(NoRun.rows, NoRun.bucket, 0) = {}
  BY <1>2 DEF ClosePairs
<1>4. NoRun = [rows |-> e, bucket |-> e, left |-> {}]
  BY <1>1 DEF NoRun
<1> QED BY <1>2, <1>3, <1>4, LearnAssumption DEF RunsOver

LEMMA MergeInit ==
  ASSUME LearnInit
  PROVE  MergeInv
<1>1. lnDocs = 0 /\ lnMerged = [d \in 1..LnMaxDocs |-> 0] /\ lnRun = [p \in LnProcs |-> NoRun]
  BY DEF LearnInit
<1>2. \A p \in LnProcs : 0 \in 0..LnMaxDocs /\ RunsOver(lnRun[p], 0, lnMerged)
  BY <1>1, NoRunIsOver
<1>3. /\ lnMerged = [d \in 1..LnMaxDocs |-> lnMerged[d]] /\ lnRun = [p \in LnProcs |-> lnRun[p]]
      /\ \A d \in 1..LnMaxDocs : lnMerged[d] \in 0..(d - 1)
  BY <1>1, LearnAssumption
<1>4. lnDocs \in 0..LnMaxDocs
  BY <1>1, LearnAssumption
<1> QED BY <1>2, <1>3, <1>4 DEF MergeInv

(* As many rows as documents, each another one: all of them.                *)
LEMMA RowsAreAll ==
  ASSUME NEW n \in Nat, NEW rows \in SetToSeqs(1..n)
  PROVE  rows \in [1..n -> 1..n] /\ \A d \in 1..n : \E k \in 1..n : rows[k] = d
<1>1. IsFiniteSet(1..n) /\ Cardinality(1..n) = n
  BY FS_Interval
<1>2. rows \in [1..n -> 1..n] /\ \A i, j \in 1..n : i # j => rows[i] # rows[j]
  BY <1>1 DEF SetToSeqs
<1>3. rows \in Injection(1..n, 1..n)
  BY <1>2 DEF Injection, IsInjective
<1>4. rows \in Surjection(1..n, 1..n)
  BY <1>1, <1>3, FS_Injection
<1>5. \A d \in 1..n : \E k \in 1..n : rows[k] = d
  BY <1>4, Zenon DEF Surjection
<1> QED BY <1>2, <1>5

LEMMA MergeStep ==
  ASSUME MergeInv, LearnNext \/ UNCHANGED lnVars
  PROVE  MergeInv'
<1>1. CASE UNCHANGED lnMerge
  <2>1. UNCHANGED <<lnDocs, lnMerged, lnRun>>
    BY <1>1 DEF lnMerge
  <2> QED BY <2>1 DEF MergeInv
<1>2. CASE LearnPut
  <2>1. lnDocs < LnMaxDocs /\ lnDocs' = lnDocs + 1 /\ UNCHANGED <<lnMerged, lnRun>>
    BY <1>2 DEF LearnPut
  <2>2. lnDocs' \in 0..LnMaxDocs
    BY <2>1, LearnAssumption DEF MergeInv
  <2> QED BY <2>1, <2>2 DEF MergeInv
<1>3. ASSUME NEW p \in LnProcs, NEW r, NEW n \in 0..LnMaxDocs, RunsOver(r, n, lnMerged),
             lnRun' = [lnRun EXCEPT ![p] = r], UNCHANGED <<lnDocs, lnMerged>>
      PROVE  MergeInv'
  <2>1. lnRun = [q \in LnProcs |-> lnRun[q]]
    BY DEF MergeInv
  <2>2. lnRun' = [q \in LnProcs |-> lnRun'[q]] /\ \A q \in LnProcs : lnRun'[q] = IF q = p THEN r ELSE lnRun[q]
    BY <1>3, <2>1
  <2> QED BY <1>3, <2>2 DEF MergeInv
<1>4. ASSUME NEW p \in LnProcs, ConsolidateEnd(p) \/ ConsolidateKill(p) PROVE MergeInv'
  <2>1. lnRun' = [lnRun EXCEPT ![p] = NoRun] /\ UNCHANGED <<lnDocs, lnMerged>>
    BY <1>4 DEF ConsolidateEnd, ConsolidateKill
  <2> QED BY <1>3, <2>1, NoRunIsOver
<1>5. ASSUME NEW p \in LnProcs, ConsolidateStart(p) PROVE MergeInv'
  <2>1. PICK n : n = lnDocs
    OBVIOUS
  <2>2. n \in 0..LnMaxDocs /\ n \in Nat
    BY <2>1, LearnAssumption DEF MergeInv
  <2>3. PICK rows \in SetToSeqs(1..n), bucket \in [1..n -> {0, 1}] :
            lnRun' = [lnRun EXCEPT ![p] = [rows |-> rows, bucket |-> bucket, left |-> ClosePairs(rows, bucket, n)]]
    BY <1>5, <2>1 DEF ConsolidateStart
  <2>4. PICK r : r = [rows |-> rows, bucket |-> bucket, left |-> ClosePairs(rows, bucket, n)]
    OBVIOUS
  <2>5. r.rows = rows /\ r.bucket = bucket /\ r = [rows |-> r.rows, bucket |-> r.bucket, left |-> r.left]
    BY <2>4
  <2>6. r.left = ClosePairs(r.rows, r.bucket, n)
    BY <2>4
  <2>7. RunsOver(r, n, lnMerged)
    BY <2>2, <2>5, <2>6, RowsAreAll DEF RunsOver
  <2>8. UNCHANGED <<lnDocs, lnMerged>>
    BY <1>5 DEF ConsolidateStart
  <2> QED BY <1>3, <2>2, <2>3, <2>4, <2>7, <2>8
<1>6. ASSUME NEW p \in LnProcs, NEW pair \in lnRun[p].left, ConsolidatePair(p, pair) PROVE MergeInv'
  <2>1. PICK r, n : r = lnRun[p] /\ n \in 0..LnMaxDocs /\ RunsOver(r, n, lnMerged)
    BY DEF MergeInv
  <2>2. PICK a, b, keep, dup : a = r.rows[pair[1]] /\ b = r.rows[pair[2]] /\ keep = Keeps(a, b) /\ dup = IF keep = a THEN b ELSE a
    OBVIOUS
  <2>3. pair \in ClosePairs(r.rows, r.bucket, n)
    BY <1>6, <2>1 DEF RunsOver
  <2>4. a \in 1..n /\ b \in 1..n /\ {a, b} \in LnSimilar
    BY <2>1, <2>2, <2>3 DEF ClosePairs, RunsOver
  <2>5. a # b
    <3>1. PICK u, v \in {a, b} : u # v
      BY <2>4, LearnAssumption
    <3> QED BY <3>1
  <2>6. keep \in 1..(dup - 1) /\ dup \in 1..LnMaxDocs /\ (dup = a \/ dup = b)
    BY <2>1, <2>2, <2>4, <2>5, LearnAssumption DEF Keeps
  <2>7. /\ lnMerged' = [lnMerged EXCEPT ![dup] = keep] /\ lnDocs' = lnDocs
        /\ lnRun' = [lnRun EXCEPT ![p].left = r.left \ {pair}]
    BY <1>6, <2>1, <2>2 DEF ConsolidatePair
  <2>8. /\ lnMerged' = [d \in 1..LnMaxDocs |-> lnMerged'[d]] /\ lnMerged'[dup] = keep
        /\ \A d \in 1..LnMaxDocs : d # dup => lnMerged'[d] = lnMerged[d]
    <3>1. lnMerged = [d \in 1..LnMaxDocs |-> lnMerged[d]]
      BY DEF MergeInv
    <3> QED BY <2>6, <2>7, <3>1
  <2>9. \A d \in 1..LnMaxDocs : /\ lnMerged'[d] \in 0..(d - 1)
                                /\ lnMerged[d] # 0 => lnMerged'[d] # 0
    <3>1. keep \in 0..(dup - 1) /\ keep # 0
      BY <2>6
    <3> QED BY <2>8, <3>1 DEF MergeInv
  <2>10. ASSUME NEW q, NEW m \in 0..LnMaxDocs, RunsOver(q, m, lnMerged) PROVE RunsOver(q, m, lnMerged')
    <3>1. \A k \in 1..m : q.rows[k] \in 1..LnMaxDocs
      BY <2>10, LearnAssumption DEF RunsOver
    <3>2. ASSUME NEW x \in ClosePairs(q.rows, q.bucket, m) PROVE x \in q.left \/ lnMerged'[q.rows[x[1]]] # 0 \/ lnMerged'[q.rows[x[2]]] # 0
      <4>1. q.rows[x[1]] \in 1..LnMaxDocs /\ q.rows[x[2]] \in 1..LnMaxDocs
        BY <3>1 DEF ClosePairs
      <4>2. x \in q.left \/ lnMerged[q.rows[x[1]]] # 0 \/ lnMerged[q.rows[x[2]]] # 0
        BY <2>10 DEF RunsOver
      <4> QED BY <2>9, <4>1, <4>2
    <3> QED BY <2>10, <3>2 DEF RunsOver
  <2>11. PICK s : s = [rows |-> r.rows, bucket |-> r.bucket, left |-> r.left \ {pair}]
    OBVIOUS
  <2>12. RunsOver(s, n, lnMerged')
    <3>1. s.rows = r.rows /\ s.bucket = r.bucket /\ s.left = r.left \ {pair} /\ s = [rows |-> s.rows, bucket |-> s.bucket, left |-> s.left]
      BY <2>11
    <3>2. ClosePairs(s.rows, s.bucket, n) = ClosePairs(r.rows, r.bucket, n)
      BY <3>1
    <3>3. RunsOver(r, n, lnMerged')
      BY <2>1, <2>10
    <3>4. lnMerged'[r.rows[pair[1]]] # 0 \/ lnMerged'[r.rows[pair[2]]] # 0
      BY <2>2, <2>6, <2>8
    <3> QED BY <3>1, <3>2, <3>3, <3>4 DEF RunsOver
  <2>13. lnRun' = [lnRun EXCEPT ![p] = s]
    <3>1. r = [rows |-> r.rows, bucket |-> r.bucket, left |-> r.left]
      BY <2>1 DEF RunsOver
    <3>2. [r EXCEPT !.left = r.left \ {pair}] = s
      BY <2>11, <3>1
    <3>3. lnRun' = [lnRun EXCEPT ![p] = [lnRun[p] EXCEPT !.left = r.left \ {pair}]]
      BY <2>7
    <3> QED BY <2>1, <3>2, <3>3
  <2>14. lnRun' = [q \in LnProcs |-> lnRun'[q]] /\ \A q \in LnProcs : lnRun'[q] = IF q = p THEN s ELSE lnRun[q]
    <3>1. lnRun = [q \in LnProcs |-> lnRun[q]]
      BY DEF MergeInv
    <3> QED BY <2>13, <3>1
  <2>15. ASSUME NEW q \in LnProcs PROVE \E m \in 0..LnMaxDocs : RunsOver(lnRun'[q], m, lnMerged')
    <3>1. CASE q = p
      BY <2>1, <2>12, <2>14, <3>1
    <3>2. CASE q # p
      <4>1. PICK m \in 0..LnMaxDocs : RunsOver(lnRun[q], m, lnMerged)
        BY DEF MergeInv
      <4> QED BY <2>10, <2>14, <3>2, <4>1
    <3> QED BY <3>1, <3>2
  <2>16. lnDocs' \in 0..LnMaxDocs
    BY <2>7 DEF MergeInv
  <2> QED BY <2>8, <2>9, <2>14, <2>15, <2>16 DEF MergeInv
<1>7. CASE UNCHANGED lnVars
  BY <1>1, <1>7 DEF lnVars
<1>8. CASE LearnNext
  BY <1>1, <1>2, <1>4, <1>5, <1>6, <1>8, Zenon DEF LearnNext
<1> QED BY <1>7, <1>8

LEMMA MergeInvIsEnough ==
  ASSUME MergeInv
  PROVE  DuplicatesKeepOne
<1>1. ASSUME NEW S \in SUBSET (1..LnMaxDocs), S # {} PROVE \E d \in S : lnMerged[d] \notin S
  <2>1. S \subseteq Nat
    OBVIOUS
  <2>2. PICK d \in S : \A e \in S : d <= e
    BY <1>1, <2>1, LeastNat
  <2>3. lnMerged[d] \in 0..(d - 1)
    BY DEF MergeInv
  <2> QED BY <2>1, <2>2, <2>3
<1>2. ASSUME NEW p \in LnProcs, lnRun[p].left = {}, NEW pair \in LnSimilar, pair \subseteq DOMAIN lnRun[p].bucket,
             \A a, b \in pair : lnRun[p].bucket[a] = lnRun[p].bucket[b]
      PROVE  \E d \in pair : lnMerged[d] # 0
  <2>1. PICK r, n : r = lnRun[p] /\ n \in 0..LnMaxDocs /\ RunsOver(r, n, lnMerged)
    BY DEF MergeInv
  <2>2. PICK a, b \in pair : a # b /\ pair = {a, b}
    BY LearnAssumption
  <2>3. a \in 1..n /\ b \in 1..n
    BY <1>2, <2>1, <2>2 DEF RunsOver
  <2>4. PICK i, j \in 1..n : r.rows[i] = a /\ r.rows[j] = b
    BY <2>1, <2>3 DEF RunsOver
  <2>5. ASSUME NEW k \in 1..n, NEW l \in 1..n, k < l, {r.rows[k], r.rows[l]} = pair
        PROVE  \E d \in pair : lnMerged[d] # 0
    <3>1. PICK x : x = <<k, l>>
      OBVIOUS
    <3>2. x \in ClosePairs(r.rows, r.bucket, n)
      BY <1>2, <2>1, <2>5, <3>1 DEF ClosePairs
    <3>3. lnMerged[r.rows[x[1]]] # 0 \/ lnMerged[r.rows[x[2]]] # 0
      BY <1>2, <2>1, <3>2 DEF RunsOver
    <3> QED BY <2>5, <3>1, <3>3
  <2>6. i < j \/ j < i
    BY <2>2, <2>4
  <2>7. {r.rows[i], r.rows[j]} = pair /\ {r.rows[j], r.rows[i]} = pair
    BY <2>2, <2>4
  <2> QED BY <2>5, <2>6, <2>7
<1> QED BY <1>1, <1>2 DEF DuplicatesKeepOne

-----------------------------------------------------------------------------
(* The bound on recall: at least as many residuals as the quantile's place  *)
(* are no greater than it.                                                  *)
RecallInv == lnResiduals \in Seq(Int)

LEMMA GreaterOfTwo ==
  ASSUME NEW a \in Int, NEW b \in Int
  PROVE  /\ Max({a, b}) = IF a >= b THEN a ELSE b
         /\ Min({a, b}) = IF a <= b THEN a ELSE b
<1>1. PICK S : S = {a, b}
  OBVIOUS
<1>2. (\E x \in S : \A y \in S : x >= y) /\ (\E x \in S : \A y \in S : x <= y)
  BY <1>1
<1>3. Max(S) \in S /\ \A y \in S : Max(S) >= y
  <2>1. Max(S) = CHOOSE x \in S : \A y \in S : x >= y
    BY DEF Max
  <2> QED BY <1>2, <2>1, Zenon
<1>4. Min(S) \in S /\ \A y \in S : Min(S) <= y
  <2>1. Min(S) = CHOOSE x \in S : \A y \in S : x <= y
    BY DEF Min
  <2> QED BY <1>2, <2>1, Zenon
<1> QED BY <1>1, <1>3, <1>4

LEMMA RecallStep ==
  ASSUME RecallInv, LearnNext \/ UNCHANGED lnVars
  PROVE  RecallInv'
<1>1. CASE lnResiduals' = lnResiduals
  BY <1>1 DEF RecallInv
<1>2. ASSUME NEW hits \in 0..(LnTruth + 1), calibrate(hits) PROVE RecallInv'
  <2>1. LnTruth - hits \in Int
    BY LearnAssumption
  <2> QED BY <1>2, <2>1 DEF calibrate, RecallInv
<1>3. CASE LearnNext
  BY <1>1, <1>2, <1>3, Zenon DEF LearnNext
<1> QED BY <1>1, <1>3 DEF lnVars

LEMMA ResidualsRank ==
  ASSUME RecallInv, NEW n, n = Len(lnResiduals), NEW k \in 1..n, NEW i, i = ResidualAt(k)
  PROVE  i \in 1..n /\ \E P \in SUBSET (1..n) : /\ Cardinality(P) = k - 1 /\ i \notin P
                                               /\ \A j \in P : lnResiduals[j] <= lnResiduals[i]
<1>1. n \in Nat /\ DOMAIN lnResiduals = 1..n /\ \A j \in 1..n : lnResiduals[j] \in Int
  BY DEF RecallInv
<1>2. PICK S, R : S = 1..n /\ R = {x \in S \X S : ResidualBefore(x[1], x[2])}
  OBVIOUS
<1>3. \A a, b \in S : <<a, b>> \in R <=> lnResiduals[a] < lnResiduals[b] \/ (lnResiduals[a] = lnResiduals[b] /\ a < b)
  BY <1>2 DEF ResidualBefore
<1>4. Orders(R, S)
  <2>1. PICK f : f = [j \in S |-> lnResiduals[j]]
    OBVIOUS
  <2>2. /\ \A a \in S : f[a] \in Int /\ a \in Int
        /\ \A a, b \in S : <<a, b>> \in R <=> f[a] < f[b] \/ (f[a] = f[b] /\ a < b)
    BY <1>1, <1>2, <1>3, <2>1
  <2>3. \A a \in S : <<a, a>> \notin R
    BY <2>2
  <2>4. \A a, b, c \in S : <<a, b>> \in R /\ <<b, c>> \in R => <<a, c>> \in R
    BY <2>2
  <2>5. ASSUME NEW a \in S, NEW b \in S, a # b PROVE <<a, b>> \in R \/ <<b, a>> \in R
    <3>1. f[a] \in Int /\ f[b] \in Int /\ a \in Int /\ b \in Int
      BY <2>2
    <3>2. f[a] < f[b] \/ f[b] < f[a] \/ (f[a] = f[b] /\ (a < b \/ b < a))
      BY <2>5, <3>1
    <3> QED BY <2>2, <3>2
  <2> QED BY <2>3, <2>4, <2>5 DEF Orders
<1>5. IsFiniteSet(S) /\ Cardinality(S) = n
  <2>1. IsFiniteSet(1..n) /\ Cardinality(1..n) = IF 1 > n THEN 0 ELSE n - 1 + 1
    BY <1>1, FS_Interval
  <2> QED BY <1>1, <1>2, <2>1
<1>6. PICK h \in S : Cardinality(Preceding(S, R, h)) = k - 1
  BY <1>4, <1>5, RanksNumber
<1>7. \A a \in S : {j \in S : ResidualBefore(j, a)} = Preceding(S, R, a)
  BY <1>2 DEF Preceding
<1>8. ResidualAt(k) = CHOOSE a \in S : Cardinality({j \in S : ResidualBefore(j, a)}) = k - 1
  BY <1>1, <1>2 DEF ResidualAt
<1>9. Cardinality({j \in S : ResidualBefore(j, h)}) = k - 1
  BY <1>6, <1>7
<1>10. i \in S /\ Cardinality({j \in S : ResidualBefore(j, i)}) = k - 1
  BY <1>8, <1>9, Zenon
<1>11. PICK P : P = {j \in S : ResidualBefore(j, i)}
  OBVIOUS
<1>12. i \notin P /\ \A j \in P : lnResiduals[j] <= lnResiduals[i]
  BY <1>1, <1>2, <1>10, <1>11 DEF ResidualBefore
<1> QED BY <1>2, <1>10, <1>11, <1>12

LEMMA QuantilePlace ==
  ASSUME NEW alpha \in 1..9, NEW n \in Nat, n > 0, NEW up, up = ((10 - alpha) * (n + 1) + 9) \div 10
  PROVE  \E k \in 1..n : k = Max({1, Min({up, n})}) /\ 10 * k >= (10 - alpha) * n
<1>1. PICK c, w : c = 10 - alpha /\ w = c * n
  OBVIOUS
<1>2. c \in 1..9 /\ w \in Nat /\ c * (n + 1) = w + c /\ w <= 10 * n
  BY <1>1
<1>3. up = (w + c + 9) \div 10
  BY <1>1, <1>2
<1>4. up \in Int /\ 10 * up >= w + c
  BY <1>2, <1>3
<1>5. PICK l : l = Min({up, n}) /\ l = IF up <= n THEN up ELSE n
  <2>1. up \in Int /\ n \in Int
    BY <1>4
  <2> QED BY <2>1, GreaterOfTwo
<1>6. PICK k : k = Max({1, l}) /\ k = IF 1 >= l THEN 1 ELSE l
  <2>1. 1 \in Int /\ l \in Int
    BY <1>4, <1>5
  <2> QED BY <2>1, GreaterOfTwo
<1>7. k \in 1..n /\ k >= l /\ l \in Int
  <2>1. l \in Int /\ l <= n
    BY <1>4, <1>5
  <2>2. (k = 1 /\ l <= 1) \/ (k = l /\ l > 1)
    BY <1>6, <2>1
  <2> QED BY <2>1, <2>2
<1>8. 10 * l >= w
  BY <1>2, <1>4, <1>5
<1>9. 10 * k >= w
  BY <1>2, <1>7, <1>8
<1> QED BY <1>1, <1>5, <1>6, <1>7, <1>9

LEMMA RecallInvIsEnough ==
  ASSUME RecallInv
  PROVE  BoundCovers
<1> SUFFICES ASSUME NEW alpha \in LnAlphas, NEW target \in 1..LnTruth, ~should_fallback(alpha, target),
                    NEW n, n = Len(lnResiduals), NEW met, met = {i \in 1..n : LnTruth - lnResiduals[i] >= target}
             PROVE  n > 0 /\ 10 * Cardinality(met) >= (10 - alpha) * n
  BY DEF BoundCovers
<1>1. n \in Nat /\ (\A j \in 1..n : lnResiduals[j] \in Int) /\ alpha \in 1..9 /\ LnTruth \in Nat
  BY LearnAssumption DEF RecallInv
<1>2. PICK b : b = predict_recall_lower_bound(alpha)
  OBVIOUS
<1>3. ~(b < target)
  BY <1>2 DEF should_fallback
<1>4. lnResiduals # <<>>
  BY <1>1, <1>2, <1>3 DEF predict_recall_lower_bound
<1>5. n > 0
  BY <1>4 DEF RecallInv
<1>6. PICK up : up = ((10 - alpha) * (n + 1) + 9) \div 10
  OBVIOUS
<1>7. PICK k \in 1..n : k = Max({1, Min({up, n})}) /\ 10 * k >= (10 - alpha) * n
  BY <1>1, <1>5, <1>6, QuantilePlace
<1>8. PICK i, q : i = ResidualAt(k) /\ q = lnResiduals[i]
  OBVIOUS
<1>9. conformal_quantile(alpha) = q
  BY <1>6, <1>7, <1>8 DEF conformal_quantile
<1>10. PICK P \in SUBSET (1..n) : Cardinality(P) = k - 1 /\ i \notin P /\ \A j \in P : lnResiduals[j] <= q
  BY <1>8, ResidualsRank
<1>11. i \in 1..n /\ q \in Int
  BY <1>1, <1>8, ResidualsRank
<1>12. LnTruth - q >= target
  <2>1. PICK d \in Int : d = LnTruth - q
    BY <1>1, <1>11
  <2>2. b = Max({0, Min({LnTruth, d})})
    BY <1>2, <1>4, <1>9, <2>1 DEF predict_recall_lower_bound
  <2>3. PICK l : l = Min({LnTruth, d}) /\ l = IF LnTruth <= d THEN LnTruth ELSE d
    <3>1. LnTruth \in Int /\ d \in Int
      BY <1>1
    <3> QED BY <3>1, GreaterOfTwo
  <2>4. b = (IF 0 >= l THEN 0 ELSE l) /\ l \in Int
    <3>1. 0 \in Int /\ l \in Int
      BY <1>1, <2>3
    <3> QED BY <2>2, <2>3, <3>1, GreaterOfTwo, ZenonT(40)
  <2> QED BY <1>1, <1>3, <2>1, <2>3, <2>4
<1>13. P \cup {i} \subseteq met
  <2>1. ASSUME NEW j \in P \cup {i} PROVE LnTruth - lnResiduals[j] >= target
    <3>1. lnResiduals[j] <= q /\ lnResiduals[j] \in Int
      BY <1>1, <1>8, <1>10, <1>11
    <3> QED BY <1>1, <1>11, <1>12, <3>1
  <2> QED BY <1>11, <2>1
<1>14. IsFiniteSet(met) /\ IsFiniteSet(P) /\ Cardinality(met) \in Nat
  <2>1. IsFiniteSet(1..n)
    BY <1>1, FS_Interval
  <2>2. met \in SUBSET (1..n)
    OBVIOUS
  <2> QED BY <2>1, <2>2, FS_Subset, FS_CardinalityType
<1>15. IsFiniteSet(P \cup {i}) /\ Cardinality(P \cup {i}) = k
  <2>1. i \notin P /\ Cardinality(P) = k - 1 /\ k \in Int
    BY <1>5, <1>10
  <2>2. IsFiniteSet(P \cup {i}) /\ Cardinality(P \cup {i}) = Cardinality(P) + 1
    BY <1>14, <2>1, FS_AddElement
  <2> QED BY <2>1, <2>2
<1>16. k <= Cardinality(met)
  BY <1>13, <1>14, <1>15, FS_Subset
<1>17. 10 * Cardinality(met) >= 10 * k
  BY <1>14, <1>16
<1> QED BY <1>1, <1>5, <1>7, <1>14, <1>17

-----------------------------------------------------------------------------
(* The training file: sorted by query, so a query's number is how many      *)
(* queries there are up to it.                                              *)
QueryEvents == [query : LnQueries, rank : 1..2, clicked : BOOLEAN]
ExportInv == lnEvents \in Seq(QueryEvents)

LEMMA ExportStep ==
  ASSUME ExportInv, LearnNext \/ UNCHANGED lnVars
  PROVE  ExportInv'
<1>1. CASE lnEvents' = lnEvents
  BY <1>1 DEF ExportInv
<1>2. ASSUME NEW q \in LnQueries, NEW rank \in 1..2, log_event(q, rank) PROVE ExportInv'
  <2>1. [query |-> q, rank |-> rank, clicked |-> FALSE] \in QueryEvents
    BY DEF QueryEvents
  <2> QED BY <1>2, <2>1 DEF log_event, ExportInv
<1>3. ASSUME NEW id \in DOMAIN lnEvents, mark_click(id) PROVE ExportInv'
  <2>1. PICK n, e : n = Len(lnEvents) /\ e = lnEvents[id]
    OBVIOUS
  <2>2. n \in Nat /\ lnEvents \in [1..n -> QueryEvents] /\ id \in 1..n /\ e \in QueryEvents
    BY <2>1 DEF ExportInv
  <2>3. [e EXCEPT !.clicked = TRUE] \in QueryEvents
    BY <2>2 DEF QueryEvents
  <2>4. lnEvents' = [lnEvents EXCEPT ![id] = [e EXCEPT !.clicked = TRUE]]
    BY <1>3, <2>1 DEF mark_click
  <2>5. lnEvents' \in [1..n -> QueryEvents]
    BY <2>2, <2>3, <2>4
  <2> QED BY <2>2, <2>5 DEF ExportInv
<1>4. CASE LearnNext
  BY <1>1, <1>2, <1>3, <1>4, Zenon DEF LearnNext
<1> QED BY <1>1, <1>4 DEF lnVars

LEMMA ExportIsSorted ==
  ASSUME ExportInv, NEW n, n = Len(lnEvents)
  PROVE  /\ n \in Nat /\ DOMAIN lnEvents = 1..n /\ Exported \in [1..n -> QueryEvents]
         /\ \E y \in Bijection(1..n, 1..n) : /\ \A k \in 1..n : Exported[k] = lnEvents[y[k]]
         /\ \A j, k \in 1..n : j < k => Exported[j].query <= Exported[k].query
<1>1. n \in Nat /\ DOMAIN lnEvents = 1..n /\ \A j \in 1..n : lnEvents[j] \in QueryEvents
  BY DEF ExportInv
<1>2. PICK S, R : S = 1..n /\ R = {x \in S \X S : ExportedBefore(x[1], x[2])}
  OBVIOUS
<1>3. PICK q, r : q = [j \in S |-> lnEvents[j].query] /\ r = [j \in S |-> lnEvents[j].rank]
  OBVIOUS
<1>4. \A a \in S : q[a] \in Int /\ r[a] \in Int /\ a \in Int /\ q[a] = lnEvents[a].query
  <2>1. \A a \in S : lnEvents[a].query \in LnQueries /\ lnEvents[a].rank \in 1..2
    BY <1>1, <1>2 DEF QueryEvents
  <2>2. \A a \in S : lnEvents[a].query \in Int /\ lnEvents[a].rank \in Int
    <3>1. LnQueries \subseteq Int /\ 1..2 \subseteq Int
      BY LearnAssumption
    <3> QED BY <2>1, <3>1
  <2>3. \A a \in S : a \in Int
    BY <1>1, <1>2
  <2>4. \A a \in S : q[a] = lnEvents[a].query /\ r[a] = lnEvents[a].rank
    BY <1>3
  <2> QED BY <2>2, <2>3, <2>4
<1>5. \A a, b \in S : <<a, b>> \in R <=> \/ q[a] < q[b]
                                         \/ q[a] = q[b] /\ (r[a] < r[b] \/ (r[a] = r[b] /\ a < b))
  BY <1>2, <1>3 DEF ExportedBefore
<1>6. Orders(R, S)
  <2>1. \A a \in S : <<a, a>> \notin R
    BY <1>4, <1>5
  <2>2. ASSUME NEW a \in S, NEW b \in S, NEW c \in S, <<a, b>> \in R, <<b, c>> \in R PROVE <<a, c>> \in R
    <3>1. /\ q[a] \in Int /\ q[b] \in Int /\ q[c] \in Int /\ r[a] \in Int /\ r[b] \in Int /\ r[c] \in Int
          /\ a \in Int /\ b \in Int /\ c \in Int
      BY <1>4
    <3>2. q[a] < q[b] \/ (q[a] = q[b] /\ (r[a] < r[b] \/ (r[a] = r[b] /\ a < b)))
      BY <1>5, <2>2
    <3>3. q[b] < q[c] \/ (q[b] = q[c] /\ (r[b] < r[c] \/ (r[b] = r[c] /\ b < c)))
      BY <1>5, <2>2
    <3>4. q[a] < q[c] \/ (q[a] = q[c] /\ (r[a] < r[c] \/ (r[a] = r[c] /\ a < c)))
      BY <3>1, <3>2, <3>3
    <3> QED BY <1>5, <3>4
  <2>3. ASSUME NEW a \in S, NEW b \in S, a # b PROVE <<a, b>> \in R \/ <<b, a>> \in R
    <3>1. /\ q[a] \in Int /\ q[b] \in Int /\ r[a] \in Int /\ r[b] \in Int /\ a \in Int /\ b \in Int
      BY <1>4
    <3>2. \/ q[a] < q[b] \/ (q[a] = q[b] /\ (r[a] < r[b] \/ (r[a] = r[b] /\ a < b)))
          \/ q[b] < q[a] \/ (q[b] = q[a] /\ (r[b] < r[a] \/ (r[b] = r[a] /\ b < a)))
      BY <2>3, <3>1
    <3> QED BY <1>5, <3>2
  <2> QED BY <2>1, <2>2, <2>3, Zenon DEF Orders
<1>7. IsFiniteSet(S) /\ Cardinality(S) = n
  <2>1. 1 \in Int /\ n \in Int
    BY <1>1
  <2>2. IsFiniteSet(1..n) /\ Cardinality(1..n) = IF 1 > n THEN 0 ELSE n - 1 + 1
    BY <2>1, FS_Interval
  <2> QED BY <1>1, <1>2, <2>2
<1>8. PICK y : y = [k \in 1..n |-> ExportedAt(k)]
  OBVIOUS
<1>9. \A a \in S : {j \in S : ExportedBefore(j, a)} = Preceding(S, R, a)
  BY <1>2 DEF Preceding
<1>10. ASSUME NEW k \in 1..n PROVE y[k] \in S /\ Cardinality(Preceding(S, R, y[k])) = k - 1
  <2>1. y[k] = CHOOSE i \in S : Cardinality({j \in S : ExportedBefore(j, i)}) = k - 1
    BY <1>1, <1>2, <1>8 DEF ExportedAt
  <2>2. PICK h \in S : Cardinality(Preceding(S, R, h)) = k - 1
    BY <1>6, <1>7, RanksNumber
  <2>3. Cardinality({j \in S : ExportedBefore(j, h)}) = k - 1
    BY <1>9, <2>2
  <2>4. y[k] \in S /\ Cardinality({j \in S : ExportedBefore(j, y[k])}) = k - 1
    BY <2>1, <2>3, Zenon
  <2> QED BY <1>9, <2>4
<1>11. Ranks(y, n, S, R)
  <2>1. y \in [1..n -> S]
    BY <1>8, <1>10
  <2> QED BY <1>10, <2>1 DEF Ranks
<1>12. y \in Bijection(1..n, S) /\ \A j, k \in 1..n : j < k => <<y[j], y[k]>> \in R
  BY <1>6, <1>7, <1>11, RanksSort
<1>13. Exported = [k \in 1..n |-> lnEvents[y[k]]]
  BY <1>1, <1>8 DEF Exported
<1>14. \A k \in 1..n : Exported[k] = lnEvents[y[k]] /\ Exported[k] \in QueryEvents
  BY <1>1, <1>2, <1>10, <1>13
<1>15. Exported \in [1..n -> QueryEvents]
  BY <1>13, <1>14
<1>16. ASSUME NEW j \in 1..n, NEW k \in 1..n, j < k PROVE Exported[j].query <= Exported[k].query
  <2>1. y[j] \in S /\ y[k] \in S /\ <<y[j], y[k]>> \in R
    BY <1>10, <1>12, <1>16
  <2>2. q[y[j]] <= q[y[k]]
    BY <1>4, <1>5, <2>1
  <2> QED BY <1>4, <1>14, <2>1, <2>2
<1> QED BY <1>1, <1>2, <1>12, <1>14, <1>15, <1>16

(* Numbers of the groups of a sorted list.                                  *)
Ascends(e, n) == e \in [1..n -> Nat] /\ \A j, k \in 1..n : j < k => e[j] <= e[k]
UpToPlace(e, i) == {e[j] : j \in 1..i}
FirstPlace(e, i) == CHOOSE f \in 1..i : e[f] = e[i] /\ \A h \in 1..(f - 1) : e[h] # e[i]

LEMMA GroupNumber ==
  ASSUME NEW n \in Nat, NEW e, Ascends(e, n), NEW i \in 1..n
  PROVE  UpToPlace(e, FirstPlace(e, i)) = UpToPlace(e, i)
<1>1. PICK T : T = {f \in 1..i : e[f] = e[i]}
  OBVIOUS
<1>2. i \in T /\ T \subseteq Nat
  BY <1>1
<1>3. PICK f \in T : \A g \in T : f <= g
  BY <1>2, LeastNat
<1>4. f \in 1..i /\ e[f] = e[i] /\ \A h \in 1..(f - 1) : e[h] # e[i]
  BY <1>1, <1>3
<1>5. PICK g : g = FirstPlace(e, i)
  OBVIOUS
<1>6. g \in 1..i /\ e[g] = e[i]
  BY <1>4, <1>5, Zenon DEF FirstPlace
<1>7. ASSUME NEW j \in 1..i PROVE \E h \in 1..g : e[j] = e[h]
  <2>1. CASE j <= g
    <3>1. j \in 1..g
      BY <1>6, <2>1
    <3> QED BY <3>1
  <2>2. CASE j > g
    <3>1. g \in 1..n /\ j \in 1..n /\ i \in 1..n /\ j <= i
      BY <1>6
    <3>2. e[g] <= e[j] /\ (e[j] <= e[i] \/ j = i)
      BY <2>2, <3>1 DEF Ascends
    <3>3. e[g] \in Nat /\ e[j] \in Nat /\ e[i] \in Nat
      BY <3>1 DEF Ascends
    <3>4. e[j] = e[g] /\ g \in 1..g
      BY <1>6, <3>2, <3>3
    <3> QED BY <3>4
  <2> QED BY <1>6, <2>1, <2>2
<1>8. \A h \in 1..g : h \in 1..i
  BY <1>6
<1> QED BY <1>5, <1>7, <1>8 DEF UpToPlace

LEMMA GroupsCount ==
  ASSUME NEW n \in Nat, NEW e, Ascends(e, n), NEW i \in 1..n, NEW j \in 1..n, i <= j
  PROVE  /\ Cardinality(UpToPlace(e, j)) - Cardinality(UpToPlace(e, i)) \in 0..(j - i)
         /\ Cardinality(UpToPlace(e, i)) \in Nat
         /\ e[i] = e[j] => UpToPlace(e, i) = UpToPlace(e, j)
<1>1. ASSUME NEW a \in 1..(n + 1), NEW b \in 0..n, a <= b + 1
      PROVE  IsFiniteSet({e[k] : k \in a..b}) /\ Cardinality({e[k] : k \in a..b}) <= b - a + 1
  <2>1. PICK T, f, D : T = {e[k] : k \in a..b} /\ f = [k \in a..b |-> e[k]] /\ D = a..b
    OBVIOUS
  <2>2. IsFiniteSet(D) /\ Cardinality(D) = b - a + 1
    <3>1. a \in Int /\ b \in Int
      OBVIOUS
    <3>2. IsFiniteSet(a..b) /\ Cardinality(a..b) = IF a > b THEN 0 ELSE b - a + 1
      BY <3>1, FS_Interval
    <3> QED BY <1>1, <2>1, <3>1, <3>2
  <2>3. f \in Surjection(D, T)
    <3>1. f \in [D -> T] /\ \A t \in T : \E k \in D : f[k] = t
      BY <2>1
    <3> QED BY <3>1, Zenon DEF Surjection
  <2>4. IsFiniteSet(T) /\ Cardinality(T) <= Cardinality(D)
    BY <2>2, <2>3, FS_Surjection
  <2> QED BY <2>1, <2>2, <2>4
<1>2. PICK A, B, C : A = {e[k] : k \in 1..i} /\ B = {e[k] : k \in (i + 1)..j} /\ C = {e[k] : k \in 1..j}
  OBVIOUS
<1>3. IsFiniteSet(A) /\ IsFiniteSet(B) /\ Cardinality(B) <= j - i
  <2>1. IsFiniteSet({e[k] : k \in 1..i})
    <3>1. 1 \in 1..(n + 1) /\ i \in 0..n /\ 1 <= i + 1
      OBVIOUS
    <3> QED BY <1>1, <3>1
  <2>2. IsFiniteSet({e[k] : k \in (i + 1)..j}) /\ Cardinality({e[k] : k \in (i + 1)..j}) <= j - (i + 1) + 1
    <3>1. i + 1 \in 1..(n + 1) /\ j \in 0..n /\ i + 1 <= j + 1
      OBVIOUS
    <3> QED BY <1>1, <3>1
  <2> QED BY <1>2, <2>1, <2>2
<1>4. C = A \cup B
  <2>1. \A k \in 1..j : k \in 1..i \/ k \in (i + 1)..j
    OBVIOUS
  <2>2. (\A k \in 1..i : k \in 1..j) /\ (\A k \in (i + 1)..j : k \in 1..j)
    OBVIOUS
  <2> QED BY <1>2, <2>1, <2>2
<1>5. /\ Cardinality(A) \in Nat /\ Cardinality(B) \in Nat /\ Cardinality(C) \in Nat
      /\ Cardinality(C) <= Cardinality(A) + Cardinality(B) /\ Cardinality(A) <= Cardinality(C)
  <2>1. /\ IsFiniteSet(A \cup B) /\ Cardinality(A \cup B) = Cardinality(A) + Cardinality(B) - Cardinality(A \cap B)
    BY <1>3, FS_Union
  <2>2. IsFiniteSet(A \cap B)
    BY <1>3, FS_Intersection
  <2>3. Cardinality(A \cap B) \in Nat /\ Cardinality(A) \in Nat /\ Cardinality(B) \in Nat /\ Cardinality(A \cup B) \in Nat
    BY <1>3, <2>1, <2>2, FS_CardinalityType
  <2>4. Cardinality(A) <= Cardinality(A \cup B)
    <3>1. A \in SUBSET (A \cup B)
      OBVIOUS
    <3> QED BY <2>1, <3>1, FS_Subset
  <2> QED BY <1>4, <2>1, <2>3, <2>4
<1>6. Cardinality(C) - Cardinality(A) \in 0..(j - i)
  BY <1>3, <1>5
<1>7. ASSUME e[i] = e[j] PROVE A = C
  <2>1. ASSUME NEW k \in (i + 1)..j PROVE e[k] = e[i] /\ i \in 1..i
    <3>1. k \in 1..n /\ i < k /\ (k < j \/ k = j)
      OBVIOUS
    <3>2. e[i] <= e[k] /\ (e[k] <= e[j])
      BY <3>1 DEF Ascends
    <3>3. e[i] \in Nat /\ e[k] \in Nat /\ e[j] \in Nat
      BY <3>1 DEF Ascends
    <3> QED BY <1>7, <3>2, <3>3
  <2>2. B \subseteq A
    BY <1>2, <2>1
  <2> QED BY <1>4, <2>2
<1> QED BY <1>2, <1>5, <1>6, <1>7 DEF UpToPlace

LEMMA ExportInvIsEnough ==
  ASSUME ExportInv
  PROVE  ExportIsGrouped
<1>1. PICK n, x, out : n = Len(lnEvents) /\ x = Exported /\ out = export_libsvm
  OBVIOUS
<1>2. /\ n \in Nat /\ DOMAIN lnEvents = 1..n /\ x \in [1..n -> QueryEvents]
      /\ \A j, k \in 1..n : j < k => x[j].query <= x[k].query
  BY <1>1, ExportIsSorted
<1>3. PICK y \in Bijection(1..n, 1..n) : \A k \in 1..n : x[k] = lnEvents[y[k]]
  BY <1>1, ExportIsSorted
<1>4. PICK e : e = [k \in 1..n |-> x[k].query]
  OBVIOUS
<1>5. \A k \in 1..n : e[k] = x[k].query /\ e[k] \in LnQueries /\ e[k] \in Nat
  <2>1. \A k \in 1..n : x[k].query \in LnQueries
    BY <1>2 DEF QueryEvents
  <2> QED BY <1>4, <2>1, LearnAssumption
<1>6. Ascends(e, n)
  <2>1. e \in [1..n -> Nat]
    BY <1>4, <1>5
  <2> QED BY <1>2, <1>5, <2>1 DEF Ascends
<1>7. ASSUME NEW i \in 1..n
      PROVE  FirstPlace(e, i) = FirstOfItsQuery(i) /\ FirstPlace(e, i) \in 1..i
  <2>1. \A f \in 1..i : (e[f] = e[i] /\ \A h \in 1..(f - 1) : e[h] # e[i])
                        <=> (x[f].query = x[i].query /\ \A h \in 1..(f - 1) : x[h].query # x[i].query)
    <3>1. \A f \in 1..i : f \in 1..n /\ \A h \in 1..(f - 1) : h \in 1..n
      BY <1>2
    <3> QED BY <1>5, <3>1
  <2>2. PICK T : T = {f \in 1..i : e[f] = e[i]}
    OBVIOUS
  <2>3. i \in T /\ T \subseteq Nat
    BY <2>2
  <2>4. PICK f \in T : \A g \in T : f <= g
    BY <2>3, LeastNat
  <2>5. f \in 1..i /\ e[f] = e[i] /\ \A h \in 1..(f - 1) : e[h] # e[i]
    BY <2>2, <2>4
  <2>6. FirstPlace(e, i) \in 1..i
    BY <2>5, Zenon DEF FirstPlace
  <2>7. (CHOOSE g \in 1..i : e[g] = e[i] /\ \A h \in 1..(g - 1) : e[h] # e[i])
        = CHOOSE g \in 1..i : x[g].query = x[i].query /\ \A h \in 1..(g - 1) : x[h].query # x[i].query
    BY <2>1, Zenon
  <2>8. FirstOfItsQuery(i) = CHOOSE g \in 1..i : x[g].query = x[i].query /\ \A h \in 1..(g - 1) : x[h].query # x[i].query
    BY <1>1, Zenon DEF FirstOfItsQuery
  <2> QED BY <2>6, <2>7, <2>8, Zenon DEF FirstPlace
<1>8. ASSUME NEW i \in 1..n
      PROVE  out[i].qid = Cardinality(UpToPlace(e, i)) /\ out[i].clicked = x[i].clicked
  <2>1. PICK f : f = FirstPlace(e, i)
    OBVIOUS
  <2>2. f \in 1..i
    BY <1>7, <2>1
  <2>3. {x[j].query : j \in 1..f} = UpToPlace(e, f)
    <3>1. \A j \in 1..f : j \in 1..n
      BY <1>2, <2>2
    <3> QED BY <1>5, <3>1 DEF UpToPlace
  <2>4. UpToPlace(e, f) = UpToPlace(e, i)
    BY <1>2, <1>6, <2>1, GroupNumber
  <2>5. out[i] = [clicked |-> x[i].clicked, rank |-> x[i].rank, qid |-> Cardinality({x[j].query : j \in 1..f})]
    <3>1. out = [k \in DOMAIN x |-> [clicked |-> x[k].clicked, rank |-> x[k].rank,
                                     qid |-> Cardinality({x[j].query : j \in 1..FirstOfItsQuery(k)})]]
      BY <1>1, Zenon DEF export_libsvm
    <3>2. i \in DOMAIN x /\ FirstOfItsQuery(i) = f
      BY <1>2, <1>7, <2>1
    <3> QED BY <3>1, <3>2
  <2>6. out[i].qid = Cardinality({x[j].query : j \in 1..f}) /\ out[i].clicked = x[i].clicked
    BY <2>5
  <2> QED BY <2>3, <2>4, <2>6
<1>9. out \in Seq({out[i] : i \in 1..n}) /\ Len(out) = n /\ DOMAIN out = 1..n
  <2>1. DOMAIN out = 1..n /\ out = [i \in 1..n |-> out[i]]
    BY <1>1, <1>2 DEF export_libsvm
  <2>2. out \in [1..n -> {out[i] : i \in 1..n}]
    BY <2>1
  <2> QED BY <1>2, <2>1, <2>2
<1>10. ASSUME NEW i \in 1..n, NEW j \in 1..n, i < j PROVE out[j].qid - out[i].qid \in 0..(j - i)
  <2>1. i <= j
    BY <1>2, <1>10
  <2>2. Cardinality(UpToPlace(e, j)) - Cardinality(UpToPlace(e, i)) \in 0..(j - i)
    BY <1>2, <1>6, <2>1, GroupsCount
  <2> QED BY <1>8, <2>2
<1>11. Cardinality({i \in 1..n : out[i].clicked}) = Cardinality({i \in 1..n : lnEvents[i].clicked})
  <2>1. PICK A, B, g : /\ A = {i \in 1..n : out[i].clicked} /\ B = {i \in 1..n : lnEvents[i].clicked}
                       /\ g = [i \in A |-> y[i]]
    OBVIOUS
  <2>2. /\ y \in [1..n -> 1..n] /\ \A i, j \in 1..n : y[i] = y[j] => i = j
        /\ \A k \in 1..n : \E i \in 1..n : y[i] = k
    <3>1. y \in Injection(1..n, 1..n) /\ y \in Surjection(1..n, 1..n)
      BY <1>3 DEF Bijection
    <3> QED BY <3>1, Zenon DEF Injection, IsInjective, Surjection
  <2>3. \A i \in 1..n : i \in A <=> y[i] \in B
    BY <1>3, <1>8, <2>1, <2>2
  <2>4. g \in [A -> B] /\ (\A i, j \in A : g[i] = g[j] => i = j) /\ \A k \in B : \E i \in A : g[i] = k
    BY <2>1, <2>2, <2>3
  <2>5. g \in Bijection(A, B)
    BY <2>4, Zenon DEF Bijection, Injection, IsInjective, Surjection
  <2>6. IsFiniteSet(A)
    <3>1. IsFiniteSet(1..n) /\ A \in SUBSET (1..n)
      BY <1>2, <2>1, FS_Interval
    <3> QED BY <3>1, FS_Subset
  <2>7. Cardinality(B) = Cardinality(A)
    BY <2>5, <2>6, FS_Bijection, Zenon DEF ExistsBijection
  <2> QED BY <2>1, <2>7
<1>12. ASSUME NEW q \in LnQueries, NEW group, group = {i \in 1..n : x[i].query = q}, NEW i \in group, NEW j \in group
       PROVE  out[i].qid = out[j].qid /\ i..j \subseteq group
  <2>1. i \in 1..n /\ j \in 1..n /\ e[i] = q /\ e[j] = q
    BY <1>5, <1>12
  <2>2. UpToPlace(e, i) = UpToPlace(e, j)
    <3>1. CASE i <= j
      BY <1>2, <1>6, <2>1, <3>1, GroupsCount, ZenonT(40)
    <3>2. CASE j <= i
      BY <1>2, <1>6, <2>1, <3>2, GroupsCount
    <3> QED BY <2>1, <3>1, <3>2
  <2>3. ASSUME NEW k \in i..j PROVE k \in group
    <3>1. k \in 1..n /\ (i < k \/ i = k) /\ (k < j \/ k = j)
      BY <1>2, <2>1
    <3>2. e[i] <= e[k] /\ e[k] <= e[j] /\ e[i] \in Nat /\ e[k] \in Nat /\ e[j] \in Nat
      BY <1>5, <1>6, <2>1, <3>1 DEF Ascends
    <3>3. e[k] = q
      BY <2>1, <3>2
    <3> QED BY <1>5, <1>12, <3>1, <3>3
  <2> QED BY <1>8, <2>1, <2>2, <2>3
<1>13. DOMAIN Exported = 1..n /\ DOMAIN export_libsvm = 1..n
  BY <1>1, <1>2, <1>9
<1>14. Len(export_libsvm) = Len(lnEvents)
  BY <1>1, <1>9
<1>15. \A i, j \in DOMAIN export_libsvm : i < j => export_libsvm[j].qid - export_libsvm[i].qid \in 0..(j - i)
  BY <1>1, <1>10, <1>13
<1>16. Cardinality({i \in DOMAIN export_libsvm : export_libsvm[i].clicked}) = Cardinality({i \in DOMAIN lnEvents : lnEvents[i].clicked})
  BY <1>1, <1>2, <1>11, <1>13
<1>17. ASSUME NEW q \in LnQueries, NEW i \in {k \in DOMAIN Exported : Exported[k].query = q},
              NEW j \in {k \in DOMAIN Exported : Exported[k].query = q}
       PROVE  export_libsvm[i].qid = export_libsvm[j].qid /\ i..j \subseteq {k \in DOMAIN Exported : Exported[k].query = q}
  <2>1. PICK group : group = {k \in 1..n : x[k].query = q}
    OBVIOUS
  <2>2. group = {k \in DOMAIN Exported : Exported[k].query = q} /\ i \in group /\ j \in group
    BY <1>1, <1>13, <2>1
  <2>3. out[i].qid = out[j].qid /\ i..j \subseteq group
    BY <1>12, <2>1, <2>2
  <2> QED BY <1>1, <2>2, <2>3
<1> QED BY <1>14, <1>15, <1>16, <1>17, Zenon DEF ExportIsGrouped

\* Learning store: a shard's row holds every reward given but the first, which
\* only makes the row; no accepted answer is rewarded that has no feedback row,
\* and a row without its reward is a call under way or killed; however
\* consolidation runs overlap, every duplicate leads to a row that is kept; the
\* training file numbers its queries without a gap, each in one piece; and a
\* promised recall was reached by the promised share of calibration queries.
THEOREM LearningIsExact == Spec => []LearningAddsUp
<1>1. Init => RewardInv /\ MergeInv /\ RecallInv /\ ExportInv
  BY RewardInit, MergeInit DEF Init, LearnInit, RecallInv, ExportInv
<1>2. RewardInv /\ MergeInv /\ RecallInv /\ ExportInv /\ [Next]_vars => (RewardInv /\ MergeInv /\ RecallInv /\ ExportInv)'
  BY OneComponentMoves, RewardStep, MergeStep, RecallStep, ExportStep
<1>3. RewardInv /\ MergeInv /\ RecallInv /\ ExportInv => LearningAddsUp
  BY RewardInvIsEnough, MergeInvIsEnough, RecallInvIsEnough, ExportInvIsEnough DEF LearningAddsUp
<1> QED BY <1>1, <1>2, <1>3, PTL DEF Spec

-----------------------------------------------------------------------------
(* Audit chain: a row was appended on the hash it names, and no edit makes  *)
(* a hash that was not once an appended row's.                              *)
AuBytes == {HashedBytes(t, e) : t \in Nat, e \in AuFields}
AuRow == [id : Nat, ts : Nat, ev : AuFields, prev_hash : Seq(AuBytes), hash : Seq(AuBytes)]
AuKnown(h) == \E k \in DOMAIN auHist : h = auHist[k].hash
AuditInv ==
    /\ auClock \in Nat /\ auLastId \in Nat /\ auEdits \in Nat
    /\ auRows \in Seq(AuRow) /\ auHist \in Seq(AuRow)
    /\ \A k \in DOMAIN auHist : auHist[k].hash = event_hash(auHist[k].ts, auHist[k].ev, auHist[k].prev_hash)
    /\ \A i \in DOMAIN auRows : AuKnown(auRows[i].hash)
    /\ auEdits = 0 => auRows = auHist /\ verify_chain(auRows)

\* The hash a row must stand on is that of the row before it.
LEMMA HashBefore ==
  ASSUME NEW rows \in Seq(AuRow), NEW i \in DOMAIN rows
  PROVE  last_hash(SubSeq(rows, 1, i - 1)) = IF i = 1 THEN NoHash ELSE rows[i - 1].hash
<1>1. CASE i = 1
  <2>1. SubSeq(rows, 1, i - 1) = <<>>
    BY <1>1
  <2> QED BY <1>1, <2>1 DEF last_hash
<1>2. CASE i # 1
  <2>1. i \in 2..Len(rows)
    BY <1>2
  <2>2. PICK s : s = SubSeq(rows, 1, i - 1)
    OBVIOUS
  <2>3. s \in Seq(AuRow) /\ Len(s) = i - 1 /\ s[i - 1] = rows[i - 1]
    BY <2>1, <2>2
  <2>4. s # <<>>
    BY <2>1, <2>3
  <2> QED BY <1>2, <2>2, <2>3, <2>4 DEF last_hash, Last
<1> QED BY <1>1, <1>2

\* Hashes are sequences of byte strings.
LEMMA LastHashType ==
  ASSUME NEW rows \in Seq(AuRow)
  PROVE  last_hash(rows) \in Seq(AuBytes)
<1>1. CASE rows = <<>>
  BY <1>1 DEF last_hash, NoHash
<1>2. CASE rows # <<>>
  <2>1. Len(rows) \in DOMAIN rows
    BY <1>2
  <2>2. rows[Len(rows)] \in AuRow
    BY <2>1
  <2> QED BY <1>2, <2>2 DEF last_hash, Last, AuRow
<1> QED BY <1>1, <1>2

\* Two chains that end in the same step are the same.
LEMMA AppendOnce ==
  ASSUME NEW X, NEW s \in Seq(X), NEW t \in Seq(X), NEW a \in X, NEW b \in X, Append(s, a) = Append(t, b)
  PROVE  s = t /\ a = b
<1>1. Len(s) = Len(t)
  <2>1. Len(Append(s, a)) = Len(s) + 1 /\ Len(Append(t, b)) = Len(t) + 1
    OBVIOUS
  <2> QED BY <2>1
<1>2. a = b
  <2>1. Append(s, a)[Len(s) + 1] = a /\ Append(t, b)[Len(t) + 1] = b
    OBVIOUS
  <2> QED BY <1>1, <2>1
<1>3. \A i \in 1..Len(s) : s[i] = t[i]
  <2> TAKE i \in 1..Len(s)
  <2>1. Append(s, a)[i] = s[i] /\ Append(t, b)[i] = t[i]
    BY <1>1
  <2> QED BY <2>1
<1>4. s = t
  BY <1>1, <1>3
<1> QED BY <1>2, <1>4

\* What is left after a row is deleted was there before.
LEMMA RemovedRows ==
  ASSUME NEW rows \in Seq(AuRow), NEW i \in DOMAIN rows
  PROVE  /\ RemoveAt(rows, i) \in Seq(AuRow)
         /\ \A j \in DOMAIN RemoveAt(rows, i) : \E k \in DOMAIN rows : RemoveAt(rows, i)[j] = rows[k]
<1>1. PICK a, b : a = SubSeq(rows, 1, i - 1) /\ b = SubSeq(rows, i + 1, Len(rows))
  OBVIOUS
<1>2. i \in Nat /\ 1 <= i /\ i <= Len(rows) /\ Len(rows) \in Nat
  OBVIOUS
<1>3. a \in Seq(AuRow) /\ Len(a) = i - 1 /\ \A j \in 1..(i - 1) : a[j] = rows[j]
  BY <1>1, <1>2
<1>4. b \in Seq(AuRow) /\ Len(b) = Len(rows) - i /\ \A j \in 1..(Len(rows) - i) : b[j] = rows[i + j]
  BY <1>1, <1>2
<1>5. RemoveAt(rows, i) = a \o b
  BY <1>1 DEF RemoveAt
<1>6. a \o b \in Seq(AuRow) /\ Len(a \o b) = Len(rows) - 1
  BY <1>2, <1>3, <1>4
<1>7. ASSUME NEW j \in DOMAIN (a \o b) PROVE \E k \in DOMAIN rows : (a \o b)[j] = rows[k]
  <2>1. j \in 1..(Len(rows) - 1)
    BY <1>6
  <2>2. CASE j <= i - 1
    <3>1. (a \o b)[j] = a[j]
      BY <2>1, <2>2, <1>2, <1>3, <1>4
    <3>2. a[j] = rows[j] /\ j \in DOMAIN rows
      BY <2>1, <2>2, <1>2, <1>3
    <3> QED BY <3>1, <3>2
  <2>3. CASE j > i - 1
    <3>1. (a \o b)[j] = b[j - (i - 1)]
      BY <2>1, <2>3, <1>2, <1>3, <1>4
    <3>2. b[j - (i - 1)] = rows[j + 1] /\ j + 1 \in DOMAIN rows
      BY <2>1, <2>3, <1>2, <1>4
    <3> QED BY <3>1, <3>2
  <2> QED BY <2>1, <2>2, <2>3, <1>2
<1> QED BY <1>5, <1>6, <1>7

\* verify_chain, row by row.
RowHolds(rows, i) ==
    LET prev == IF i = 1 THEN NoHash ELSE rows[i - 1].hash IN
    /\ rows[i].hash = event_hash(rows[i].ts, rows[i].ev, prev)
    /\ rows[i].prev_hash = prev
LEMMA VerifiedRows ==
  ASSUME NEW rows \in Seq(AuRow)
  PROVE  verify_chain(rows) <=> \A i \in DOMAIN rows : RowHolds(rows, i)
  BY HashBefore, Zenon DEF verify_chain, RowHolds

\* An empty log.
LEMMA AuditInitInv == AuditInit => AuditInv
<1> SUFFICES ASSUME AuditInit PROVE AuditInv
  OBVIOUS
<1>1. auRows = <<>> /\ auHist = <<>> /\ auLastId = 0 /\ auClock = 0 /\ auEdits = 0
  BY DEF AuditInit
<1>2. <<>> \in Seq(AuRow) /\ DOMAIN <<>> = {}
  OBVIOUS
<1>3. verify_chain(<<>>)
  BY <1>2 DEF verify_chain
<1> QED BY <1>1, <1>2, <1>3 DEF AuditInv

\* A row appended by the program.
LEMMA AppendedRow ==
  ASSUME AuditInv, NEW e \in AuFields, NEW ts \in Nat, NEW row,
         row = [id |-> auLastId + 1, ts |-> ts, ev |-> e, prev_hash |-> last_hash(auRows),
                hash |-> event_hash(ts, e, last_hash(auRows))]
  PROVE  /\ row \in AuRow /\ row.hash = event_hash(row.ts, row.ev, row.prev_hash)
         /\ Append(auRows, row) \in Seq(AuRow) /\ Append(auHist, row) \in Seq(AuRow)
         /\ verify_chain(auRows) => verify_chain(Append(auRows, row))
<1>1. auRows \in Seq(AuRow) /\ auHist \in Seq(AuRow) /\ auLastId \in Nat
  BY DEF AuditInv
<1>2. HashedBytes(ts, e) \in AuBytes
  BY DEF AuBytes
<1>3. last_hash(auRows) \in Seq(AuBytes)
  BY <1>1, LastHashType
<1>4. event_hash(ts, e, last_hash(auRows)) \in Seq(AuBytes)
  BY <1>2, <1>3 DEF event_hash
<1>5. row \in AuRow
  BY <1>1, <1>3, <1>4 DEF AuRow
<1>6. row.hash = event_hash(row.ts, row.ev, row.prev_hash) /\ row.prev_hash = last_hash(auRows)
  OBVIOUS
<1>7. PICK n \in Nat : n = Len(auRows)
  BY <1>1
<1>8. Append(auRows, row) \in Seq(AuRow) /\ Append(auHist, row) \in Seq(AuRow)
  BY <1>1, <1>5
<1>8a. PICK new \in Seq(AuRow) : new = Append(auRows, row)
  BY ONLY <1>8, Zenon
<1>9. /\ DOMAIN new = 1..(n + 1) /\ DOMAIN auRows = 1..n
      /\ new[n + 1] = row /\ \A i \in 1..n : new[i] = auRows[i]
  BY <1>1, <1>5, <1>7, <1>8a
<1>10. ASSUME verify_chain(auRows) PROVE verify_chain(new)
  <2>1. \A i \in 1..n : RowHolds(auRows, i)
    BY <1>1, <1>9, <1>10, VerifiedRows
  <2>2. ASSUME NEW i \in 1..n PROVE RowHolds(new, i)
    <3>1. new[i] = auRows[i]
      BY <1>9
    <3>2. i # 1 => new[i - 1] = auRows[i - 1]
      BY <1>9
    <3> QED BY <2>1, <3>1, <3>2 DEF RowHolds
  <2>3. last_hash(auRows) = IF n + 1 = 1 THEN NoHash ELSE new[n + 1 - 1].hash
    <3>1. CASE n = 0
      <4>1. auRows = <<>>
        BY <3>1, <1>1, <1>7
      <4> QED BY <3>1, <4>1 DEF last_hash
    <3>2. CASE n # 0
      <4>1. auRows # <<>> /\ n \in 1..n /\ n + 1 - 1 = n /\ n + 1 # 1
        BY <3>2, <1>1, <1>7
      <4>2. new[n] = auRows[n]
        BY <4>1, <1>9
      <4> QED BY <4>1, <4>2, <1>7 DEF last_hash, Last
    <3> QED BY <3>1, <3>2
  <2>4. RowHolds(new, n + 1)
    BY <1>6, <1>9, <2>3 DEF RowHolds
  <2>5. \A i \in 1..(n + 1) : i \in 1..n \/ i = n + 1
    OBVIOUS
  <2> QED BY <1>8a, <1>9, <2>2, <2>4, <2>5, VerifiedRows, Zenon
<1> QED BY ONLY <1>5, <1>6, <1>8a, <1>10, <1>8, Zenon

\* append keeps the invariant.
LEMMA AuditAppends ==
  ASSUME AuditInv, NEW e \in AuFields, AuditAppend(e)
  PROVE  AuditInv'
<1>0. PICK ts \in {auClock, auClock + 1} :
         LET row == [id |-> auLastId + 1, ts |-> ts, ev |-> e, prev_hash |-> last_hash(auRows),
                     hash |-> event_hash(ts, e, last_hash(auRows))] IN
         /\ auRows' = Append(auRows, row)
         /\ auHist' = Append(auHist, row)
         /\ auLastId' = row.id
         /\ auClock' = ts
  BY DEF AuditAppend
<1>1. PICK row :
         /\ row = [id |-> auLastId + 1, ts |-> ts, ev |-> e, prev_hash |-> last_hash(auRows),
                   hash |-> event_hash(ts, e, last_hash(auRows))]
         /\ auRows' = Append(auRows, row)
         /\ auHist' = Append(auHist, row)
         /\ auLastId' = row.id
         /\ auClock' = ts
  BY <1>0
<1>2. /\ auClock \in Nat /\ auLastId \in Nat /\ auEdits \in Nat /\ auEdits' = auEdits
      /\ auRows \in Seq(AuRow) /\ auHist \in Seq(AuRow)
  BY DEF AuditInv, AuditAppend
<1>3. ts \in Nat
  BY <1>1, <1>2
<1>4. /\ row \in AuRow /\ row.hash = event_hash(row.ts, row.ev, row.prev_hash)
      /\ auRows' \in Seq(AuRow) /\ auHist' \in Seq(AuRow)
      /\ verify_chain(auRows) => verify_chain(auRows')
  BY <1>1, <1>3, AppendedRow
<1>5. row.id = auLastId + 1
  BY <1>1
<1>6. PICK n \in Nat : n = Len(auHist)
  BY <1>2
<1>7. /\ DOMAIN auHist = 1..n /\ DOMAIN auHist' = 1..(n + 1)
      /\ auHist'[n + 1] = row /\ \A k \in 1..n : auHist'[k] = auHist[k]
  BY <1>1, <1>2, <1>4, <1>6
<1>8. PICK m \in Nat : m = Len(auRows)
  BY <1>2
<1>9. /\ DOMAIN auRows = 1..m /\ DOMAIN auRows' = 1..(m + 1)
      /\ auRows'[m + 1] = row /\ \A k \in 1..m : auRows'[k] = auRows[k]
  BY <1>1, <1>2, <1>4, <1>8
<1>10. \A k \in 1..(n + 1) : k \in 1..n \/ k = n + 1
  OBVIOUS
<1>11. \A k \in 1..(m + 1) : k \in 1..m \/ k = m + 1
  OBVIOUS
<1>12. ASSUME NEW k \in DOMAIN auHist'
       PROVE  auHist'[k].hash = event_hash(auHist'[k].ts, auHist'[k].ev, auHist'[k].prev_hash)
  BY <1>4, <1>7, <1>10 DEF AuditInv
<1>13. ASSUME NEW i \in DOMAIN auRows' PROVE \E k \in DOMAIN auHist' : auRows'[i].hash = auHist'[k].hash
  <2>1. CASE i = m + 1
    <3>1. n + 1 \in DOMAIN auHist'
      BY <1>7
    <3> QED BY <2>1, <3>1, <1>7, <1>9
  <2>2. CASE i \in 1..m
    <3>1. PICK k \in DOMAIN auHist : auRows[i].hash = auHist[k].hash
      BY <2>2, <1>9 DEF AuditInv, AuKnown
    <3>2. k \in DOMAIN auHist' /\ auHist'[k] = auHist[k]
      BY <1>7
    <3> QED BY <2>2, <3>1, <3>2, <1>9
  <2> QED BY <2>1, <2>2, <1>9, <1>11
<1>14. auEdits' = 0 => auRows' = auHist' /\ verify_chain(auRows')
  BY <1>1, <1>2, <1>4 DEF AuditInv
<1>15. auClock' \in Nat /\ auLastId' \in Nat /\ auEdits' \in Nat
  BY <1>1, <1>2, <1>3, <1>5
<1> QED BY <1>4, <1>12, <1>13, <1>14, <1>15 DEF AuditInv, AuKnown

\* So does every edit.
LEMMA AuditEdits ==
  ASSUME AuditInv, AuditEdit
  PROVE  AuditInv'
<1>1. /\ auClock \in Nat /\ auLastId \in Nat /\ auEdits \in Nat
      /\ auRows \in Seq(AuRow) /\ auHist \in Seq(AuRow)
  BY DEF AuditInv
<1>2. auEdits' = auEdits + 1 /\ auLastId' = auLastId /\ auClock' = auClock /\ auHist' = auHist
  BY DEF AuditEdit
<1>3. ASSUME auRows' \in Seq(AuRow),
             \A i \in DOMAIN auRows' : \E k \in DOMAIN auRows : auRows'[i].hash = auRows[k].hash
      PROVE  AuditInv'
  <2>1. ASSUME NEW i \in DOMAIN auRows' PROVE \E k \in DOMAIN auHist' : auRows'[i].hash = auHist'[k].hash
    BY <1>2, <1>3 DEF AuditInv, AuKnown
  <2>2. auEdits' # 0 /\ auEdits' \in Nat
    BY <1>1, <1>2
  <2> QED BY <1>1, <1>2, <1>3, <2>1, <2>2 DEF AuditInv, AuKnown
<1>4. PICK i \in DOMAIN auRows :
         \/ auRows' = RemoveAt(auRows, i)
         \/ auRows' = [auRows EXCEPT ![i].prev_hash = NoHash]
         \/ \E e \in AuFields : auRows' = [auRows EXCEPT ![i].ev = e]
         \/ \E j \in DOMAIN auRows : auRows' = [auRows EXCEPT ![i].hash = auRows[j].hash]
  BY DEF AuditEdit
<1>5. \A k \in DOMAIN auRows : auRows[k] \in AuRow
  BY <1>1
<1>6. CASE auRows' = RemoveAt(auRows, i)
  BY <1>1, <1>3, <1>6, RemovedRows
<1>7. ASSUME NEW row \in AuRow, auRows' = [auRows EXCEPT ![i] = row],
             \E k \in DOMAIN auRows : row.hash = auRows[k].hash
      PROVE  AuditInv'
  <2>1. auRows' \in Seq(AuRow)
    BY <1>1, <1>7
  <2>2. ASSUME NEW j \in DOMAIN auRows' PROVE \E k \in DOMAIN auRows : auRows'[j].hash = auRows[k].hash
    BY <1>7
  <2> QED BY <1>3, <2>1, <2>2
<1>8. CASE auRows' = [auRows EXCEPT ![i].prev_hash = NoHash]
  <2>1. PICK row : row = [auRows[i] EXCEPT !.prev_hash = NoHash]
    OBVIOUS
  <2>2. auRows[i] \in AuRow /\ NoHash \in Seq(AuBytes)
    BY <1>5 DEF NoHash
  <2>3. row \in AuRow /\ row.hash = auRows[i].hash
    BY <2>1, <2>2 DEF AuRow
  <2> QED BY <1>7, <1>8, <2>1, <2>3
<1>9. ASSUME NEW e \in AuFields, auRows' = [auRows EXCEPT ![i].ev = e] PROVE AuditInv'
  <2>1. PICK row : row = [auRows[i] EXCEPT !.ev = e]
    OBVIOUS
  <2>2. row \in AuRow /\ row.hash = auRows[i].hash
    BY <1>5, <2>1 DEF AuRow
  <2> QED BY <1>7, <1>9, <2>1, <2>2
<1>10. ASSUME NEW j \in DOMAIN auRows, auRows' = [auRows EXCEPT ![i].hash = auRows[j].hash] PROVE AuditInv'
  <2>1. PICK row : row = [auRows[i] EXCEPT !.hash = auRows[j].hash]
    OBVIOUS
  <2>2. row \in AuRow /\ row.hash = auRows[j].hash
    BY <1>5, <2>1 DEF AuRow
  <2> QED BY <1>7, <1>10, <2>1, <2>2
<1> QED BY <1>4, <1>6, <1>8, <1>9, <1>10

\* And so every step.
LEMMA AuditStep ==
  ASSUME AuditInv, AuditNext \/ UNCHANGED auVars
  PROVE  AuditInv'
<1>1. CASE UNCHANGED auVars
  BY <1>1 DEF auVars, AuditInv, AuKnown, verify_chain, last_hash, event_hash
<1>2. CASE AuditNext
  BY <1>2, AuditAppends, AuditEdits DEF AuditNext
<1> QED BY <1>1, <1>2

\* The bytes a row hashes.
LEMMA RowBytes ==
  ASSUME NEW r \in AuRow
  PROVE  HashedBytes(r.ts, r.ev) \in AuBytes
<1>1. r.ts \in Nat /\ r.ev \in AuFields
  BY DEF AuRow
<1> QED BY <1>1 DEF AuBytes

\* Along a verified chain hashes grow by one step a row.
LEMMA HashesGrow ==
  ASSUME NEW rows \in Seq(AuRow), verify_chain(rows)
  PROVE  \A i \in DOMAIN rows : Len(rows[i].hash) = i
<1> DEFINE Bad == {i \in DOMAIN rows : Len(rows[i].hash) # i}
<1>1. SUFFICES ASSUME Bad # {} PROVE FALSE
  OBVIOUS
<1>2. Bad \subseteq Nat
  OBVIOUS
<1>3. PICK i \in Bad : \A j \in Bad : i <= j
  BY <1>1, <1>2, LeastNat
<1>4. i \in DOMAIN rows /\ i \in Nat /\ 1 <= i /\ Len(rows[i].hash) # i
  OBVIOUS
<1>5. RowHolds(rows, i)
  BY <1>4, VerifiedRows
<1>6. rows[i] \in AuRow
  BY <1>4
<1>7. HashedBytes(rows[i].ts, rows[i].ev) \in AuBytes
  BY <1>6 DEF AuRow, AuBytes
<1>8. CASE i = 1
  <2>1. rows[i].hash = Append(<<>>, HashedBytes(rows[i].ts, rows[i].ev))
    BY <1>5, <1>8 DEF RowHolds, event_hash, NoHash
  <2>2. <<>> \in Seq(AuBytes) /\ Len(<<>>) = 0
    OBVIOUS
  <2>3. Len(rows[i].hash) = 1
    BY <1>7, <2>1, <2>2
  <2> QED BY <1>4, <1>8, <2>3
<1>9. CASE i # 1
  <2>1. i - 1 \in DOMAIN rows /\ i - 1 \notin Bad
    BY <1>3, <1>4, <1>9
  <2>2. rows[i - 1] \in AuRow /\ Len(rows[i - 1].hash) = i - 1
    BY <2>1
  <2>3. PICK h \in Seq(AuBytes) : h = rows[i - 1].hash
    BY <2>2 DEF AuRow
  <2>4. rows[i].hash = Append(h, HashedBytes(rows[i].ts, rows[i].ev))
    BY <1>5, <1>9, <2>3 DEF RowHolds, event_hash
  <2>5. Len(rows[i].hash) = Len(h) + 1
    BY <1>7, <2>3, <2>4
  <2> QED BY <1>4, <2>2, <2>3, <2>5
<1> QED BY <1>8, <1>9

\* What the invariant gives.
LEMMA AuditInvVerifies == AuditInv => VerifiedIsAppended
<1> SUFFICES ASSUME AuditInv PROVE VerifiedIsAppended
  OBVIOUS
<1>1. auRows \in Seq(AuRow) /\ auHist \in Seq(AuRow)
  BY DEF AuditInv
<1>2. /\ \A i \in DOMAIN auRows : auRows[i] \in AuRow
      /\ \A k \in DOMAIN auHist : auHist[k] \in AuRow
  BY <1>1
<1>3. ASSUME NEW i \in DOMAIN auRows, NEW k \in DOMAIN auHist
      PROVE  Said(auRows)[i] = Said(auHist)[k] <=>
                /\ HashedBytes(auRows[i].ts, auRows[i].ev) = HashedBytes(auHist[k].ts, auHist[k].ev)
                /\ auRows[i].prev_hash = auHist[k].prev_hash
                /\ auRows[i].hash = auHist[k].hash
  <2>1. /\ Said(auRows)[i] = <<HashedBytes(auRows[i].ts, auRows[i].ev), auRows[i].prev_hash, auRows[i].hash>>
        /\ Said(auHist)[k] = <<HashedBytes(auHist[k].ts, auHist[k].ev), auHist[k].prev_hash, auHist[k].hash>>
    BY Zenon DEF Said
  <2> QED BY <2>1
<1>4. ASSUME NEW i \in DOMAIN auRows, RowHolds(auRows, i)
      PROVE  \E k \in DOMAIN auHist : Said(auRows)[i] = Said(auHist)[k]
  <2>1. PICK k \in DOMAIN auHist : auRows[i].hash = auHist[k].hash
    BY DEF AuditInv, AuKnown
  <2>2. auHist[k].hash = Append(auHist[k].prev_hash, HashedBytes(auHist[k].ts, auHist[k].ev))
    BY DEF AuditInv, event_hash
  <2>3. auRows[i].hash = Append(auRows[i].prev_hash, HashedBytes(auRows[i].ts, auRows[i].ev))
    BY <1>4 DEF RowHolds, event_hash
  <2>4. auRows[i].prev_hash \in Seq(AuBytes) /\ auHist[k].prev_hash \in Seq(AuBytes)
    BY <1>2 DEF AuRow
  <2>5. /\ HashedBytes(auRows[i].ts, auRows[i].ev) \in AuBytes
        /\ HashedBytes(auHist[k].ts, auHist[k].ev) \in AuBytes
    BY <1>2, RowBytes
  <2>6. /\ auRows[i].prev_hash = auHist[k].prev_hash
        /\ HashedBytes(auRows[i].ts, auRows[i].ev) = HashedBytes(auHist[k].ts, auHist[k].ev)
    <3>1. Append(auRows[i].prev_hash, HashedBytes(auRows[i].ts, auRows[i].ev))
             = Append(auHist[k].prev_hash, HashedBytes(auHist[k].ts, auHist[k].ev))
      BY ONLY <2>1, <2>2, <2>3, Zenon
    <3>2. PICK s \in Seq(AuBytes), t \in Seq(AuBytes) : s = auRows[i].prev_hash /\ t = auHist[k].prev_hash
      BY ONLY <2>4, Zenon
    <3>3. PICK a \in AuBytes, b \in AuBytes :
             a = HashedBytes(auRows[i].ts, auRows[i].ev) /\ b = HashedBytes(auHist[k].ts, auHist[k].ev)
      BY ONLY <2>5, Zenon
    <3>4. Append(s, a) = Append(t, b)
      BY ONLY <3>1, <3>2, <3>3, Zenon
    <3>5. s = t /\ a = b
      BY ONLY <3>4, s \in Seq(AuBytes), t \in Seq(AuBytes), a \in AuBytes, b \in AuBytes, AppendOnce
    <3> QED BY ONLY <3>2, <3>3, <3>5, Zenon
  <2> QED BY ONLY <1>3, <2>1, <2>6, Zenon
<1>5. ASSUME NEW i \in DOMAIN auRows, NEW k \in DOMAIN auHist, Said(auRows)[i] = Said(auHist)[k],
             auRows[i].prev_hash = last_hash(SubSeq(auRows, 1, i - 1))
      PROVE  RowHolds(auRows, i)
  <2>1. auHist[k].hash = Append(auHist[k].prev_hash, HashedBytes(auHist[k].ts, auHist[k].ev))
    BY DEF AuditInv, event_hash
  <2>2. auRows[i].hash = Append(auRows[i].prev_hash, HashedBytes(auRows[i].ts, auRows[i].ev))
    BY ONLY <1>3, <1>5, <2>1, Zenon
  <2>3. auRows[i].prev_hash = IF i = 1 THEN NoHash ELSE auRows[i - 1].hash
    BY <1>1, <1>5, HashBefore
  <2> QED BY <2>2, <2>3 DEF RowHolds, event_hash
<1>6. verify_chain(auRows) <=> \A i \in DOMAIN auRows : RowHolds(auRows, i)
  BY <1>1, VerifiedRows
<1>7. ASSUME NEW i \in DOMAIN auRows, RowHolds(auRows, i)
      PROVE  auRows[i].prev_hash = last_hash(SubSeq(auRows, 1, i - 1))
  BY <1>1, <1>7, HashBefore DEF RowHolds
<1>8. verify_chain(auRows) <=>
          \A i \in DOMAIN auRows :
              /\ \E k \in DOMAIN auHist : Said(auRows)[i] = Said(auHist)[k]
              /\ auRows[i].prev_hash = last_hash(SubSeq(auRows, 1, i - 1))
  BY ONLY <1>4, <1>5, <1>6, <1>7, Zenon
<1>9. ASSUME verify_chain(auRows), NEW i \in DOMAIN auRows, NEW j \in DOMAIN auRows,
             auRows[i].hash = auRows[j].hash
      PROVE  i = j
  <2>1. Len(auRows[i].hash) = i /\ Len(auRows[j].hash) = j
    BY <1>1, <1>9, HashesGrow
  <2> QED BY <1>9, <2>1
<1>10. auEdits = 0 => auRows = auHist /\ verify_chain(auRows)
  BY DEF AuditInv
<1> QED BY ONLY <1>8, <1>9, <1>10, Zenon DEF VerifiedIsAppended

\* Audit chain: whatever was edited and appended since, audit_verify says
\* "verified" exactly when every row says what an appended row said and stands
\* on the hash of the row before it; then no row is there twice; and a log
\* nobody edited is the one appended and verifies.
THEOREM VerifiedLogsWereAppended == Spec => []VerifiedIsAppended
<1>1. Init => AuditInv
  BY AuditInitInv DEF Init
<1>2. AuditInv /\ [Next]_vars => AuditInv'
  BY OneComponentMoves, AuditStep
<1> QED BY <1>1, <1>2, AuditInvVerifies, PTL DEF Spec

\* Calendar: on every day from year 1 on the program's date is the one on the
\* wall until the year 9999 ends; the days, weeks, months, quarters and years
\* its phrases stand for follow each other without a gap or an overlap; and a
\* stamp it prints in any time zone it reads back as the same day and second.
THEOREM DatesAreRight == Spec => []CalendarIsRight
<1>1. Init => CalInv
  BY CalInvInit DEF Init
<1>2. CalInv /\ [Next]_vars => CalInv'
  BY OneComponentMoves, CalStep
<1>3. CalInv => CalendarIsRight
  BY CalInvIsEnough DEF CalendarIsRight
<1> QED BY <1>1, <1>2, <1>3, PTL DEF Spec
=============================================================================
