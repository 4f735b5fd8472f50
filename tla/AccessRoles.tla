---------------------------- MODULE AccessRoles ----------------------------
(***************************************************************************)
(* Spaces, roles and the role cache (crates/synapse-rbac).  A host creates *)
(* spaces, grants and revokes roles and invalidates the cache entry after  *)
(* each change; its threads call enforce_cached, whose two table reads and *)
(* cache write are not one step; rbac_check of the MCP server calls the    *)
(* uncached enforce.                                                       *)
(***************************************************************************)
EXTENDS Integers, FiniteSets

CONSTANTS RaSpaces, RaUsers, RaThreads,
          RaMaxChanges     \* bound on creations, grants and revocations

VARIABLES raOwner,     \* spaces: name -> owner, "none" while there is no row
          raRoles,     \* rbac_roles: <<space, user>> -> role
          raCache,     \* RoleCache
          raCreating,  \* create_space between its two inserts
          raDirty,     \* keys changed and not invalidated yet
          raCall,      \* thread -> its enforce_cached call
          raChanges,
          raLate       \* keys whose entry was written from a lookup older than a change

raVars == <<raOwner, raRoles, raCache, raCreating, raDirty, raCall, raChanges, raLate>>

NoRole == "none"
RoleNames == {"owner", "editor", "reader"}
Permissions == {"read", "write", "delete", "admin"}
Keys == RaSpaces \X RaUsers
NoCall == [key |-> <<>>, got |-> NoRole, old |-> FALSE]

\* Role::grants.
grants(role, perm) ==
    \/ role = "owner"
    \/ role = "editor" /\ perm \in {"read", "write"}
    \/ role = "reader" /\ perm = "read"

AccessInit ==
    /\ raOwner = [s \in RaSpaces |-> NoRole]
    /\ raRoles = [k \in Keys |-> NoRole]
    /\ raCache = [k \in Keys |-> NoRole]
    /\ raCreating = <<>>
    /\ raDirty = {} /\ raLate = {} /\ raChanges = 0
    /\ raCall = [t \in RaThreads |-> NoCall]

\* A change of the table: calls that have read the old row carry it.
Changed(k, role) ==
    /\ raRoles' = [raRoles EXCEPT ![k] = role]
    /\ raDirty' = raDirty \cup {k}
    /\ raCall' = [t \in RaThreads |-> IF raCall[t].key = k THEN [raCall[t] EXCEPT !.old = TRUE] ELSE raCall[t]]

\* create_space: the row of spaces (its name is UNIQUE), then the owner's
\* role.  The process may die in between.
CreateSpace(s, u) ==
    /\ raCreating = <<>> /\ raChanges < RaMaxChanges
    /\ raOwner[s] = NoRole
    /\ raOwner' = [raOwner EXCEPT ![s] = u]
    /\ raCreating' = <<s, u>>
    /\ raChanges' = raChanges + 1
    /\ UNCHANGED <<raRoles, raCache, raDirty, raCall, raLate>>

CreateOwnerRole ==
    /\ raCreating # <<>>
    /\ Changed(raCreating, "owner")
    /\ raCreating' = <<>>
    /\ UNCHANGED <<raOwner, raCache, raChanges, raLate>>

\* The host dies: what it kept in memory is gone.
AccessCrash ==
    /\ raCreating # <<>>
    /\ raCreating' = <<>>
    /\ raCache' = [k \in Keys |-> NoRole]
    /\ raCall' = [t \in RaThreads |-> NoCall]
    /\ raDirty' = {} /\ raLate' = {}
    /\ UNCHANGED <<raOwner, raRoles, raChanges>>

\* grant_role replaces any row of the user; revoke_role removes it.
GrantRole(s, u, role) ==
    /\ raOwner[s] # NoRole /\ raChanges < RaMaxChanges
    /\ Changed(<<s, u>>, role)
    /\ raChanges' = raChanges + 1
    /\ UNCHANGED <<raOwner, raCache, raCreating, raLate>>

RevokeRole(s, u) ==
    /\ raRoles[<<s, u>>] # NoRole /\ raChanges < RaMaxChanges
    /\ Changed(<<s, u>>, NoRole)
    /\ raChanges' = raChanges + 1
    /\ UNCHANGED <<raOwner, raCache, raCreating, raLate>>

\* Mutant of Invalidate.
InvalidateNothing(ks) == raDirty' = raDirty \ ks /\ UNCHANGED <<raOwner, raRoles, raCache, raCreating, raCall, raChanges, raLate>>

\* RoleCache::invalidate, by the host after its change, or clear.
Invalidate(ks) ==
    /\ raCache' = [k \in Keys |-> IF k \in ks THEN NoRole ELSE raCache[k]]
    /\ raDirty' = raDirty \ ks
    /\ raLate' = raLate \ ks
    /\ UNCHANGED <<raOwner, raRoles, raCreating, raCall, raChanges>>

HostInvalidates == raDirty # {} /\ (Invalidate(Keys) \/ \E k \in raDirty : Invalidate({k}))

\* enforce_cached: a miss reads the role; a space or role that is not there
\* ends the call.
CachedLookup(t, k) ==
    /\ raCall[t] = NoCall
    /\ raCache[k] = NoRole
    /\ raOwner[k[1]] # NoRole /\ raRoles[k] # NoRole
    /\ raCall' = [raCall EXCEPT ![t] = [key |-> k, got |-> raRoles[k], old |-> FALSE]]
    /\ UNCHANGED <<raOwner, raRoles, raCache, raCreating, raDirty, raChanges, raLate>>

\* cache.put, then the answer from the role that was read.
CachedPut(t) ==
    LET c == raCall[t] IN
    /\ c # NoCall
    /\ raCache' = [raCache EXCEPT ![c.key] = c.got]
    /\ raLate' = IF c.old THEN raLate \cup {c.key} ELSE raLate \ {c.key}
    /\ raCall' = [raCall EXCEPT ![t] = NoCall]
    /\ UNCHANGED <<raOwner, raRoles, raCreating, raDirty, raChanges>>

\* What the two checks answer now.
enforce(s, u, perm) == raOwner[s] # NoRole /\ raRoles[<<s, u>>] # NoRole /\ grants(raRoles[<<s, u>>], perm)
enforce_cached(s, u, perm) ==
    IF raCache[<<s, u>>] # NoRole THEN grants(raCache[<<s, u>>], perm) ELSE enforce(s, u, perm)

AccessNext ==
    \/ \E s \in RaSpaces, u \in RaUsers :
          \/ CreateSpace(s, u)
          \/ \E role \in RoleNames : GrantRole(s, u, role)
          \/ RevokeRole(s, u)
    \/ CreateOwnerRole \/ AccessCrash \/ HostInvalidates
    \/ \E t \in RaThreads : CachedPut(t) \/ \E k \in Keys : CachedLookup(t, k)

-----------------------------------------------------------------------------
(* Once the host has invalidated every change it made, the cached check     *)
(* answers like the uncached one, except for a key whose entry a thread put *)
(* back from a lookup it had made before the change: a revocation is        *)
(* overlooked by enforce_cached in no other way.                            *)
CachedCheckAgrees ==
    \A s \in RaSpaces, u \in RaUsers, perm \in Permissions :
        <<s, u>> \notin raDirty \cup raLate => (enforce_cached(s, u, perm) <=> enforce(s, u, perm))
=============================================================================
