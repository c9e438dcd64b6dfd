---------------------------- MODULE HandleClaims ----------------------------
(***************************************************************************)
(* Proving that one controls a Codeforces handle (contestiq_api/handles.py) *)
(* and the accounts that do (supabase_auth.resolve_internal_user,          *)
(* auth.create_user, routes/admin.delete_user).  A user starts a claim and gets a code, puts *)
(* the code on the public profile of the handle, and asks for the claim to *)
(* be verified: the profile is fetched live, and handle_owners receives    *)
(* the handle in one transaction.  Requests run in threads; every `with    *)
(* store.connect()` block is one step, as is each clock reading and the    *)
(* fetch between them.                                                     *)
(*                                                                         *)
(* A code is identified with its claim: secrets.token_hex is taken not to  *)
(* repeat, the code is set when the claim is inserted, and every UPDATE    *)
(* that takes a claim out of 'pending' clears it.                          *)
(***************************************************************************)
EXTENDS Naturals

CONSTANTS
  Users,       \* user_ids, each with the credential that signs it in
  Handles,     \* canonical Codeforces handles
  Threads,     \* requests served at one time
  MaxClaims,   \* bound: claims issued
  FreeText,    \* a handle column as create_user sets it: nobody has verified it
  Nobody       \* no account, no handle

ASSUME HandleAssumption ==
  /\ MaxClaims \in Nat
  /\ Nobody \notin Users \cup Handles
  /\ FreeText \notin Handles

ClaimIds == 1..MaxClaims
NoClaim == 0
Terminal == {"verified", "expired", "superseded"}

VARIABLES
  account,     \* users: row present or not, and its handle column
  claims,      \* handle_claims by claim_id; status "none" when there is no row
  issued,      \* claims ever inserted: claim_ids are 1..issued
  owners,      \* handle_owners by handle
  profile,     \* the claim whose code each public profile shows now
  late,        \* claims whose expires_at is past
  shown,       \* history: profiles that showed a code before its claim was late
  pc,          \* where each request is
  req          \* its caller and argument, and the clock read before the commit

tables == <<account, claims, issued, owners>>
world == <<profile, late, shown>>
vars == <<account, claims, issued, owners, profile, late, shown, pc, req>>

Columns == [user : Users \cup {Nobody}, claim : 0..MaxClaims]
NoOwner == [user |-> Nobody, claim |-> NoClaim]
NoRow == [status |-> "none", user |-> Nobody, handle |-> Nobody]
Idle == [user |-> Nobody, handle |-> Nobody, claim |-> NoClaim, fresh |-> FALSE]

Init ==
  /\ account = [u \in Users |-> [status |-> "absent", handle |-> Nobody]]
  /\ claims = [c \in ClaimIds |-> NoRow]
  /\ issued = 0
  /\ owners = [h \in Handles |-> NoOwner]
  /\ profile = [h \in Handles |-> NoClaim]
  /\ late = {}
  /\ shown = {}
  /\ pc = [t \in Threads |-> "idle"]
  /\ req = [t \in Threads |-> Idle]

-----------------------------------------------------------------------------
Active(u) == account[u].status = "active"
Owned(h) == owners[h].user # Nobody
Pending(c) == claims[c].status = "pending"

\* UPDATE handle_claims SET status = ..., verification_code = '' WHERE ... pending
Settle(cs, status) ==
  [c \in ClaimIds |->
     IF c \in cs /\ Pending(c) THEN [claims[c] EXCEPT !.status = status] ELSE claims[c]]

Goto(t, label) == pc' = [pc EXCEPT ![t] = label]

\* The request answers or raises: the locals of its thread are gone.
Return(t) ==
  /\ pc' = [pc EXCEPT ![t] = "idle"]
  /\ req' = [req EXCEPT ![t] = Idle]

-----------------------------------------------------------------------------
(* Accounts. *)

\* resolve_internal_user: the first sign-in creates the account, in the
\* transaction that records its identity.  Later ones find it; once the account
\* is deleted its identity row still names it, and sign-in fails.
SignUp(u) ==
  /\ account[u].status = "absent"
  /\ account' = [account EXCEPT ![u].status = "active"]
  /\ UNCHANGED <<claims, issued, owners, world, pc, req>>

\* create_user, which an administrator calls: the account starts with a handle column
\* that may say anything, the handle of another account too; handle_owners is not
\* touched.  Without a handle it is SignUp.
CreateUser(u) ==
  /\ account[u].status = "absent"
  /\ account' = [account EXCEPT ![u] = [status |-> "active", handle |-> FreeText]]
  /\ UNCHANGED <<claims, issued, owners, world, pc, req>>

\* Mutant of DeleteUser: handle_owners is not in _USER_DATA_TABLES.
DeleteUserOnly(u) ==
  /\ Active(u)
  /\ account' = [account EXCEPT ![u] = [status |-> "deleted", handle |-> Nobody]]
  /\ claims' = [c \in ClaimIds |-> IF claims[c].user = u THEN NoRow ELSE claims[c]]
  /\ UNCHANGED <<issued, owners, world, pc, req>>

\* delete_user: ownerships, claims and the account, in one transaction.
DeleteUser(u) ==
  /\ Active(u)
  /\ owners' = [h \in Handles |-> IF owners[h].user = u THEN NoOwner ELSE owners[h]]
  /\ claims' = [c \in ClaimIds |-> IF claims[c].user = u THEN NoRow ELSE claims[c]]
  /\ account' = [account EXCEPT ![u] = [status |-> "deleted", handle |-> Nobody]]
  /\ UNCHANGED <<issued, world, pc, req>>

\* admin_bind: BEGIN IMMEDIATE, then the account and the owner are read.  A
\* handle that the account owns already keeps its row.
AdminBind(u, h) ==
  /\ Active(u)
  /\ owners[h].user \in {Nobody, u}
  /\ owners' = [owners EXCEPT ![h] = IF Owned(h) THEN @ ELSE [user |-> u, claim |-> NoClaim]]
  /\ account' = [account EXCEPT ![u].handle = h]
  /\ UNCHANGED <<claims, issued, world, pc, req>>

\* list_claims_for_user and get_active_claim expire what is late as they read.
ReadClaims(u) ==
  /\ Active(u)
  /\ claims' = Settle({c \in late : claims[c].user = u}, "expired")
  /\ UNCHANGED <<account, issued, owners, world, pc, req>>

-----------------------------------------------------------------------------
(* start_claim *)

\* The caller is authenticated and the owner of the handle is read; the request
\* goes no further when there is one, be it the caller or another account.
StartRead(t, u, h) ==
  /\ pc[t] = "idle"
  /\ Active(u)
  /\ ~ Owned(h)
  /\ req' = [req EXCEPT ![t] = [Idle EXCEPT !.user = u, !.handle = h]]
  /\ Goto(t, "insert")
  /\ UNCHANGED <<tables, world>>

\* Mutant of StartInsert: only the pending claims of the same handle are superseded.
StartInsertSame(t) ==
  LET u == req[t].user
      c == issued + 1
  IN
  /\ pc[t] = "insert"
  /\ issued < MaxClaims
  /\ issued' = c
  /\ claims' = [Settle({d \in ClaimIds : claims[d].user = u /\ claims[d].handle = req[t].handle},
                       "superseded")
                EXCEPT ![c] = [status |-> "pending", user |-> u, handle |-> req[t].handle]]
  /\ Return(t)
  /\ UNCHANGED <<account, owners, world>>

\* Every pending claim of the account gives way to the new one.  Nothing checks
\* that the account still exists: foreign keys are not enforced.
StartInsert(t) ==
  LET u == req[t].user
      c == issued + 1
  IN
  /\ pc[t] = "insert"
  /\ issued < MaxClaims
  /\ issued' = c
  /\ claims' = [Settle({d \in ClaimIds : claims[d].user = u}, "superseded")
                EXCEPT ![c] = [status |-> "pending", user |-> u, handle |-> req[t].handle]]
  /\ Return(t)
  /\ UNCHANGED <<account, owners, world>>

-----------------------------------------------------------------------------
(* verify_claim *)

\* Mutant of GetClaim: the claim may be another account's.
GetClaimOfAnyone(t, u, c) ==
  LET now == Settle({c} \cap late, "expired") IN
  /\ pc[t] = "idle"
  /\ Active(u)
  /\ c <= issued
  /\ claims' = now
  /\ IF now[c].status = "pending"
     THEN /\ req' = [req EXCEPT ![t] = [Idle EXCEPT !.user = u, !.claim = c,
                                                    !.handle = now[c].handle]]
          /\ Goto(t, "owner")
     ELSE UNCHANGED <<pc, req>>
  /\ UNCHANGED <<account, issued, owners, world>>

\* The caller is authenticated; get_claim expires the claim if it is late, and the
\* request goes on with a pending claim of the caller.  A claim_id is known only
\* once start_claim has returned it.
GetClaim(t, u, c) ==
  LET now == Settle({c} \cap late, "expired") IN
  /\ pc[t] = "idle"
  /\ Active(u)
  /\ c <= issued
  /\ claims' = now
  /\ IF now[c].status = "pending" /\ now[c].user = u
     THEN /\ req' = [req EXCEPT ![t] = [Idle EXCEPT !.user = u, !.claim = c,
                                                    !.handle = now[c].handle]]
          /\ Goto(t, "owner")
     ELSE UNCHANGED <<pc, req>>
  /\ UNCHANGED <<account, issued, owners, world>>

\* The clock is read again, then the owner.
CheckOwner(t) ==
  LET c == req[t].claim IN
  /\ pc[t] = "owner"
  /\ IF c \in late
     THEN claims' = Settle({c}, "expired") /\ Return(t)
     ELSE /\ Goto(t, IF Owned(req[t].handle) THEN "supersede" ELSE "fetch")
          /\ UNCHANGED <<claims, req>>
  /\ UNCHANGED <<account, issued, owners, world>>

\* The handle has an owner already: the claim is of no use.
Supersede(t) ==
  /\ pc[t] = "supersede"
  /\ claims' = Settle({req[t].claim}, "superseded")
  /\ Return(t)
  /\ UNCHANGED <<account, issued, owners, world>>

\* The live fetch fails, or shows something else, or shows the code.
Fetch(t) ==
  /\ pc[t] = "fetch"
  /\ \/ profile[req[t].handle] = req[t].claim /\ Goto(t, "clock") /\ UNCHANGED req
     \/ Return(t)
  /\ UNCHANGED <<tables, world>>

\* now_dt is read after the fetch, before the write lock is obtained.
ReadClock(t) ==
  /\ pc[t] = "clock"
  /\ req' = [req EXCEPT ![t].fresh = req[t].claim \notin late]
  /\ Goto(t, "bind")
  /\ UNCHANGED <<tables, world>>

\* Mutant of Commit: the expiry is not tested again after the fetch.
CommitLate(t) ==
  LET c == req[t].claim
      h == req[t].handle
      u == req[t].user
  IN
  /\ pc[t] = "bind"
  /\ Pending(c) /\ ~ Owned(h)
  /\ owners' = [owners EXCEPT ![h] = [user |-> u, claim |-> c]]
  /\ claims' = Settle({c}, "verified")
  /\ account' = [account EXCEPT ![u].handle = h]
  /\ Return(t)
  /\ UNCHANGED <<issued, world>>

\* BEGIN IMMEDIATE: the claim is read again, then the owner.  The handle is
\* bound if the claim is still pending, was not late, and nobody owns it.
Commit(t) ==
  LET c == req[t].claim
      h == req[t].handle
      u == req[t].user
  IN
  /\ pc[t] = "bind"
  /\ \/ /\ ~ Pending(c)
        /\ UNCHANGED <<account, claims, owners>>
     \/ /\ Pending(c) /\ ~ req[t].fresh
        /\ claims' = Settle({c}, "expired")
        /\ UNCHANGED <<account, owners>>
     \/ /\ Pending(c) /\ req[t].fresh /\ Owned(h)
        /\ claims' = Settle({c}, "superseded")
        /\ UNCHANGED <<account, owners>>
     \/ /\ Pending(c) /\ req[t].fresh /\ ~ Owned(h)
        /\ owners' = [owners EXCEPT ![h] = [user |-> u, claim |-> c]]
        /\ claims' = Settle({c}, "verified")
        /\ account' = [account EXCEPT ![u].handle = h]
  /\ Return(t)
  /\ UNCHANGED <<issued, world>>

\* The process stops, or the database stays locked beyond its timeout.
Lost(t) ==
  /\ pc[t] # "idle"
  /\ Return(t)
  /\ UNCHANGED <<tables, world>>

-----------------------------------------------------------------------------
(* The world outside. *)

\* Whoever controls the handle sets the Organization field to the code of a claim
\* to it.
ShowCode(h, c) ==
  /\ claims[c].handle = h
  /\ profile' = [profile EXCEPT ![h] = c]
  /\ shown' = IF c \in late THEN shown ELSE shown \cup {<<h, c>>}
  /\ UNCHANGED <<tables, late, pc, req>>

\* CLAIM_TTL_MINUTES have passed since the claim was started.
TimePasses(c) ==
  /\ c <= issued
  /\ c \notin late
  /\ late' = late \cup {c}
  /\ UNCHANGED <<tables, profile, shown, pc, req>>

Request(t) ==
  \/ \E u \in Users, h \in Handles : StartRead(t, u, h)
  \/ StartInsert(t)
  \/ \E u \in Users, c \in ClaimIds : GetClaim(t, u, c)
  \/ CheckOwner(t)
  \/ Supersede(t)
  \/ Fetch(t)
  \/ ReadClock(t)
  \/ Commit(t)
  \/ Lost(t)

Next ==
  \/ \E u \in Users : SignUp(u)
  \/ \E u \in Users : CreateUser(u)
  \/ \E u \in Users : DeleteUser(u)
  \/ \E u \in Users : ReadClaims(u)
  \/ \E u \in Users, h \in Handles : AdminBind(u, h)
  \/ \E t \in Threads : Request(t)
  \/ \E h \in Handles, c \in ClaimIds : ShowCode(h, c)
  \/ \E c \in ClaimIds : TimePasses(c)

Spec == Init /\ [][Next]_vars

-----------------------------------------------------------------------------
(* Properties *)

TablesTyped ==
  /\ account \in [Users -> [status : {"absent", "active", "deleted"},
                            handle : Handles \cup {FreeText, Nobody}]]
  /\ claims \in [ClaimIds -> [status : Terminal \cup {"none", "pending"},
                              user : Users \cup {Nobody},
                              handle : Handles \cup {Nobody}]]
  /\ issued \in 0..MaxClaims
  /\ owners \in [Handles -> Columns]
  /\ profile \in [Handles -> 0..MaxClaims]
  /\ late \subseteq ClaimIds
  /\ shown \subseteq Handles \X ClaimIds

Locals == [user : Users \cup {Nobody}, handle : Handles \cup {Nobody},
           claim : 0..MaxClaims, fresh : BOOLEAN]

LocalsTyped ==
  /\ pc \in [Threads -> {"idle", "insert", "owner", "supersede", "fetch", "clock", "bind"}]
  /\ req \in [Threads -> Locals]

\* A handle owned by self-verification was proved: its public profile showed the
\* code of that very claim before the claim expired, however long the fetch, the
\* wait for the lock and other requests took (handles.py, "short-lived,
\* single-use verification code").
ProvedInTime ==
  \A h \in Handles : owners[h].claim # NoClaim => <<h, owners[h].claim>> \in shown

\* Claims and ownerships agree: a verified claim is the one by which its account
\* owns its handle, and an ownership by self-verification names a claim that is
\* still there, verified, for the same account and handle; an account has one
\* pending claim at most ("One active pending claim per account"); and the handle
\* column of an account, once a verification or an administrator has bound it, names
\* a handle the account owns.  What create_user wrote proves nothing ("An
\* unverified/admin-set users.handle value grants no handle-scoped privileges").
ClaimsAndOwnersAgree ==
  /\ \A c \in ClaimIds :
       claims[c].status = "verified" =>
         owners[claims[c].handle] = [user |-> claims[c].user, claim |-> c]
  /\ \A h \in Handles :
       owners[h].claim # NoClaim =>
         claims[owners[h].claim] = [status |-> "verified", user |-> owners[h].user, handle |-> h]
  /\ \A c, d \in ClaimIds :
       Pending(c) /\ Pending(d) /\ claims[c].user = claims[d].user => c = d
  /\ \A u \in Users :
       account[u].handle \in Handles => owners[account[u].handle].user = u

\* handle_owners implements its contract: one owner at a time, who exists, and
\* who keeps the handle until the account is deleted.
Contract == INSTANCE HandleContract WITH
  existing <- {u \in Users : Active(u)},
  closed <- {u \in Users : account[u].status = "deleted"},
  owner <- [h \in Handles |-> owners[h].user]
ImplementsContract == Contract!Spec

-----------------------------------------------------------------------------
(* What the proofs need besides. *)

Present(c) == claims[c].status # "none"

\* A row has an account and a handle; a row that is gone has neither.
RowsSound ==
  \A c \in ClaimIds :
    /\ Present(c) => /\ c <= issued
                     /\ claims[c].user \in Users
                     /\ claims[c].handle \in Handles
    /\ ~ Present(c) => claims[c] = NoRow

\* What a profile shows, it showed before the claim was late or after.
Seen(h, c) == <<h, c>> \in shown \/ c \in late
ProfileSound ==
  \A h \in Handles : profile[h] # NoClaim => profile[h] \in ClaimIds /\ Seen(h, profile[h])

\* A request in verify_claim is about the claim it has read: if the row is still
\* there, it is the caller's, and the account exists; from the fetch on, the code
\* was seen, and before the claim was late if the clock says so.
RequestSound(t) ==
  LET c == req[t].claim
      h == req[t].handle
  IN
  /\ pc[t] # "idle" => req[t].user \in Users /\ h \in Handles
  /\ pc[t] \notin {"idle", "insert"} =>
       /\ c \in 1..issued
       /\ Present(c) => /\ claims[c].user = req[t].user
                        /\ claims[c].handle = h
                        /\ Active(req[t].user)
  /\ pc[t] = "clock" => Seen(h, c)
  /\ pc[t] = "bind" /\ req[t].fresh => <<h, c>> \in shown

\* An owner exists, and owns by the claim it verified or by an administrator.
OwnersSound ==
  \A h \in Handles :
    /\ Owned(h) => Active(owners[h].user)
    /\ ~ Owned(h) => owners[h] = NoOwner

TablesSound ==
  /\ TablesTyped
  /\ RowsSound
  /\ ProfileSound
  /\ OwnersSound
  /\ ClaimsAndOwnersAgree
  /\ ProvedInTime

\* The inductive invariant.
HandleInv ==
  /\ TablesSound
  /\ LocalsTyped
  /\ \A t \in Threads : RequestSound(t)
=============================================================================
