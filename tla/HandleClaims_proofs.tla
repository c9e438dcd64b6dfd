------------------------- MODULE HandleClaims_proofs -------------------------
(***************************************************************************)
(* Proofs about HandleClaims, for any accounts, handles and requests.      *)
(* The tables are changed in few ways: claims are settled, a claim is      *)
(* inserted, a handle gets an owner, an account comes or goes.  A lemma    *)
(* says of each that it keeps the tables sound, and another, that nothing  *)
(* that another request has read is taken back (Grows).                    *)
(***************************************************************************)
EXTENDS HandleClaims, TLAPS

\* What no step takes back of what a request has read: a claim keeps its account
\* and its handle until it is gone, and the account exists as long as the claim.
Grows ==
  /\ issued <= issued'
  /\ \A c \in 1..issued :
       Present(c)' => /\ Present(c)
                      /\ claims'[c].user = claims[c].user
                      /\ claims'[c].handle = claims[c].handle
                      /\ Active(claims[c].user) => Active(claims[c].user)'
  /\ late \subseteq late'
  /\ shown \subseteq shown'

\* A request that does not move stays sound.
LEMMA GrowsKeeps ==
  ASSUME TablesTyped, TablesTyped', Grows, NEW t \in Threads, RequestSound(t),
         pc'[t] = pc[t], req'[t] = req[t]
  PROVE RequestSound(t)'
<1> DEFINE c == req[t].claim
<1>1. pc[t] \notin {"idle", "insert"} => c \in 1..issued'
  BY HandleAssumption DEF RequestSound, Grows, TablesTyped
<1>2. pc[t] \notin {"idle", "insert"} /\ Present(c)' =>
        /\ claims'[c].user = req[t].user
        /\ claims'[c].handle = req[t].handle
        /\ Active(req[t].user)'
  BY DEF RequestSound, Grows
<1>3. \A h, d : Seen(h, d) => Seen(h, d)'
  BY DEF Seen, Grows
<1> QED BY <1>1, <1>2, <1>3 DEF RequestSound, Grows

\* A request that has returned is sound.
LEMMA IdleSound ==
  ASSUME NEW t \in Threads, pc'[t] = "idle"
  PROVE RequestSound(t)'
BY DEF RequestSound

LEMMA IdleTyped == Idle \in Locals
BY HandleAssumption DEF Idle, Locals, NoClaim

-----------------------------------------------------------------------------
(* Settling claims. *)

LEMMA SettledRow ==
  ASSUME TablesTyped, NEW cs, NEW status \in Terminal, NEW c \in ClaimIds
  PROVE /\ Settle(cs, status)[c].user = claims[c].user
        /\ Settle(cs, status)[c].handle = claims[c].handle
        /\ Settle(cs, status)[c].status =
             IF c \in cs /\ Pending(c) THEN status ELSE claims[c].status
        /\ Settle(cs, status)[c] \in [status : Terminal \cup {"none", "pending"},
                                      user : Users \cup {Nobody},
                                      handle : Handles \cup {Nobody}]
        /\ claims[c].status = "none" => Settle(cs, status)[c] = claims[c]
BY DEF Settle, TablesTyped, Pending, Terminal

\* Claims that expire or are superseded leave the tables sound.
LEMMA SettleSound ==
  ASSUME TablesSound, NEW cs, NEW status \in {"expired", "superseded"},
         claims' = Settle(cs, status),
         UNCHANGED <<account, issued, owners, world>>
  PROVE TablesSound' /\ Grows
<1> USE DEF world
<1>0. TablesTyped /\ status \in Terminal
  BY DEF TablesSound, Terminal
<1>1. \A c \in ClaimIds :
        /\ claims'[c].user = claims[c].user
        /\ claims'[c].handle = claims[c].handle
        /\ claims'[c].status = IF c \in cs /\ Pending(c) THEN status ELSE claims[c].status
        /\ claims'[c] \in [status : Terminal \cup {"none", "pending"},
                           user : Users \cup {Nobody}, handle : Handles \cup {Nobody}]
        /\ claims[c].status = "none" => claims'[c] = claims[c]
  BY <1>0, SettledRow
<1>2. DOMAIN claims' = ClaimIds
  BY DEF Settle
<1>3. TablesTyped'
  <2>1. claims' \in [ClaimIds -> [status : Terminal \cup {"none", "pending"},
                                  user : Users \cup {Nobody}, handle : Handles \cup {Nobody}]]
    BY <1>1 DEF Settle
  <2> QED BY <1>0, <2>1 DEF TablesTyped
<1>4. \A c \in ClaimIds : /\ Present(c)' <=> Present(c)
                          /\ Pending(c)' => Pending(c)
                          /\ claims'[c].status = "verified" <=> claims[c].status = "verified"
  BY <1>1 DEF Present, Pending
<1>5. RowsSound'
  BY <1>1, <1>4 DEF TablesSound, RowsSound, Present
<1>6. ProfileSound' /\ OwnersSound' /\ ProvedInTime'
  BY DEF TablesSound, ProfileSound, OwnersSound, ProvedInTime, Seen, Owned, Active
<1>7. ClaimsAndOwnersAgree'
  <2>1. \A c \in ClaimIds : claims[c].status = "verified" => claims'[c] = claims[c]
    BY <1>0, <1>1 DEF TablesTyped, Pending, Settle
  <2>2. \A h \in Handles : owners[h].claim # NoClaim => owners[h].claim \in ClaimIds
    BY <1>0, HandleAssumption DEF TablesTyped, Columns, NoClaim, ClaimIds
  <2> QED BY <1>1, <1>4, <2>1, <2>2 DEF TablesSound, ClaimsAndOwnersAgree
<1>8. Grows
  <2>1. 1..issued \subseteq ClaimIds /\ issued <= issued'
    BY <1>0, HandleAssumption DEF TablesTyped, ClaimIds
  <2> QED BY <1>1, <1>4, <2>1 DEF Grows, Active
<1> QED BY <1>3, <1>5, <1>6, <1>7, <1>8 DEF TablesSound

-----------------------------------------------------------------------------
(* Accounts that come, go, and receive a handle from an administrator. *)

LEMMA SignUpSound ==
  ASSUME TablesSound, NEW u \in Users, SignUp(u)
  PROVE TablesSound' /\ Grows
<1> USE DEF world, SignUp
<1>0. TablesTyped
  BY DEF TablesSound
<1>1. /\ \A v \in Users : Active(v) => Active(v)'
      /\ \A v \in Users : account'[v].handle = account[v].handle
  BY <1>0 DEF TablesTyped, Active
<1>2. TablesTyped'
  <2>1. account' \in [Users -> [status : {"absent", "active", "deleted"},
                                handle : Handles \cup {FreeText, Nobody}]]
    BY <1>0 DEF TablesTyped
  <2> QED BY <1>0, <2>1 DEF TablesTyped
<1>3. RowsSound' /\ ProfileSound' /\ ProvedInTime'
  BY DEF TablesSound, RowsSound, ProfileSound, ProvedInTime, Present, Seen
<1>4. OwnersSound'
  <2>1. \A h \in Handles : Owned(h) => owners[h].user \in Users
    BY <1>0 DEF TablesTyped, Owned, Columns
  <2> QED BY <1>1, <2>1 DEF TablesSound, OwnersSound, Owned
<1>5. ClaimsAndOwnersAgree'
  BY <1>1 DEF TablesSound, ClaimsAndOwnersAgree, Pending
<1>6. Grows
  <2>1. 1..issued \subseteq ClaimIds /\ issued <= issued'
    BY <1>0, HandleAssumption DEF TablesTyped, ClaimIds
  <2>2. \A c \in 1..issued : Present(c) => claims[c].user \in Users
    BY <2>1 DEF TablesSound, RowsSound
  <2> QED BY <1>1, <2>1, <2>2 DEF Grows, Present
<1> QED BY <1>2, <1>3, <1>4, <1>5, <1>6 DEF TablesSound

LEMMA CreateUserSound ==
  ASSUME TablesSound, NEW u \in Users, CreateUser(u)
  PROVE TablesSound' /\ Grows
<1> USE DEF world, CreateUser
<1>0. TablesTyped
  BY DEF TablesSound
<1>1. /\ \A v \in Users : Active(v) => Active(v)'
      /\ \A v \in Users : v # u => account'[v].handle = account[v].handle
      /\ account'[u].handle \notin Handles
  BY <1>0, HandleAssumption DEF TablesTyped, Active
<1>2. TablesTyped'
  <2>1. account' \in [Users -> [status : {"absent", "active", "deleted"},
                                handle : Handles \cup {FreeText, Nobody}]]
    BY <1>0 DEF TablesTyped
  <2> QED BY <1>0, <2>1 DEF TablesTyped
<1>3. RowsSound' /\ ProfileSound' /\ ProvedInTime'
  BY DEF TablesSound, RowsSound, ProfileSound, ProvedInTime, Present, Seen
<1>4. OwnersSound'
  <2>1. \A h \in Handles : Owned(h) => owners[h].user \in Users
    BY <1>0 DEF TablesTyped, Owned, Columns
  <2> QED BY <1>1, <2>1 DEF TablesSound, OwnersSound, Owned
<1>5. ClaimsAndOwnersAgree'
  BY <1>1 DEF TablesSound, ClaimsAndOwnersAgree, Pending
<1>6. Grows
  <2>1. 1..issued \subseteq ClaimIds /\ issued <= issued'
    BY <1>0, HandleAssumption DEF TablesTyped, ClaimIds
  <2>2. \A c \in 1..issued : Present(c) => claims[c].user \in Users
    BY <2>1 DEF TablesSound, RowsSound
  <2> QED BY <1>1, <2>1, <2>2 DEF Grows, Present
<1> QED BY <1>2, <1>3, <1>4, <1>5, <1>6 DEF TablesSound

LEMMA DeleteUserSound ==
  ASSUME TablesSound, NEW u \in Users, DeleteUser(u)
  PROVE TablesSound' /\ Grows
<1> USE DEF world, DeleteUser
<1>0. TablesTyped
  BY DEF TablesSound
<1>1. \A v \in Users : /\ v # u => account'[v] = account[v]
                       /\ account'[u].handle = Nobody
  BY <1>0 DEF TablesTyped
<1>2. \A c \in ClaimIds : \/ claims'[c] = claims[c] /\ claims[c].user # u
                          \/ claims'[c] = NoRow
  OBVIOUS
<1>3. \A h \in Handles : \/ owners'[h] = owners[h] /\ owners[h].user # u
                         \/ owners[h].user = u /\ owners'[h] = NoOwner
  OBVIOUS
<1>4. TablesTyped'
  <2>1. account' \in [Users -> [status : {"absent", "active", "deleted"},
                                handle : Handles \cup {FreeText, Nobody}]]
    BY <1>0 DEF TablesTyped
  <2>2. claims' \in [ClaimIds -> [status : Terminal \cup {"none", "pending"},
                                  user : Users \cup {Nobody}, handle : Handles \cup {Nobody}]]
    BY <1>0 DEF TablesTyped, NoRow
  <2>3. owners' \in [Handles -> Columns]
    BY <1>0, HandleAssumption DEF TablesTyped, NoOwner, NoClaim, Columns
  <2> QED BY <1>0, <2>1, <2>2, <2>3 DEF TablesTyped
<1>5. RowsSound'
  BY <1>2 DEF TablesSound, RowsSound, Present, NoRow
<1>6. ProfileSound' /\ ProvedInTime'
  BY <1>3 DEF TablesSound, ProfileSound, ProvedInTime, Seen, NoOwner
<1>7. OwnersSound'
  <2>1. \A h \in Handles : Owned(h) => owners[h].user \in Users
    BY <1>0 DEF TablesTyped, Owned, Columns
  <2> QED BY <1>1, <1>3, <2>1 DEF TablesSound, OwnersSound, Owned, Active, NoOwner
<1>8. ClaimsAndOwnersAgree'
  <2>0. ClaimsAndOwnersAgree
    BY DEF TablesSound
  <2>1. \A c \in ClaimIds :
          claims'[c].status = "verified" =>
            owners'[claims'[c].handle] = [user |-> claims'[c].user, claim |-> c]
    <3> SUFFICES ASSUME NEW c \in ClaimIds, claims'[c].status = "verified"
                 PROVE owners'[claims'[c].handle] = [user |-> claims'[c].user, claim |-> c]
      OBVIOUS
    <3>1. claims'[c] = claims[c] /\ claims[c].user # u
      BY <1>2 DEF NoRow
    <3>2. claims[c].handle \in Handles
      BY <3>1 DEF TablesSound, RowsSound, Present
    <3> QED BY <1>3, <2>0, <3>1, <3>2 DEF ClaimsAndOwnersAgree
  <2>4. \A h \in Handles :
          owners'[h].claim # NoClaim =>
            claims'[owners'[h].claim] =
              [status |-> "verified", user |-> owners'[h].user, handle |-> h]
    <3> SUFFICES ASSUME NEW h \in Handles, owners'[h].claim # NoClaim
                 PROVE claims'[owners'[h].claim] =
                         [status |-> "verified", user |-> owners'[h].user, handle |-> h]
      OBVIOUS
    <3>1. owners'[h] = owners[h] /\ owners[h].user # u
      BY <1>3 DEF NoOwner
    <3>2. owners[h].claim \in ClaimIds
      BY <1>0, <3>1, HandleAssumption DEF TablesTyped, Columns, NoClaim, ClaimIds
    <3> QED BY <2>0, <3>1, <3>2 DEF ClaimsAndOwnersAgree
  <2>2. \A c, d \in ClaimIds :
          Pending(c)' /\ Pending(d)' /\ claims'[c].user = claims'[d].user => c = d
    BY <1>2, <2>0 DEF ClaimsAndOwnersAgree, Pending, NoRow
  <2>3. \A v \in Users :
          account'[v].handle \in Handles => owners'[account'[v].handle].user = v
    <3> SUFFICES ASSUME NEW v \in Users, account'[v].handle \in Handles
                 PROVE owners'[account'[v].handle].user = v
      OBVIOUS
    <3>1. v # u /\ account'[v] = account[v]
      BY <1>1, HandleAssumption
    <3>2. account[v].handle \in Handles /\ owners[account[v].handle].user = v
      BY <1>0, <2>0, <3>1 DEF ClaimsAndOwnersAgree, TablesTyped
    <3> QED BY <1>3, <3>1, <3>2
  <2> QED BY <2>1, <2>2, <2>3, <2>4 DEF ClaimsAndOwnersAgree
<1>9. Grows
  <2>1. 1..issued \subseteq ClaimIds /\ issued <= issued'
    BY <1>0, HandleAssumption DEF TablesTyped, ClaimIds
  <2>2. ASSUME NEW c \in 1..issued, Present(c)'
        PROVE /\ Present(c)
              /\ claims'[c].user = claims[c].user
              /\ claims'[c].handle = claims[c].handle
              /\ Active(claims[c].user) => Active(claims[c].user)'
    <3>1. claims'[c] = claims[c] /\ claims[c].user # u
      BY <1>2, <2>1, <2>2 DEF Present, NoRow
    <3>2. claims[c].user \in Users
      BY <2>1, <2>2, <3>1 DEF Present, TablesSound, RowsSound
    <3> QED BY <1>1, <2>2, <3>1, <3>2 DEF Present, Active
  <2> QED BY <2>1, <2>2 DEF Grows
<1> QED BY <1>4, <1>5, <1>6, <1>7, <1>8, <1>9 DEF TablesSound

\* What an administrator binds by hand was free, or the account's already.
LEMMA AdminBindSound ==
  ASSUME TablesSound, NEW u \in Users, NEW h \in Handles, AdminBind(u, h)
  PROVE TablesSound' /\ Grows
<1> USE DEF world, AdminBind
<1>0. TablesTyped
  BY DEF TablesSound
<1>1. /\ \A v \in Users : Active(v) <=> Active(v)'
      /\ \A v \in Users : v # u => account'[v].handle = account[v].handle
      /\ account'[u].handle = h
  BY <1>0 DEF TablesTyped, Active
<1>2. /\ \A g \in Handles : owners'[g] = owners[g] \/ (g = h /\ ~ Owned(h))
      /\ \A g \in Handles : Owned(g) => owners'[g] = owners[g]
      /\ ~ Owned(h) => owners'[h] = [user |-> u, claim |-> NoClaim]
      /\ owners'[h].user = u
  BY <1>0 DEF TablesTyped, Owned
<1>3. TablesTyped'
  <2>1. account' \in [Users -> [status : {"absent", "active", "deleted"},
                                handle : Handles \cup {FreeText, Nobody}]]
    BY <1>0 DEF TablesTyped
  <2>2. [user |-> u, claim |-> NoClaim] \in Columns
    BY HandleAssumption DEF Columns, NoClaim
  <2>3. owners' \in [Handles -> Columns]
    BY <1>0, <2>2 DEF TablesTyped
  <2> QED BY <1>0, <2>1, <2>3 DEF TablesTyped
<1>4. RowsSound' /\ ProfileSound'
  BY DEF TablesSound, RowsSound, ProfileSound, Present, Seen
<1>5. ProvedInTime'
  BY <1>2 DEF TablesSound, ProvedInTime, Owned
<1>6. OwnersSound'
  <2>1. \A g \in Handles : Owned(g) => owners[g].user \in Users
    BY <1>0 DEF TablesTyped, Owned, Columns
  <2> QED BY <1>1, <1>2, <2>1, HandleAssumption DEF TablesSound, OwnersSound, Owned
<1>7. ClaimsAndOwnersAgree'
  <2>0. ClaimsAndOwnersAgree
    BY DEF TablesSound
  <2>1. \A c \in ClaimIds :
          claims[c].status = "verified" =>
            owners'[claims[c].handle] = [user |-> claims[c].user, claim |-> c]
    <3> SUFFICES ASSUME NEW c \in ClaimIds, claims[c].status = "verified"
                 PROVE owners'[claims[c].handle] = [user |-> claims[c].user, claim |-> c]
      OBVIOUS
    <3>1. claims[c].handle \in Handles /\ claims[c].user \in Users
      BY DEF TablesSound, RowsSound, Present
    <3>2. owners[claims[c].handle] = [user |-> claims[c].user, claim |-> c]
      BY <2>0 DEF ClaimsAndOwnersAgree
    <3>3. Owned(claims[c].handle)
      BY <3>1, <3>2, HandleAssumption DEF Owned
    <3> QED BY <1>2, <3>1, <3>2, <3>3
  <2>3. \A g \in Handles :
          owners'[g].claim # NoClaim =>
            claims[owners'[g].claim] =
              [status |-> "verified", user |-> owners'[g].user, handle |-> g]
    BY <1>2, <2>0 DEF ClaimsAndOwnersAgree
  <2>2. \A v \in Users :
          account'[v].handle \in Handles => owners'[account'[v].handle].user = v
    <3> SUFFICES ASSUME NEW v \in Users, v # u, account[v].handle \in Handles
                 PROVE owners'[account[v].handle].user = v
      BY <1>1, <1>2
    <3>1. account[v].handle \in Handles /\ owners[account[v].handle].user = v
      BY <1>0, <2>0 DEF ClaimsAndOwnersAgree, TablesTyped
    <3>2. Owned(account[v].handle)
      BY <3>1, HandleAssumption DEF Owned
    <3> QED BY <1>2, <3>1, <3>2
  <2> QED BY <2>0, <2>1, <2>2, <2>3 DEF ClaimsAndOwnersAgree, Pending
<1>8. Grows
  <2>1. 1..issued \subseteq ClaimIds /\ issued <= issued'
    BY <1>0, HandleAssumption DEF TablesTyped, ClaimIds
  <2>2. \A c \in 1..issued : Present(c) => claims[c].user \in Users
    BY <2>1 DEF TablesSound, RowsSound
  <2> QED BY <1>1, <2>1, <2>2 DEF Grows, Present
<1> QED BY <1>3, <1>4, <1>5, <1>6, <1>7, <1>8 DEF TablesSound

-----------------------------------------------------------------------------
(* Claims that are started and verified, codes that are shown, time. *)

\* A new claim leaves its account no other pending one.
LEMMA StartInsertSound ==
  ASSUME TablesSound, LocalsTyped, NEW t \in Threads, RequestSound(t), StartInsert(t)
  PROVE TablesSound' /\ Grows
<1> DEFINE u == req[t].user
           k == issued + 1
           mine == {d \in ClaimIds : claims[d].user = u}
<1> USE DEF world
<1>0. /\ TablesTyped
      /\ u \in Users /\ req[t].handle \in Handles
      /\ k \in ClaimIds /\ issued \in Nat /\ issued' = k
      /\ UNCHANGED <<account, owners, profile, late, shown>>
  <2>1. TablesTyped /\ UNCHANGED <<account, owners, profile, late, shown>> /\ issued' = k
    BY DEF TablesSound, StartInsert
  <2>2. u \in Users /\ req[t].handle \in Handles
    BY DEF RequestSound, StartInsert
  <2>3. k \in ClaimIds /\ issued \in Nat
    BY <2>1, HandleAssumption DEF TablesTyped, ClaimIds, StartInsert
  <2> QED BY <2>1, <2>2, <2>3
<1>1. ~ Present(k)
  BY <1>0 DEF TablesSound, RowsSound
<1>2. claims' = [Settle(mine, "superseded")
                 EXCEPT ![k] = [status |-> "pending", user |-> u, handle |-> req[t].handle]]
  BY DEF StartInsert
<1>3. DOMAIN Settle(mine, "superseded") = ClaimIds
  BY DEF Settle
<1>4. claims'[k] = [status |-> "pending", user |-> u, handle |-> req[t].handle]
  BY <1>0, <1>2, <1>3
<1>5. ASSUME NEW c \in ClaimIds, c # k
      PROVE /\ claims'[c].user = claims[c].user
            /\ claims'[c].handle = claims[c].handle
            /\ claims'[c].status = IF claims[c].user = u /\ Pending(c) THEN "superseded"
                                   ELSE claims[c].status
            /\ claims'[c] \in [status : Terminal \cup {"none", "pending"},
                               user : Users \cup {Nobody}, handle : Handles \cup {Nobody}]
            /\ claims[c].status = "none" => claims'[c] = claims[c]
  <2>1. claims'[c] = Settle(mine, "superseded")[c]
    BY <1>2, <1>3, <1>5
  <2>2. "superseded" \in Terminal
    BY DEF Terminal
  <2> HIDE DEF mine
  <2>3. /\ Settle(mine, "superseded")[c].user = claims[c].user
        /\ Settle(mine, "superseded")[c].handle = claims[c].handle
        /\ Settle(mine, "superseded")[c].status =
             IF c \in mine /\ Pending(c) THEN "superseded" ELSE claims[c].status
        /\ Settle(mine, "superseded")[c] \in [status : Terminal \cup {"none", "pending"},
                                      user : Users \cup {Nobody},
                                      handle : Handles \cup {Nobody}]
        /\ claims[c].status = "none" => Settle(mine, "superseded")[c] = claims[c]
    BY <1>0, <2>2, SettledRow
  <2>4. c \in mine <=> claims[c].user = u
    BY DEF mine
  <2> QED BY <2>1, <2>3, <2>4
<1> HIDE DEF mine
<1>6. DOMAIN claims' = ClaimIds
  BY <1>2, <1>3
<1>7. TablesTyped'
  <2>1. claims'[k] \in [status : Terminal \cup {"none", "pending"},
                        user : Users \cup {Nobody}, handle : Handles \cup {Nobody}]
    BY <1>0, <1>4
  <2>2. claims' \in [ClaimIds -> [status : Terminal \cup {"none", "pending"},
                                  user : Users \cup {Nobody}, handle : Handles \cup {Nobody}]]
    <3>1. claims' = [c \in ClaimIds |-> claims'[c]]
      BY <1>2, <1>3
    <3> QED BY <1>5, <2>1, <3>1
  <2>3. issued' \in 0..MaxClaims
    BY <1>0, HandleAssumption DEF ClaimIds
  <2> QED BY <1>0, <2>2, <2>3 DEF TablesTyped
<1>8. \A c \in ClaimIds : c # k =>
        /\ Present(c)' <=> Present(c)
        /\ Pending(c)' <=> Pending(c) /\ claims[c].user # u
        /\ claims'[c].status = "verified" <=> claims[c].status = "verified"
  BY <1>5 DEF Present, Pending
<1>9. RowsSound'
  <2>1. ASSUME NEW c \in ClaimIds, c # k
        PROVE /\ Present(c)' => /\ c <= issued'
                                /\ claims'[c].user \in Users
                                /\ claims'[c].handle \in Handles
              /\ ~ Present(c)' => claims'[c] = NoRow
    BY <1>0, <1>5, <1>8, <2>1 DEF TablesSound, RowsSound, Present, ClaimIds
  <2>2. /\ claims'[k].status # "none"
        /\ k <= issued'
        /\ claims'[k].user \in Users
        /\ claims'[k].handle \in Handles
    BY <1>0, <1>4
  <2> QED BY <2>1, <2>2 DEF RowsSound, Present
<1>10. ProfileSound' /\ OwnersSound' /\ ProvedInTime'
  BY <1>0 DEF TablesSound, ProfileSound, OwnersSound, ProvedInTime, Seen, Owned, Active
<1>11. ClaimsAndOwnersAgree'
  <2>0. ClaimsAndOwnersAgree
    BY DEF TablesSound
  <2>1. \A c \in ClaimIds : claims[c].status = "verified" => c # k /\ claims'[c] = claims[c]
    <3>1. \A c \in ClaimIds : c # k /\ ~ Pending(c) =>
            Settle(mine, "superseded")[c] = claims[c]
      BY DEF Settle
    <3>2. \A c \in ClaimIds : c # k => claims'[c] = Settle(mine, "superseded")[c]
      BY <1>2, <1>3
    <3> QED BY <1>1, <3>1, <3>2 DEF Present, Pending
  <2>3. \A c \in ClaimIds :
          claims'[c].status = "verified" =>
            owners[claims'[c].handle] = [user |-> claims'[c].user, claim |-> c]
    BY <1>4, <1>5, <1>8, <2>0 DEF ClaimsAndOwnersAgree
  <2>4. \A h \in Handles :
          owners[h].claim # NoClaim =>
            claims'[owners[h].claim] =
              [status |-> "verified", user |-> owners[h].user, handle |-> h]
    <3>1. \A h \in Handles : owners[h].claim # NoClaim => owners[h].claim \in ClaimIds
      BY <1>0, HandleAssumption DEF TablesTyped, Columns, NoClaim, ClaimIds
    <3> QED BY <2>0, <2>1, <3>1 DEF ClaimsAndOwnersAgree
  <2>2. \A c, d \in ClaimIds :
          Pending(c)' /\ Pending(d)' /\ claims'[c].user = claims'[d].user => c = d
    <3>1. \A c \in ClaimIds : c # k /\ Pending(c)' => claims'[c].user # claims'[k].user
      BY <1>4, <1>5, <1>8
    <3>2. \A c, d \in ClaimIds : c # k /\ d # k /\ Pending(c)' /\ Pending(d)'
                                 /\ claims'[c].user = claims'[d].user => c = d
      BY <1>5, <1>8, <2>0 DEF ClaimsAndOwnersAgree
    <3> QED BY <3>1, <3>2
  <2> QED BY <1>0, <2>0, <2>2, <2>3, <2>4 DEF ClaimsAndOwnersAgree
<1>12. Grows
  <2>1. 1..issued \subseteq ClaimIds /\ issued <= issued'
    BY <1>0, HandleAssumption DEF TablesTyped, ClaimIds
  <2>2. \A c \in 1..issued : c \in ClaimIds /\ c # k
    BY <1>0, <2>1
  <2> QED BY <1>0, <1>5, <1>8, <2>1, <2>2 DEF Grows, Active
<1> QED BY <1>7, <1>9, <1>10, <1>11, <1>12 DEF TablesSound

\* The handle gets its owner: the code was seen in time, the claim is pending,
\* and nobody owns the handle.
LEMMA BindSound ==
  ASSUME TablesSound, LocalsTyped, NEW t \in Threads, RequestSound(t), pc[t] = "bind",
         Pending(req[t].claim), req[t].fresh, ~ Owned(req[t].handle),
         owners' = [owners EXCEPT ![req[t].handle] =
                      [user |-> req[t].user, claim |-> req[t].claim]],
         claims' = Settle({req[t].claim}, "verified"),
         account' = [account EXCEPT ![req[t].user].handle = req[t].handle],
         UNCHANGED <<issued, world>>
  PROVE TablesSound' /\ Grows
<1> USE DEF world
<1>1. PICK c, h, u : c = req[t].claim /\ h = req[t].handle /\ u = req[t].user
  OBVIOUS
<1>2. /\ TablesTyped /\ ClaimsAndOwnersAgree
      /\ c \in ClaimIds /\ h \in Handles /\ u \in Users
      /\ claims[c] = [status |-> "pending", user |-> u, handle |-> h]
      /\ claims[c].status = "pending" /\ claims[c].user = u /\ claims[c].handle = h
      /\ Active(u) /\ <<h, c>> \in shown
  <2>1. TablesTyped /\ ClaimsAndOwnersAgree
    BY DEF TablesSound
  <2>2. h \in Handles /\ u \in Users /\ c \in 1..issued /\ <<h, c>> \in shown
    BY <1>1 DEF RequestSound
  <2>3. c \in ClaimIds
    BY <2>1, <2>2, HandleAssumption DEF TablesTyped, ClaimIds
  <2>4. claims[c].user = u /\ claims[c].handle = h /\ claims[c].status = "pending" /\ Active(u)
    BY <1>1 DEF RequestSound, Pending, Present
  <2>5. claims[c] = [status |-> "pending", user |-> u, handle |-> h]
    BY <2>1, <2>3, <2>4 DEF TablesTyped
  <2> QED BY <1>1, <2>1, <2>2, <2>3, <2>4, <2>5
<1>3. /\ \A d \in ClaimIds : d # c => claims'[d] = claims[d]
      /\ claims'[c] = [status |-> "verified", user |-> u, handle |-> h]
      /\ claims'[c].status = "verified" /\ claims'[c].user = u /\ claims'[c].handle = h
      /\ DOMAIN claims' = ClaimIds
  BY <1>1, <1>2 DEF Settle, Pending
<1>4. /\ \A g \in Handles : g # h => owners'[g] = owners[g]
      /\ owners'[h] = [user |-> u, claim |-> c]
      /\ owners'[h].user = u /\ owners'[h].claim = c
      /\ owners[h].user = Nobody /\ owners[h].claim = NoClaim
  BY <1>1, <1>2 DEF TablesTyped, Owned, TablesSound, OwnersSound, NoOwner
<1>5. /\ \A v \in Users : Active(v) <=> Active(v)'
      /\ \A v \in Users : v # u => account'[v].handle = account[v].handle
      /\ account'[u].handle = h
  BY <1>1, <1>2 DEF TablesTyped, Active
<1>6. TablesTyped'
  <2>1. account' \in [Users -> [status : {"absent", "active", "deleted"},
                                handle : Handles \cup {FreeText, Nobody}]]
    BY <1>1, <1>2 DEF TablesTyped
  <2>2. claims' \in [ClaimIds -> [status : Terminal \cup {"none", "pending"},
                                  user : Users \cup {Nobody}, handle : Handles \cup {Nobody}]]
    <3>1. claims' = [d \in ClaimIds |-> claims'[d]]
      BY DEF Settle
    <3>2. claims'[c] \in [status : Terminal \cup {"none", "pending"},
                          user : Users \cup {Nobody}, handle : Handles \cup {Nobody}]
      BY <1>2, <1>3 DEF Terminal
    <3>3. \A d \in ClaimIds : d # c =>
            claims'[d] \in [status : Terminal \cup {"none", "pending"},
                            user : Users \cup {Nobody}, handle : Handles \cup {Nobody}]
      BY <1>2, <1>3 DEF TablesTyped
    <3> QED BY <3>1, <3>2, <3>3
  <2>3. [user |-> u, claim |-> c] \in Columns
    BY <1>2 DEF Columns, ClaimIds
  <2>4. owners' \in [Handles -> Columns]
    BY <1>1, <1>2, <2>3 DEF TablesTyped
  <2> QED BY <1>2, <2>1, <2>2, <2>4 DEF TablesTyped
<1>7. RowsSound'
  <2>1. issued' = issued /\ RowsSound
    BY DEF TablesSound
  <2>2. c <= issued
    BY <1>2, <2>1 DEF RowsSound, Present
  <2>3. /\ claims'[c].status # "none"
        /\ c <= issued'
        /\ claims'[c].user \in Users
        /\ claims'[c].handle \in Handles
    BY <1>2, <1>3, <2>1, <2>2
  <2>4. ASSUME NEW d \in ClaimIds, d # c
        PROVE /\ claims'[d].status # "none" => /\ d <= issued'
                                               /\ claims'[d].user \in Users
                                               /\ claims'[d].handle \in Handles
              /\ claims'[d].status = "none" => claims'[d] = NoRow
    <3>1. claims'[d] = claims[d]
      BY <1>3, <2>4
    <3> QED BY <2>1, <3>1 DEF RowsSound, Present
  <2> QED BY <2>3, <2>4 DEF RowsSound, Present
<1>8. ProfileSound' /\ ProvedInTime'
  <2>0. profile' = profile /\ late' = late /\ shown' = shown
    OBVIOUS
  <2>1. ProfileSound'
    BY <2>0 DEF TablesSound, ProfileSound, Seen
  <2>2. shown' = shown /\ ProvedInTime
    BY DEF TablesSound
  <2>3. ASSUME NEW g \in Handles, owners'[g].claim # NoClaim
        PROVE <<g, owners'[g].claim>> \in shown
    <3>1. CASE g = h
      BY <1>2, <1>4, <3>1
    <3>2. CASE g # h
      BY <1>4, <2>2, <2>3, <3>2 DEF ProvedInTime
    <3> QED BY <3>1, <3>2
  <2> QED BY <2>1, <2>2, <2>3 DEF ProvedInTime
<1>9. OwnersSound'
  <2>1. \A g \in Handles : Owned(g) => owners[g].user \in Users
    BY <1>2 DEF TablesTyped, Owned, Columns
  <2> QED BY <1>2, <1>4, <1>5, <2>1, HandleAssumption DEF TablesSound, OwnersSound, Owned
<1>10. ClaimsAndOwnersAgree'
  <2>1. ASSUME NEW d \in ClaimIds, claims'[d].status = "verified"
        PROVE owners'[claims'[d].handle] = [user |-> claims'[d].user, claim |-> d]
    <3>1. CASE d = c
      BY <1>3, <1>4, <3>1
    <3>2. CASE d # c
      <4>1. claims'[d] = claims[d] /\ claims[d].handle \in Handles
        BY <1>3, <2>1, <3>2 DEF TablesSound, RowsSound, Present
      <4>2. owners[claims[d].handle] = [user |-> claims[d].user, claim |-> d]
        BY <1>2, <2>1, <4>1 DEF ClaimsAndOwnersAgree
      <4>3. claims[d].handle # h
        BY <1>4, <4>2 DEF NoClaim, ClaimIds
      <4> QED BY <1>4, <4>1, <4>2, <4>3
    <3> QED BY <3>1, <3>2
  <2>2. ASSUME NEW g \in Handles, owners'[g].claim # NoClaim
        PROVE claims'[owners'[g].claim] =
                [status |-> "verified", user |-> owners'[g].user, handle |-> g]
    <3>1. CASE g = h
      BY <1>3, <1>4, <3>1
    <3>2. CASE g # h
      <4>1. owners'[g] = owners[g] /\ owners[g].claim \in ClaimIds
        BY <1>2, <1>4, <2>2, <3>2, HandleAssumption DEF TablesTyped, Columns, NoClaim, ClaimIds
      <4>2. claims[owners[g].claim] =
              [status |-> "verified", user |-> owners[g].user, handle |-> g]
        BY <1>2, <2>2, <4>1 DEF ClaimsAndOwnersAgree
      <4>3. owners[g].claim # c
        BY <1>2, <4>2
      <4> QED BY <1>3, <4>1, <4>2, <4>3
    <3> QED BY <3>1, <3>2
  <2>3. \A d, e \in ClaimIds :
          Pending(d)' /\ Pending(e)' /\ claims'[d].user = claims'[e].user => d = e
    BY <1>2, <1>3 DEF ClaimsAndOwnersAgree, Pending
  <2>4. ASSUME NEW v \in Users, account'[v].handle \in Handles
        PROVE owners'[account'[v].handle].user = v
    <3>1. CASE v = u
      BY <1>4, <1>5, <3>1
    <3>2. CASE v # u
      <4>1. /\ account'[v].handle = account[v].handle
            /\ account[v].handle \in Handles
            /\ owners[account[v].handle].user = v
        BY <1>2, <1>5, <2>4, <3>2 DEF TablesTyped, ClaimsAndOwnersAgree
      <4>2. account[v].handle # h
        BY <1>4, <4>1, HandleAssumption
      <4> QED BY <1>4, <4>1, <4>2
    <3> QED BY <3>1, <3>2
  <2> QED BY <2>1, <2>2, <2>3, <2>4 DEF ClaimsAndOwnersAgree
<1>11. Grows
  <2>1. 1..issued \subseteq ClaimIds /\ issued <= issued'
    BY <1>2, HandleAssumption DEF TablesTyped, ClaimIds
  <2>2. \A d \in 1..issued : Present(d) => claims[d].user \in Users
    BY <2>1 DEF TablesSound, RowsSound
  <2>3. \A d \in ClaimIds : /\ Present(d)' <=> Present(d)
                            /\ claims'[d].user = claims[d].user
                            /\ claims'[d].handle = claims[d].handle
    <3> TAKE d \in ClaimIds
    <3>1. CASE d # c
      BY <1>3, <3>1 DEF Present
    <3>2. CASE d = c
      <4>1. claims[c].status = "pending" /\ claims[c].user = u /\ claims[c].handle = h
        BY <1>2
      <4> QED BY <1>3, <3>2, <4>1 DEF Present
    <3> QED BY <3>1, <3>2
  <2> QED BY <1>5, <2>1, <2>2, <2>3 DEF Grows
<1> QED BY <1>6, <1>7, <1>8, <1>9, <1>10, <1>11 DEF TablesSound

\* A profile shows a code: in time if the claim is not late.
LEMMA ShowCodeSound ==
  ASSUME TablesSound, NEW h \in Handles, NEW c \in ClaimIds, ShowCode(h, c)
  PROVE TablesSound' /\ Grows
<1> USE DEF tables, ShowCode
<1>1. TablesTyped'
  <2>1. profile' \in [Handles -> 0..MaxClaims]
    BY HandleAssumption DEF TablesSound, TablesTyped, ClaimIds
  <2>2. shown' \subseteq Handles \X ClaimIds
    BY DEF TablesSound, TablesTyped
  <2> QED BY <2>1, <2>2 DEF TablesSound, TablesTyped
<1>2. ProfileSound'
  <2>1. DOMAIN profile = Handles /\ profile'[h] = c
    BY DEF TablesSound, TablesTyped
  <2>2. \A g \in Handles : g # h => profile'[g] = profile[g]
    BY <2>1
  <2>3. <<h, c>> \in shown' \/ c \in late'
    OBVIOUS
  <2> QED BY <2>1, <2>2, <2>3 DEF TablesSound, ProfileSound, Seen
<1>3. RowsSound' /\ OwnersSound' /\ ClaimsAndOwnersAgree' /\ ProvedInTime'
  BY DEF TablesSound, RowsSound, OwnersSound, ClaimsAndOwnersAgree, ProvedInTime,
         Present, Pending, Owned, Active
<1>4. Grows
  BY HandleAssumption DEF TablesSound, TablesTyped, Grows, Present, Active
<1> QED BY <1>1, <1>2, <1>3, <1>4 DEF TablesSound

LEMMA TimePassesSound ==
  ASSUME TablesSound, NEW c \in ClaimIds, TimePasses(c)
  PROVE TablesSound' /\ Grows
<1> USE DEF tables, TimePasses
<1>1. TablesTyped' /\ ProfileSound'
  BY DEF TablesSound, TablesTyped, ProfileSound, Seen
<1>2. RowsSound' /\ OwnersSound' /\ ClaimsAndOwnersAgree' /\ ProvedInTime'
  BY DEF TablesSound, RowsSound, OwnersSound, ClaimsAndOwnersAgree, ProvedInTime,
         Present, Pending, Owned, Active
<1>3. Grows
  BY HandleAssumption DEF TablesSound, TablesTyped, Grows, Present, Active
<1> QED BY <1>1, <1>2, <1>3 DEF TablesSound

\* A step of a request that leaves the tables and the world alone.
LEMMA UnchangedSound ==
  ASSUME TablesSound, UNCHANGED <<tables, world>>
  PROVE TablesSound' /\ Grows
<1> USE DEF tables, world
<1>1. TablesTyped' /\ ProfileSound'
  BY DEF TablesSound, TablesTyped, ProfileSound, Seen
<1>2. RowsSound' /\ OwnersSound' /\ ClaimsAndOwnersAgree' /\ ProvedInTime'
  BY DEF TablesSound, RowsSound, OwnersSound, ClaimsAndOwnersAgree, ProvedInTime,
         Present, Pending, Owned, Active
<1>3. Grows
  BY HandleAssumption DEF TablesSound, TablesTyped, Grows, Present, Active
<1> QED BY <1>1, <1>2, <1>3 DEF TablesSound

-----------------------------------------------------------------------------
(* Every step. *)

\* A step of a request: the tables, its own locals, and nothing taken back.
LEMMA RequestKeeps ==
  ASSUME HandleInv, NEW t \in Threads, Request(t)
  PROVE TablesSound' /\ Grows /\ LocalsTyped' /\ RequestSound(t)'
<1>0. TablesSound /\ LocalsTyped /\ RequestSound(t) /\ TablesTyped
  BY DEF HandleInv, TablesSound
<1>1. ASSUME Return(t)
      PROVE LocalsTyped' /\ RequestSound(t)'
  <2>1. pc'[t] = "idle"
    BY <1>0, <1>1 DEF Return, LocalsTyped
  <2>2. LocalsTyped'
    BY <1>0, <1>1, IdleTyped DEF Return, LocalsTyped
  <2> QED BY <2>1, <2>2, IdleSound
<1>2. ASSUME UNCHANGED <<tables, world>>
      PROVE TablesSound' /\ Grows
  BY <1>0, <1>2, UnchangedSound
<1>3. ASSUME NEW cs, NEW status \in {"expired", "superseded"},
             claims' = Settle(cs, status), UNCHANGED <<account, issued, owners, world>>
      PROVE TablesSound' /\ Grows
  BY <1>0, <1>3, SettleSound
<1>4. ASSUME NEW u \in Users, NEW h \in Handles, StartRead(t, u, h)
      PROVE TablesSound' /\ Grows /\ LocalsTyped' /\ RequestSound(t)'
  <2>1. TablesSound' /\ Grows
    BY <1>2, <1>4 DEF StartRead
  <2>2. LocalsTyped'
    <3>1. [Idle EXCEPT !.user = u, !.handle = h] \in Locals
      BY IdleTyped DEF Locals
    <3> QED BY <1>0, <1>4, <3>1 DEF StartRead, Goto, LocalsTyped
  <2>3. pc'[t] = "insert" /\ req'[t].user = u /\ req'[t].handle = h
    BY <1>0, <1>4 DEF StartRead, Goto, LocalsTyped, Locals, Idle
  <2> QED BY <2>1, <2>2, <2>3 DEF RequestSound
<1>5. CASE StartInsert(t)
  BY <1>0, <1>1, <1>5, StartInsertSound DEF StartInsert
<1>6. ASSUME NEW u \in Users, NEW c \in ClaimIds, GetClaim(t, u, c)
      PROVE TablesSound' /\ Grows /\ LocalsTyped' /\ RequestSound(t)'
  <2>0. /\ claims' = Settle({c} \cap late, "expired")
        /\ UNCHANGED <<account, issued, owners, world>>
        /\ Active(u) /\ c <= issued /\ pc[t] = "idle"
    BY <1>6 DEF GetClaim
  <2>1. TablesSound' /\ Grows
    BY <1>3, <2>0
  <2>2. CASE UNCHANGED <<pc, req>>
    <3>1. pc'[t] = "idle"
      BY <2>0, <2>2
    <3> QED BY <1>0, <2>1, <2>2, <3>1, IdleSound DEF LocalsTyped
  <2>3. CASE /\ claims'[c].status = "pending" /\ claims'[c].user = u
             /\ req' = [req EXCEPT ![t] = [Idle EXCEPT !.user = u, !.claim = c,
                                                       !.handle = claims'[c].handle]]
             /\ Goto(t, "owner")
    <3>1. claims'[c].handle \in Handles
      BY <2>1, <2>3 DEF TablesSound, RowsSound, Present
    <3>2. LocalsTyped'
      <4>1. PICK h \in Handles : h = claims'[c].handle
        BY <3>1
      <4>2. c \in 0..MaxClaims
        BY HandleAssumption DEF ClaimIds
      <4>3. [Idle EXCEPT !.user = u, !.claim = c, !.handle = h] \in Locals
        BY <4>2 DEF Idle, Locals
      <4> QED BY <1>0, <2>3, <4>1, <4>3 DEF Goto, LocalsTyped
    <3>3. /\ pc'[t] = "owner"
          /\ req'[t].user = u /\ req'[t].claim = c /\ req'[t].handle = claims'[c].handle
      BY <1>0, <2>3 DEF Goto, LocalsTyped, Locals, Idle
    <3>4. c \in 1..issued' /\ Active(u)'
      BY <1>0, <2>0 DEF Active, ClaimIds, TablesTyped
    <3> QED BY <2>1, <2>3, <3>1, <3>2, <3>3, <3>4 DEF RequestSound
  <2> QED BY <1>6, <2>0, <2>1, <2>2, <2>3 DEF GetClaim
<1>7. CASE CheckOwner(t)
  <2>1. CASE req[t].claim \in late
    BY <1>1, <1>3, <1>7, <2>1 DEF CheckOwner
  <2>2. CASE req[t].claim \notin late
    <3>1. /\ UNCHANGED <<tables, world>> /\ UNCHANGED req
          /\ pc[t] = "owner"
          /\ pc' = [pc EXCEPT ![t] = IF Owned(req[t].handle) THEN "supersede" ELSE "fetch"]
      BY <1>7, <2>2 DEF CheckOwner, Goto, tables
    <3>2. TablesSound' /\ Grows
      BY <1>2, <3>1
    <3>3. LocalsTyped' /\ pc'[t] \in {"supersede", "fetch"}
      BY <1>0, <3>1 DEF LocalsTyped
    <3>4. RequestSound(t)'
      BY <1>0, <3>1, <3>3 DEF RequestSound, tables, Present, Active
    <3> QED BY <3>2, <3>3, <3>4
  <2> QED BY <2>1, <2>2
<1>8. CASE Supersede(t)
  BY <1>1, <1>3, <1>8 DEF Supersede
<1>9. CASE Fetch(t)
  <2>1. TablesSound' /\ Grows
    BY <1>2, <1>9 DEF Fetch
  <2>2. CASE Return(t)
    BY <1>1, <2>1, <2>2
  <2>3. CASE profile[req[t].handle] = req[t].claim /\ Goto(t, "clock") /\ UNCHANGED req
    <3>1. pc[t] = "fetch" /\ UNCHANGED <<tables, world>>
      BY <1>9 DEF Fetch
    <3>2. LocalsTyped' /\ pc'[t] = "clock"
      BY <1>0, <2>3 DEF LocalsTyped, Goto
    <3>3. Seen(req[t].handle, req[t].claim)
      BY <1>0, <2>3, <3>1 DEF RequestSound, TablesSound, ProfileSound, NoClaim
    <3>4. UNCHANGED <<claims, issued, account, shown, late>> /\ req'[t] = req[t]
      BY <2>3, <3>1 DEF tables, world
    <3>5. /\ req[t].user \in Users /\ req[t].handle \in Handles /\ req[t].claim \in 1..issued
          /\ Present(req[t].claim) => /\ claims[req[t].claim].user = req[t].user
                                      /\ claims[req[t].claim].handle = req[t].handle
                                      /\ Active(req[t].user)
      BY <1>0, <3>1 DEF RequestSound
    <3>6. RequestSound(t)'
      BY <3>2, <3>3, <3>4, <3>5 DEF RequestSound, Present, Active, Seen
    <3> QED BY <2>1, <3>2, <3>6
  <2> QED BY <1>9, <2>2, <2>3 DEF Fetch
<1>10. CASE ReadClock(t)
  <2>1. /\ UNCHANGED <<tables, world>> /\ pc[t] = "clock"
        /\ TablesSound' /\ Grows
    BY <1>2, <1>10 DEF ReadClock
  <2>2. LocalsTyped'
    <3>1. req[t] \in Locals
      BY <1>0 DEF LocalsTyped
    <3>2. [req[t] EXCEPT !.fresh = req[t].claim \notin late] \in Locals
      BY <3>1 DEF Locals
    <3>3. req' = [req EXCEPT ![t] = [req[t] EXCEPT !.fresh = req[t].claim \notin late]]
      BY <1>0, <1>10 DEF ReadClock, LocalsTyped
    <3> QED BY <1>0, <1>10, <3>2, <3>3 DEF ReadClock, Goto, LocalsTyped
  <2>3. /\ pc'[t] = "bind"
        /\ req'[t].user = req[t].user
        /\ req'[t].handle = req[t].handle
        /\ req'[t].claim = req[t].claim
        /\ req'[t].fresh = (req[t].claim \notin late)
    BY <1>0, <1>10 DEF ReadClock, Goto, LocalsTyped, Locals
  <2>4. req'[t].fresh => <<req[t].handle, req[t].claim>> \in shown
    BY <1>0, <2>1, <2>3 DEF RequestSound, Seen
  <2>5. RequestSound(t)'
    BY <1>0, <2>1, <2>3, <2>4 DEF RequestSound, tables, world, Present, Active
  <2> QED BY <2>1, <2>2, <2>5
<1>11. CASE Commit(t)
  <2>1. CASE UNCHANGED <<account, claims, owners>>
    BY <1>1, <1>2, <1>11, <2>1 DEF Commit, tables
  <2>2. CASE \E status \in {"expired", "superseded"} :
               /\ claims' = Settle({req[t].claim}, status)
               /\ UNCHANGED <<account, owners>>
    BY <1>1, <1>3, <1>11, <2>2 DEF Commit
  <2>3. CASE /\ Pending(req[t].claim) /\ req[t].fresh /\ ~ Owned(req[t].handle)
             /\ owners' = [owners EXCEPT ![req[t].handle] =
                             [user |-> req[t].user, claim |-> req[t].claim]]
             /\ claims' = Settle({req[t].claim}, "verified")
             /\ account' = [account EXCEPT ![req[t].user].handle = req[t].handle]
    BY <1>0, <1>1, <1>11, <2>3, BindSound DEF Commit
  <2> QED BY <1>11, <2>1, <2>2, <2>3 DEF Commit
<1>12. CASE Lost(t)
  BY <1>1, <1>2, <1>12 DEF Lost
<1> QED BY <1>4, <1>5, <1>6, <1>7, <1>8, <1>9, <1>10, <1>11, <1>12 DEF Request

\* What a request does leaves the locals of the others alone.
LEMMA OthersKept ==
  ASSUME LocalsTyped, NEW t \in Threads, Request(t), NEW s \in Threads, s # t
  PROVE pc'[s] = pc[s] /\ req'[s] = req[s]
BY DEF LocalsTyped, Request, StartRead, StartInsert, GetClaim, CheckOwner, Supersede,
       Fetch, ReadClock, Commit, Lost, Goto, Return

LEMMA Initially == Init => HandleInv
<1> SUFFICES ASSUME Init PROVE HandleInv
  OBVIOUS
<1>0. LocalsTyped
  BY IdleTyped DEF Init, LocalsTyped
<1> USE DEF Init, NoRow, NoOwner, NoClaim
<1>1. TablesTyped
  BY HandleAssumption DEF TablesTyped, ClaimIds, Columns
<1>2. RowsSound /\ ProfileSound /\ OwnersSound /\ ProvedInTime
  BY DEF RowsSound, ProfileSound, OwnersSound, ProvedInTime, Present, Owned
<1>3. ClaimsAndOwnersAgree
  BY HandleAssumption DEF ClaimsAndOwnersAgree, Pending
<1>4. \A t \in Threads : RequestSound(t)
  BY DEF RequestSound
<1> QED BY <1>0, <1>1, <1>2, <1>3, <1>4 DEF HandleInv, TablesSound

LEMMA Inductive == HandleInv /\ [Next]_vars => HandleInv'
<1> SUFFICES ASSUME HandleInv, [Next]_vars PROVE HandleInv'
  OBVIOUS
<1>0. TablesSound /\ TablesTyped /\ LocalsTyped
  BY DEF HandleInv, TablesSound
<1>1. ASSUME TablesSound', Grows, UNCHANGED <<pc, req>>
      PROVE HandleInv'
  <2>1. LocalsTyped'
    BY <1>0, <1>1 DEF LocalsTyped
  <2>2. \A t \in Threads : RequestSound(t)'
    BY <1>0, <1>1, GrowsKeeps DEF HandleInv, TablesSound
  <2> QED BY <1>1, <2>1, <2>2 DEF HandleInv
<1>2. ASSUME NEW t \in Threads, Request(t)
      PROVE HandleInv'
  <2>1. TablesSound' /\ TablesTyped' /\ Grows /\ LocalsTyped' /\ RequestSound(t)'
    BY <1>2, RequestKeeps DEF TablesSound
  <2>2. \A s \in Threads : s # t => RequestSound(s)'
    BY <1>0, <1>2, <2>1, OthersKept, GrowsKeeps DEF HandleInv
  <2> QED BY <2>1, <2>2 DEF HandleInv
<1>3. ASSUME NEW u \in Users, SignUp(u)
      PROVE HandleInv'
  BY <1>0, <1>1, <1>3, SignUpSound DEF SignUp
<1>4. ASSUME NEW u \in Users, DeleteUser(u)
      PROVE HandleInv'
  BY <1>0, <1>1, <1>4, DeleteUserSound DEF DeleteUser
<1>5. ASSUME NEW u \in Users, ReadClaims(u)
      PROVE HandleInv'
  BY <1>0, <1>1, <1>5, SettleSound DEF ReadClaims
<1>6. ASSUME NEW u \in Users, NEW h \in Handles, AdminBind(u, h)
      PROVE HandleInv'
  BY <1>0, <1>1, <1>6, AdminBindSound DEF AdminBind
<1>7. ASSUME NEW h \in Handles, NEW c \in ClaimIds, ShowCode(h, c)
      PROVE HandleInv'
  BY <1>0, <1>1, <1>7, ShowCodeSound DEF ShowCode
<1>8. ASSUME NEW c \in ClaimIds, TimePasses(c)
      PROVE HandleInv'
  BY <1>0, <1>1, <1>8, TimePassesSound DEF TimePasses
<1>9. ASSUME NEW u \in Users, CreateUser(u)
      PROVE HandleInv'
  BY <1>0, <1>1, <1>9, CreateUserSound DEF CreateUser
<1>10. CASE UNCHANGED vars
  BY <1>0, <1>1, <1>10, UnchangedSound DEF vars, tables, world
<1> QED BY <1>2, <1>3, <1>4, <1>5, <1>6, <1>7, <1>8, <1>9, <1>10 DEF Next

-----------------------------------------------------------------------------
\* The tables are sound and every request acts on what is still true, at all
\* times: handles.py, supabase_auth.resolve_internal_user, admin.delete_user.
THEOREM HandleInvariant == Spec => []HandleInv
BY Initially, Inductive, PTL DEF Spec

\* A handle that was self-verified showed the code of its claim before the claim
\* expired, whatever happened between the fetch and the commit (handles.verify_claim).
THEOREM HandleProvedInTime == Spec => []ProvedInTime
<1>1. HandleInv => ProvedInTime
  BY DEF HandleInv, TablesSound
<1> QED BY <1>1, HandleInvariant, PTL

\* Claims and ownerships agree, and a handle column that was bound names a handle the
\* account owns, beside accounts that an administrator created with any handle
\* (handles.start_claim, verify_claim, admin_bind, auth.create_user, admin.delete_user).
THEOREM HandleClaimsAgree == Spec => []ClaimsAndOwnersAgree
<1>1. HandleInv => ClaimsAndOwnersAgree
  BY DEF HandleInv, TablesSound
<1> QED BY <1>1, HandleInvariant, PTL

-----------------------------------------------------------------------------
(* handle_owners implements its contract. *)

existingBar == {u \in Users : Active(u)}
closedBar == {u \in Users : account[u].status = "deleted"}
ownerBar == [h \in Handles |-> owners[h].user]

LEMMA StartsOpen == Init => Contract!Init
BY DEF Init, Contract!Init, Active, NoOwner

LEMMA StepKeepsContract ==
  ASSUME HandleInv, [Next]_vars
  PROVE [Contract!Next]_(Contract!vars)
<1> USE DEF Contract!vars
<1>0. TablesTyped /\ OwnersSound /\ LocalsTyped
  BY DEF HandleInv, TablesSound
<1>1. ASSUME UNCHANGED <<account, owners>>
      PROVE UNCHANGED Contract!vars
  BY <1>1 DEF Active
<1>2. ASSUME NEW u \in Users, NEW h \in Handles, Active(u),
             owners[h].user = Nobody, ownerBar' = [ownerBar EXCEPT ![h] = u],
             UNCHANGED <<existingBar, closedBar>>
      PROVE Contract!Next
  BY <1>2 DEF Contract!Next, Contract!Own, existingBar, closedBar, ownerBar
<1>3. ASSUME NEW u \in Users, NEW h \in Handles, account' = [account EXCEPT ![u].handle = h]
      PROVE UNCHANGED <<existingBar, closedBar>>
  <2>1. \A v \in Users : account'[v].status = account[v].status
    BY <1>0, <1>3 DEF TablesTyped
  <2> QED BY <2>1 DEF existingBar, closedBar, Active
<1>4. ASSUME NEW u \in Users, SignUp(u) \/ CreateUser(u)
      PROVE [Contract!Next]_(Contract!vars)
  <2>1. /\ \A v \in Users : v # u => account'[v] = account[v]
        /\ account'[u].status = "active" /\ account[u].status = "absent"
        /\ owners' = owners
    BY <1>0, <1>4 DEF SignUp, CreateUser, TablesTyped
  <2>2. existingBar' = existingBar \cup {u} /\ closedBar' = closedBar /\ ownerBar' = ownerBar
    BY <2>1 DEF existingBar, closedBar, ownerBar, Active
  <2>3. u \notin existingBar \cup closedBar
    BY <2>1 DEF existingBar, closedBar, Active
  <2> QED BY <2>2, <2>3 DEF Contract!Next, Contract!Open, existingBar, closedBar, ownerBar
<1>5. ASSUME NEW u \in Users, DeleteUser(u)
      PROVE [Contract!Next]_(Contract!vars)
  <2>1. /\ \A v \in Users : v # u => account'[v] = account[v]
        /\ account'[u].status = "deleted" /\ account[u].status = "active"
    BY <1>0, <1>5 DEF DeleteUser, TablesTyped, Active
  <2>2. existingBar' = existingBar \ {u} /\ closedBar' = closedBar \cup {u}
    BY <2>1 DEF existingBar, closedBar, Active
  <2>3. ownerBar' = [h \in Handles |-> IF ownerBar[h] = u THEN Nobody ELSE ownerBar[h]]
    BY <1>5 DEF ownerBar, DeleteUser, NoOwner
  <2>4. u \in existingBar
    BY <1>5 DEF existingBar, DeleteUser
  <2> QED BY <2>2, <2>3, <2>4 DEF Contract!Next, Contract!Close, existingBar, closedBar, ownerBar
<1>6. ASSUME NEW u \in Users, NEW h \in Handles, AdminBind(u, h)
      PROVE [Contract!Next]_(Contract!vars)
  <2>1. UNCHANGED <<existingBar, closedBar>>
    BY <1>3, <1>6 DEF AdminBind
  <2>2. CASE owners[h].user = Nobody
    <3>1. ownerBar' = [ownerBar EXCEPT ![h] = u]
      BY <1>0, <1>6, <2>2 DEF AdminBind, Owned, ownerBar, TablesTyped
    <3> QED BY <1>2, <1>6, <2>1, <2>2, <3>1 DEF AdminBind
  <2>3. CASE owners[h].user # Nobody
    <3>1. owners' = owners
      BY <1>0, <1>6, <2>3 DEF AdminBind, Owned, TablesTyped
    <3> QED BY <2>1, <3>1 DEF existingBar, closedBar
  <2> QED BY <2>2, <2>3
<1>7. ASSUME NEW t \in Threads, Commit(t)
      PROVE [Contract!Next]_(Contract!vars)
  <2>1. CASE UNCHANGED <<account, owners>>
    BY <1>1, <2>1
  <2>2. CASE /\ Pending(req[t].claim) /\ ~ Owned(req[t].handle)
             /\ owners' = [owners EXCEPT ![req[t].handle] =
                             [user |-> req[t].user, claim |-> req[t].claim]]
             /\ account' = [account EXCEPT ![req[t].user].handle = req[t].handle]
    <3>1. PICK u, h : u = req[t].user /\ h = req[t].handle
      OBVIOUS
    <3>2. u \in Users /\ h \in Handles /\ Active(u)
      BY <1>7, <2>2, <3>1 DEF Commit, HandleInv, RequestSound, Pending, Present
    <3>3. UNCHANGED <<existingBar, closedBar>>
      BY <1>3, <2>2, <3>1, <3>2
    <3>4. ownerBar' = [ownerBar EXCEPT ![h] = u]
      BY <1>0, <2>2, <3>1, <3>2 DEF ownerBar, TablesTyped
    <3>5. owners[h].user = Nobody
      BY <2>2, <3>1 DEF Owned
    <3> QED BY <1>2, <3>2, <3>3, <3>4, <3>5
  <2> QED BY <1>7, <2>1, <2>2 DEF Commit
<1>8. CASE UNCHANGED <<account, owners>>
  BY <1>1, <1>8
<1> QED
  BY <1>4, <1>5, <1>6, <1>7, <1>8
     DEF Next, Request, ReadClaims, ShowCode, TimePasses, StartRead, StartInsert, GetClaim,
         CheckOwner, Supersede, Fetch, ReadClock, Lost, tables, vars

\* handle_owners gives a handle to one existing account, only while it is free, and
\* takes it back with the account only (handles.py, admin.delete_user).
THEOREM HandleImplementsContract == Spec => ImplementsContract
BY StartsOpen, StepKeepsContract, HandleInvariant, PTL DEF Spec, ImplementsContract, Contract!Spec

=============================================================================
