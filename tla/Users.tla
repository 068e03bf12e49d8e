------------------------------- MODULE Users -------------------------------
(***************************************************************************)
(* The users of the switch (olsw/cache/user.go): the table in memory, the  *)
(* password file that every change of the HTTP API rewrites                *)
(* (olsw/api/user.go) and a restart reads back, and the logins, which fall *)
(* back to an LDAP server (libol/ldap.go).  The switch may crash between   *)
(* any two steps of a Save.                                                *)
(*                                                                         *)
(* Calls come one at a time: nothing in the code orders them, and two      *)
(* Saves that overlap mix their lines in the file.                         *)
(*                                                                         *)
(* A line of the file is its fields, as the colons part them: a password   *)
(* is the sequence of its parts, so one with a colon in it has two.  A     *)
(* lease is the hour it ends, 0 when there is none.                        *)
(***************************************************************************)
EXTENDS Naturals, Sequences

CONSTANTS
    Names,
    Passes,    \* passwords: sequences of fields
    Roles,     \* among them "ldap" and ""
    Leases,
    Ldap,      \* name -> its password in LDAP, NoPass when it has none
    NoUser,
    NoPass,    \* an empty password
    MaxCalls   \* bound: calls of Add and Del

VARIABLES
    users,     \* name -> [pass, role, lease] or NoUser
    file,      \* the lines of the password file
    call,      \* the call under way: [at, name, pass, left], see Idle
    before,    \* history: users when the Save under way, or that failed, began
    torn,      \* history: the file was not written as it should have been
    calls,
    accepted   \* the login of this step: by whom, and what the table held

userVars == <<users, file, call, before, torn, calls, accepted>>

Idle == [at |-> "idle", name |-> NoUser, pass |-> NoPass, left |-> {}]

Nobody == [by |-> "no", was |-> NoUser]

User(pass, role, lease) == [pass |-> pass, role |-> role, lease |-> lease]

IsLocal(u) == u # NoUser /\ u.role # "ldap"

-----------------------------------------------------------------------------
(* The table. *)

(* user.Add: an older entry keeps what the new one leaves empty. *)
Added(table, n, u) ==
    [table EXCEPT ![n] =
        IF @ = NoUser THEN u
        ELSE [pass  |-> IF u.pass = NoPass THEN @.pass ELSE u.pass,
              role  |-> IF u.role = "" THEN @.role ELSE u.role,
              lease |-> IF u.lease = 0 THEN @.lease ELSE u.lease]]

-----------------------------------------------------------------------------
(* The file. *)

Line(n, u) == <<n>> \o u.pass \o <<u.role, u.lease>>

(* Load: at most four fields are told apart; a last one that is not a date *)
(* is no lease.                                                            *)
Parsed(line) ==
    User(<<line[2]>>, line[3], IF Len(line) = 4 THEN line[4] ELSE 0)

Loaded(lines) ==
    LET From[i \in 0 .. Len(lines)] ==
            IF i = 0 THEN [n \in Names |-> NoUser]
            ELSE Added(From[i - 1], lines[i][1], Parsed(lines[i]))
    IN From[Len(lines)]

WritesAll(u) == TRUE

(* Users of LDAP are left out. *)
Written(u) == u.role # "ldap"

Init ==
    /\ users = [n \in Names |-> NoUser] /\ file = <<>> /\ call = Idle
    /\ before = users /\ torn = FALSE /\ calls = 0 /\ accepted = Nobody

-----------------------------------------------------------------------------
(* The HTTP API: Add, Del, each followed by Save. *)

Begin(table) ==
    /\ call = Idle /\ call' = [Idle EXCEPT !.at = "open"]
    /\ calls < MaxCalls /\ calls' = calls + 1
    /\ users' = table /\ before' = users /\ accepted' = Nobody
    /\ UNCHANGED <<file, torn>>

Add(n, u) == Begin(Added(users, n, u))

Del(n) == Begin([users EXCEPT ![n] = NoUser])

Appends(f) == f

(* O_TRUNC empties the file. *)
OpenTrunk(f) == <<>>

(* Without the file there is no Save. *)
SaveOpen ==
    /\ call.at = "open"
    /\ \/ /\ file' = OpenTrunk(file) /\ torn' = FALSE
          /\ call' = [call EXCEPT !.at = "save", !.left = {n \in Names : users[n] # NoUser}]
       \/ /\ call' = Idle /\ torn' = TRUE /\ UNCHANGED file
    /\ UNCHANGED <<users, before, calls, accepted>>

(* One user of List, in the order of a map; a failed write is not noticed. *)
SaveLine(n) ==
    /\ call.at = "save" /\ n \in call.left
    /\ call' = [call EXCEPT !.left = @ \ {n}]
    /\ \/ /\ file' = IF Written(users[n]) THEN Append(file, Line(n, users[n])) ELSE file
          /\ UNCHANGED torn
       \/ /\ Written(users[n]) /\ torn' = TRUE /\ UNCHANGED file
    /\ UNCHANGED <<users, before, calls, accepted>>

Saved ==
    /\ call.at = "save" /\ call.left = {} /\ call' = Idle /\ before' = users
    /\ UNCHANGED <<users, file, torn, calls, accepted>>

-----------------------------------------------------------------------------
(* Logins: Check, CheckLdap. *)

AnyMayAsk(u) == TRUE

(* CheckLdap: a user of the table that is not of LDAP stays out of it. *)
MayAsk(u) == u = NoUser \/ u.role = "ldap"

(* A lease may have ended or not. *)
InDate(u) == IF u.lease = 0 THEN {TRUE} ELSE BOOLEAN

(* A local user with the right password is decided here; all others go on  *)
(* to LDAP.                                                                *)
Check(n, pass) ==
    /\ call = Idle
    /\ LET u == users[n]
           mine == u # NoUser /\ u.role \in {"", "admin", "guest"} /\ u.pass = pass
       IN IF mine
          THEN /\ \E ok \in InDate(u) :
                     accepted' = IF ok THEN [by |-> "local", was |-> u] ELSE Nobody
               /\ UNCHANGED call
          ELSE IF MayAsk(u)
          THEN call' = [Idle EXCEPT !.at = "ldap", !.name = n, !.pass = pass] /\ accepted' = Nobody
          ELSE UNCHANGED call /\ accepted' = Nobody
    /\ UNCHANGED <<users, file, before, torn, calls>>

(* GetLdap and Login: the server may be away; whoever it knows is entered. *)
LdapLogin ==
    /\ call.at = "ldap" /\ call' = Idle
    /\ \/ /\ Ldap[call.name] = call.pass /\ call.pass # NoPass
          /\ users' = Added(users, call.name, User(call.pass, "ldap", 0))
          /\ accepted' = [by |-> "ldap", was |-> users[call.name]]
       \/ UNCHANGED <<users, accepted>>
    /\ UNCHANGED <<file, before, torn, calls>>

-----------------------------------------------------------------------------
(* The switch crashes, or is stopped, and Initialize loads the file. *)
Restart ==
    /\ users' = Loaded(file) /\ before' = users' /\ call' = Idle
    /\ torn' = FALSE /\ accepted' = Nobody
    /\ UNCHANGED <<file, calls>>

Next ==
    \/ \E n \in Names :
         \/ \E pass \in Passes \cup {NoPass}, role \in Roles, lease \in Leases :
              Add(n, User(pass, role, lease))
         \/ Del(n) \/ SaveLine(n)
         \/ \E pass \in Passes : Check(n, pass)
    \/ SaveOpen \/ Saved \/ LdapLogin \/ Restart

Spec == Init /\ [][Next]_userVars

-----------------------------------------------------------------------------
(* Every user keeps its shape, also when it is read back from a file that  *)
(* a crash cut short.                                                      *)
TypeOK ==
    /\ DOMAIN users = Names
    /\ \A n \in Names : users[n] # NoUser =>
           DOMAIN users[n] = {"pass", "role", "lease"} /\ users[n].lease \in Leases
    /\ call.at \in {"idle", "open", "save", "ldap"} /\ call.left \subseteq Names
    /\ torn \in BOOLEAN /\ calls \in 0 .. MaxCalls
    /\ accepted.by \in {"no", "local", "ldap"}

(* Is the password one field of a line? *)
Plain(u) == Len(u.pass) = 1

(* user.go:20-81: when no call is under way and the last Save met no       *)
(* error, a restart reads back every local user with its password, role    *)
(* and lease, and nobody else: no user of LDAP and none that was deleted.  *)
(* (A password with a colon comes back as another one.)                    *)
Persisted ==
    call.at \notin {"open", "save"} /\ ~torn =>
        \A n \in Names :
            LET u == users[n] IN
            IF IsLocal(u) THEN Plain(u) => Loaded(file)[n] = u
            ELSE Loaded(file)[n] = NoUser

(* A crash at any step of Save loses users but never mixes two states of   *)
(* one: who is read back is as before the call or as after it.             *)
CrashKeepsWhole ==
    ~torn => \A n \in Names :
        \/ Loaded(file)[n] = NoUser
        \/ \E u \in {users[n], before[n]} : IsLocal(u) /\ (Plain(u) => Loaded(file)[n] = u)

(* user.go:138-187: LDAP is no second door for the name of a local user,   *)
(* whose entry the login would turn into one of LDAP and the next Save     *)
(* leave out of the file; whatever was added, expired or reloaded before.  *)
OneDoor == accepted.by = "ldap" => ~IsLocal(accepted.was)

(* cache/user.go through crashes, restarts and LDAP: what was saved is     *)
(* read back, a torn file mixes nobody up, and a local user stays local.   *)
UsersKept == Persisted /\ CrashKeepsWhole /\ OneDoor
=============================================================================
