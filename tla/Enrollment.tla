----------------------------- MODULE Enrollment -----------------------------
(***************************************************************************)
(* How a machine becomes an endpoint: issue_enrollment_token, enroll and   *)
(* revoke of backend/fleet.py, served by the threads of the HTTP server,   *)
(* and the part of endpoint/agent.py that presents a token once and keeps  *)
(* the credential it gets.  As in Fleet, a handler reads on one connection *)
(* and writes in a later transaction: each action is one read, one         *)
(* transaction, or the fate of one answer.  A token and a credential are   *)
(* identified with their rows: digests and salts are not modelled.         *)
(***************************************************************************)
EXTENDS Naturals, FiniteSets

CONSTANTS
    Name,           \* names an operator may authorize
    Token,          \* rows of enrollment_tokens, named by their secret
    Id,             \* rows of endpoints, named by their credential
    Machine,        \* machines an agent may be started on
    Server,         \* threads of the HTTP server
    Nobody,         \* the value of an unset token, endpoint, machine or name
    MaxEndpoints,   \* MAX_ENDPOINTS, 500 in the code
    MaxMishaps      \* bound: lost answers, failed transactions and writes

ASSUME EnrollmentAssumption ==
    /\ Nobody \notin Name \cup Token \cup Id \cup Machine \cup Server
    /\ IsFiniteSet(Id)
    /\ MaxEndpoints \in Nat \ {0}
    /\ MaxMishaps \in Nat

VARIABLES
    token,      \* the rows of enrollment_tokens
    endpoint,   \* the rows of endpoints
    machine,    \* the agent process and the identity file of each machine
    server,     \* the request each server thread is working on
    lapsed,     \* history: the endpoints whose credential nobody holds
    mishaps     \* what went wrong so far

evars == <<token, endpoint, machine, server, lapsed, mishaps>>

TokenRow    == [name : Name \cup {Nobody}, expired : BOOLEAN,
                used : Id \cup {Nobody}]
EndpointRow == [name : Name \cup {Nobody}, by : Token \cup {Nobody},
                revoked : BOOLEAN]
MachineRow  == [pc : {"off", "asking", "running"}, via : Server \cup {Nobody},
                identity : Id \cup {Nobody}]

(* A request: "issue" has found the name free, "insert" the count below    *)
(* the limit; "enroll" has arrived, "redeem" has read its token, "answer"  *)
(* carries a credential to machine for, which may no longer be listening.  *)
ServerRow == [op : {"idle", "issue", "insert", "enroll", "redeem", "answer"},
              name : Name \cup {Nobody}, token : Token \cup {Nobody},
              id : Id \cup {Nobody}, for : Machine \cup {Nobody}]

NoToken    == [name |-> Nobody, expired |-> FALSE, used |-> Nobody]
NoEndpoint == [name |-> Nobody, by |-> Nobody, revoked |-> FALSE]
NewMachine == [pc |-> "off", via |-> Nobody, identity |-> Nobody]
NoRequest  == [op |-> "idle", name |-> Nobody, token |-> Nobody,
               id |-> Nobody, for |-> Nobody]

EInit ==
    /\ token = [t \in Token |-> NoToken]
    /\ endpoint = [e \in Id |-> NoEndpoint]
    /\ machine = [m \in Machine |-> NewMachine]
    /\ server = [w \in Server |-> NoRequest]
    /\ lapsed = {}
    /\ mishaps = 0

Issued   == {t \in Token : token[t].name # Nobody}
Enrolled == {e \in Id : endpoint[e].name # Nobody}
Taken(n) == \E e \in Id : endpoint[e].name = n

Op(w, op) == server[w].op = op
Freed(w) == server' = [server EXCEPT ![w] = NoRequest]

(* Mutant: the process that is refused fails instead of leaving.           *)
DismissedFailed(w) ==
    machine' = [m \in Machine |->
        IF machine[m].via = w
        THEN [machine[m] EXCEPT !.pc = "failed", !.via = Nobody]
        ELSE machine[m]]

(* The process that waits for the answer of w exits without a credential.  *)
Dismissed(w) ==
    machine' = [m \in Machine |->
        IF machine[m].via = w
        THEN [machine[m] EXCEPT !.pc = "off", !.via = Nobody]
        ELSE machine[m]]

-----------------------------------------------------------------------------
(* issue_enrollment_token: two reads and a transaction                     *)

IssueChecksName(w, n) ==
    /\ Op(w, "idle")
    /\ ~Taken(n)
    /\ server' = [server EXCEPT ![w] = [NoRequest EXCEPT !.op = "issue", !.name = n]]
    /\ UNCHANGED <<token, endpoint, machine, lapsed, mishaps>>

(* Mutant: the limit is compared with a greater-than.                      *)
IssueCountsOneMore(w) ==
    /\ Op(w, "issue")
    /\ IF Cardinality(Enrolled) > MaxEndpoints
       THEN Freed(w)
       ELSE server' = [server EXCEPT ![w].op = "insert"]
    /\ UNCHANGED <<token, endpoint, machine, lapsed, mishaps>>

IssueCounts(w) ==
    /\ Op(w, "issue")
    /\ IF Cardinality(Enrolled) >= MaxEndpoints
       THEN Freed(w)
       ELSE server' = [server EXCEPT ![w].op = "insert"]
    /\ UNCHANGED <<token, endpoint, machine, lapsed, mishaps>>

IssueCommits(w, t) ==
    /\ Op(w, "insert")
    /\ t \notin Issued
    /\ token' = [token EXCEPT ![t] = [NoToken EXCEPT !.name = server[w].name]]
    /\ Freed(w)
    /\ UNCHANGED <<endpoint, machine, lapsed, mishaps>>

-----------------------------------------------------------------------------
(* enroll: a read, the comparison of the expiry, and a transaction         *)

(* The agent is started with --enroll; what identity file there is stays   *)
(* until a new credential overwrites it.                                   *)
Present(m, w, t) ==
    /\ machine[m].pc = "off"
    /\ t \in Issued
    /\ Op(w, "idle")
    /\ machine' = [machine EXCEPT ![m].pc = "asking", ![m].via = w]
    /\ server' = [server EXCEPT ![w] =
          [NoRequest EXCEPT !.op = "enroll", !.token = t, !.for = m]]
    /\ UNCHANGED <<token, endpoint, lapsed, mishaps>>

(* Mutant: the expiry of the token is not compared.                        *)
ReadsAnyToken(w) ==
    /\ Op(w, "enroll")
    /\ LET row == token[server[w].token]
       IN  IF row.used # Nobody
           THEN Freed(w) /\ Dismissed(w)
           ELSE server' = [server EXCEPT ![w].op = "redeem"] /\ UNCHANGED machine
    /\ UNCHANGED <<token, endpoint, lapsed, mishaps>>

ReadsToken(w) ==
    /\ Op(w, "enroll")
    /\ LET row == token[server[w].token]
       IN  IF row.used # Nobody \/ row.expired
           THEN Freed(w) /\ Dismissed(w)
           ELSE server' = [server EXCEPT ![w].op = "redeem"] /\ UNCHANGED machine
    /\ UNCHANGED <<token, endpoint, lapsed, mishaps>>

(* Mutants: without the unique index on the name; the token is not marked. *)
RedeemsTwice(w, e) ==
    /\ Op(w, "redeem")
    /\ e \notin Enrolled
    /\ LET t == server[w].token
       IN  /\ endpoint' = [endpoint EXCEPT ![e] =
                 [NoEndpoint EXCEPT !.name = token[t].name, !.by = t]]
           /\ token' = [token EXCEPT ![t].used = e]
    /\ server' = [server EXCEPT ![w].op = "answer", ![w].id = e]
    /\ UNCHANGED <<machine, lapsed, mishaps>>
RedeemsUnmarked(w, e) ==
    /\ Op(w, "redeem")
    /\ e \notin Enrolled
    /\ ~Taken(token[server[w].token].name)
    /\ LET t == server[w].token
       IN  endpoint' = [endpoint EXCEPT ![e] =
                 [NoEndpoint EXCEPT !.name = token[t].name, !.by = t]]
    /\ server' = [server EXCEPT ![w].op = "answer", ![w].id = e]
    /\ UNCHANGED <<token, machine, lapsed, mishaps>>

(* The UPDATE does not ask whether the token is still unused: what keeps a *)
(* second redemption out is the unique index on endpoints.name.            *)
Redeems(w, e) ==
    /\ Op(w, "redeem")
    /\ e \notin Enrolled
    /\ ~Taken(token[server[w].token].name)
    /\ LET t == server[w].token
       IN  /\ endpoint' = [endpoint EXCEPT ![e] =
                 [NoEndpoint EXCEPT !.name = token[t].name, !.by = t]]
           /\ token' = [token EXCEPT ![t].used = e]
    /\ server' = [server EXCEPT ![w].op = "answer", ![w].id = e]
    /\ UNCHANGED <<machine, lapsed, mishaps>>

NameCollides(w) ==
    /\ Op(w, "redeem")
    /\ Taken(token[server[w].token].name)
    /\ Freed(w)
    /\ Dismissed(w)
    /\ UNCHANGED <<token, endpoint, lapsed, mishaps>>

-----------------------------------------------------------------------------
(* The answer to an enrollment                                             *)

Listens(w) == server[w].for # Nobody /\ machine[server[w].for].via = w

(* Mutant: the agent keeps the credential it already has.                  *)
KeepsOld(w) ==
    LET m == server[w].for
    IN  /\ machine' = [machine EXCEPT ![m] =
              [pc |-> "running", via |-> Nobody,
               identity |-> IF @.identity = Nobody THEN server[w].id ELSE @.identity]]
        /\ lapsed' = lapsed \cup ({machine[m].identity} \ {Nobody})

(* save_identity replaces the file, and with it an older credential.       *)
Saved(w) ==
    LET m == server[w].for
    IN  /\ machine' = [machine EXCEPT ![m] =
              [pc |-> "running", via |-> Nobody, identity |-> server[w].id]]
        /\ lapsed' = lapsed \cup ({machine[m].identity} \ {Nobody})

Answered(w) ==
    /\ Op(w, "answer")
    /\ Listens(w)
    /\ Saved(w)
    /\ Freed(w)
    /\ UNCHANGED <<token, endpoint, mishaps>>

(* The answer finds nobody.                                                *)
Unheard(w) ==
    /\ Op(w, "answer")
    /\ ~Listens(w)
    /\ lapsed' = lapsed \cup {server[w].id}
    /\ Freed(w)
    /\ UNCHANGED <<token, endpoint, machine, mishaps>>

(* REQUEST_TIMEOUT, a broken connection or the end of the process: the     *)
(* agent exits as it was, its request goes on.                             *)
AgentLeaves(m) ==
    /\ machine[m].pc = "asking"
    /\ mishaps < MaxMishaps
    /\ mishaps' = mishaps + 1
    /\ machine' = [machine EXCEPT ![m].pc = "off", ![m].via = Nobody]
    /\ UNCHANGED <<token, endpoint, server, lapsed>>

(* A transaction raises before it commits.                                 *)
HandlerFails(w) ==
    /\ server[w].op \in {"insert", "redeem"}
    /\ mishaps < MaxMishaps
    /\ mishaps' = mishaps + 1
    /\ Freed(w)
    /\ Dismissed(w)
    /\ UNCHANGED <<token, endpoint, lapsed>>

-----------------------------------------------------------------------------
(* The operator, the clock and the owner of a machine                      *)

(* ENROLLMENT_TTL_MINUTES have passed.                                     *)
Expires(t) ==
    /\ t \in Issued
    /\ ~token[t].expired
    /\ token' = [token EXCEPT ![t].expired = TRUE]
    /\ UNCHANGED <<endpoint, machine, server, lapsed, mishaps>>

(* The row of a revoked endpoint keeps its name.                           *)
Withdraw(e) ==
    /\ e \in Enrolled
    /\ ~endpoint[e].revoked
    /\ endpoint' = [endpoint EXCEPT ![e].revoked = TRUE]
    /\ UNCHANGED <<token, machine, server, lapsed, mishaps>>

Stop(m) ==
    /\ machine[m].pc = "running"
    /\ machine' = [machine EXCEPT ![m].pc = "off"]
    /\ UNCHANGED <<token, endpoint, server, lapsed, mishaps>>

(* Started without --enroll the agent loads its identity or exits.         *)
Restart(m) ==
    /\ machine[m].pc = "off"
    /\ machine[m].identity # Nobody
    /\ machine' = [machine EXCEPT ![m].pc = "running"]
    /\ UNCHANGED <<token, endpoint, server, lapsed, mishaps>>

-----------------------------------------------------------------------------
Enrolling(w) ==
    \/ ReadsToken(w) \/ NameCollides(w) \/ Answered(w) \/ Unheard(w)
    \/ \E e \in Id : Redeems(w, e)

ENext ==
    \/ \E w \in Server :
          \/ \E n \in Name : IssueChecksName(w, n)
          \/ IssueCounts(w)
          \/ \E t \in Token : IssueCommits(w, t) \/ \E m \in Machine : Present(m, w, t)
          \/ Enrolling(w)
          \/ HandlerFails(w)
    \/ \E m \in Machine : AgentLeaves(m) \/ Stop(m) \/ Restart(m)
    \/ \E t \in Token : Expires(t)
    \/ \E e \in Id : Withdraw(e)

ESpec == EInit /\ [][ENext]_evars

-----------------------------------------------------------------------------
(* Properties                                                              *)

(* Every variable has the shape the code gives it.                         *)
ETypeOK ==
    /\ token \in [Token -> TokenRow]
    /\ endpoint \in [Id -> EndpointRow]
    /\ machine \in [Machine -> MachineRow]
    /\ server \in [Server -> ServerRow]
    /\ lapsed \subseteq Id
    /\ mishaps \in 0..MaxMishaps

(* A token makes one endpoint, of the name it was issued for, and says     *)
(* which; no two endpoints share a name - although the transaction of      *)
(* enroll never looks at used_at again (enroll, endpoint_name).            *)
TokenSingleUse ==
    /\ \A e \in Enrolled :
          /\ endpoint[e].by # Nobody
          /\ token[endpoint[e].by].used = e
          /\ token[endpoint[e].by].name = endpoint[e].name
    /\ \A t \in Token : token[t].used # Nobody => endpoint[token[t].used].by = t
    /\ \A e, f \in Enrolled : endpoint[e].name = endpoint[f].name => e = f

(* A credential is on at most one machine or on its way to one, whatever   *)
(* answers are lost; one that is nowhere was overwritten or never heard,   *)
(* and then its endpoint stays in the fleet although nobody can speak for  *)
(* it (enroll, save_identity).                                             *)
Holders(e) == {m \in Machine : machine[m].identity = e}
Carriers(e) == {w \in Server : Op(w, "answer") /\ server[w].id = e}
CredentialHeldOnce ==
    \A e \in Enrolled :
        Cardinality(Holders(e)) + Cardinality(Carriers(e)) =
            IF e \in lapsed THEN 0 ELSE 1

(* A token, a name and a credential are each good for one endpoint (enroll,*)
(* revoke, and the identity file of the agent).                            *)
EnrolledOnce == TokenSingleUse /\ CredentialHeldOnce

(* Once the fleet is full and no issue is past its count, no authority for *)
(* another machine is granted any more: how far MAX_ENDPOINTS reaches,     *)
(* since enroll never compares it (issue_enrollment_token).                *)
FullGrantsNothing ==
    [][(/\ Cardinality(Enrolled) >= MaxEndpoints
        /\ \A w \in Server : ~Op(w, "insert")) =>
           /\ Issued' = Issued
           /\ \A w \in Server : server'[w].op # "insert"]_evars

(* An endpoint exists only by an authority naming it that had not lapsed   *)
(* when its request was read.  A token lapses when it expires with no      *)
(* request past that read.                                                 *)
Redeeming(t) == \E w \in Server : Op(w, "redeem") /\ server[w].token = t
Authorities == INSTANCE Authority WITH
    state <- [t \in Token |->
        IF token[t].used # Nobody THEN "consumed"
        ELSE IF t \notin Issued THEN "none"
        ELSE IF token[t].expired /\ ~Redeeming(t) THEN "lapsed"
        ELSE "granted"],
    names <- [t \in Token |->
        IF t \in Issued THEN token[t].name ELSE CHOOSE n \in Name : TRUE],
    origin <- [e \in Id |-> endpoint[e].by]
ImplementsAuthority == Authorities!Spec
=============================================================================
