---------------------------- MODULE RecordsProofs -----------------------------
(***************************************************************************)
(* What the protocols around the record guarantee for every set of names,  *)
(* tokens, machines, investigations, executions, engines, calls and        *)
(* threads: that a token, a name and a credential are each good for one    *)
(* endpoint and the interleaved handlers implement the authority of        *)
(* Authority.tla (Enrollment); that the job log holds however commands,    *)
(* assessments, imports, clearings and restarts interleave (JobLog); and   *)
(* that recovery runs alone, by the workspace lock and not by what the     *)
(* supervisor believes (Ownership).                                        *)
(***************************************************************************)
EXTENDS MCRecords, EvidenceProofs

-----------------------------------------------------------------------------
(* Enrollment                                                              *)

(* What the rows say when they are empty.                                  *)
RowsPaired ==
    /\ \A t \in Token : token[t].name = Nobody => token[t] = NoToken
    /\ \A e \in Id : endpoint[e].by = Nobody <=> endpoint[e].name = Nobody

(* A request past its arrival names what it is about.                      *)
Sound(w) ==
    /\ server[w].op \in {"issue", "insert"} => server[w].name \in Name
    /\ server[w].op \in {"enroll", "redeem", "answer"} =>
          server[w].token \in Issued /\ server[w].for \in Machine
Underway == \A w \in Server : Sound(w)

(* Where the credentials are: no two places hold the same one, and those   *)
(* that are nowhere have lapsed.                                           *)
Carried(w) == Op(w, "answer")
CredentialsPlaced ==
    /\ lapsed \subseteq Enrolled
    /\ \A m \in Machine : machine[m].identity # Nobody =>
          machine[m].identity \in Enrolled \ lapsed
    /\ \A w \in Server : Carried(w) => server[w].id \in Enrolled \ lapsed
    /\ \A m, n \in Machine :
          machine[m].identity # Nobody /\ machine[m].identity = machine[n].identity => m = n
    /\ \A w, v \in Server :
          Carried(w) /\ Carried(v) /\ server[w].id = server[v].id => w = v
    /\ \A m \in Machine, w \in Server :
          Carried(w) => machine[m].identity # server[w].id
    /\ \A e \in Enrolled \ lapsed :
          \/ \E m \in Machine : machine[m].identity = e
          \/ \E w \in Server : Carried(w) /\ server[w].id = e

EInv == ETypeOK /\ RowsPaired /\ Underway /\ TokenSingleUse /\ CredentialsPlaced

-----------------------------------------------------------------------------
(* Types                                                                   *)

LEMMA EmptyRows ==
    /\ NoToken \in TokenRow /\ NoEndpoint \in EndpointRow
    /\ NewMachine \in MachineRow /\ NoRequest \in ServerRow
  BY DEF NoToken, TokenRow, NoEndpoint, EndpointRow, NewMachine, MachineRow,
     NoRequest, ServerRow

LEMMA FreedType ==
  ASSUME ETypeOK, NEW w \in Server, Freed(w)
  PROVE  server' \in [Server -> ServerRow]
  BY EmptyRows DEF ETypeOK, Freed

LEMMA DismissedType ==
  ASSUME ETypeOK, NEW w \in Server, Dismissed(w)
  PROVE  machine' \in [Machine -> MachineRow]
<1>1. ASSUME NEW m \in Machine
      PROVE  [machine[m] EXCEPT !.pc = "off", !.via = Nobody] \in MachineRow
  BY DEF ETypeOK, MachineRow
<1>2. QED
  BY <1>1 DEF ETypeOK, Dismissed

LEMMA InitEInv == EInit => EInv
<1> SUFFICES ASSUME EInit PROVE EInv
  OBVIOUS
<1>1. ETypeOK
  BY EmptyRows, EnrollmentAssumption DEF EInit, ETypeOK
<1>2. RowsPaired /\ Underway
  BY DEF EInit, RowsPaired, Underway, Sound, NoEndpoint, NoRequest
<1>3. Enrolled = {}
  BY DEF EInit, Enrolled, NoEndpoint
<1>4. TokenSingleUse
  BY <1>3 DEF EInit, TokenSingleUse, NoToken
<1>5. CredentialsPlaced
  BY <1>3 DEF EInit, CredentialsPlaced, Carried, Op, NewMachine, NoRequest
<1>6. QED
  BY <1>1, <1>2, <1>4, <1>5 DEF EInv

LEMMA NextETypeOK ==
  ASSUME EInv, [ENext]_evars
  PROVE  ETypeOK'
<1> USE DEF EInv
<1>1. ASSUME NEW w \in Server, NEW n \in Name, IssueChecksName(w, n) PROVE ETypeOK'
  <2>1. [NoRequest EXCEPT !.op = "issue", !.name = n] \in ServerRow
    BY EmptyRows DEF NoRequest, ServerRow
  <2>2. QED
    BY <1>1, <2>1 DEF IssueChecksName, ETypeOK
<1>2. ASSUME NEW w \in Server, IssueCounts(w) PROVE ETypeOK'
  <2>1. [server[w] EXCEPT !.op = "insert"] \in ServerRow
    BY DEF ETypeOK, ServerRow
  <2>2. server' \in [Server -> ServerRow]
    BY <1>2, <2>1, FreedType DEF IssueCounts, ETypeOK
  <2>3. QED
    BY <1>2, <2>2 DEF IssueCounts, ETypeOK
<1>3. ASSUME NEW w \in Server, NEW t \in Token, IssueCommits(w, t) PROVE ETypeOK'
  <2>1. [NoToken EXCEPT !.name = server[w].name] \in TokenRow
    BY DEF ETypeOK, ServerRow, NoToken, TokenRow
  <2>2. QED
    BY <1>3, <2>1, FreedType DEF IssueCommits, ETypeOK
<1>4. ASSUME NEW w \in Server, NEW t \in Token, NEW m \in Machine, Present(m, w, t)
      PROVE  ETypeOK'
  <2>1. /\ [NoRequest EXCEPT !.op = "enroll", !.token = t, !.for = m] \in ServerRow
        /\ [machine[m] EXCEPT !.pc = "asking", !.via = w] \in MachineRow
    BY DEF ETypeOK, MachineRow, NoRequest, ServerRow
  <2>2. machine' = [machine EXCEPT ![m] = [machine[m] EXCEPT !.pc = "asking", !.via = w]]
    BY <1>4 DEF Present, ETypeOK
  <2>3. QED
    BY <1>4, <2>1, <2>2 DEF Present, ETypeOK
<1>5. ASSUME NEW w \in Server, ReadsToken(w) PROVE ETypeOK'
  <2>1. [server[w] EXCEPT !.op = "redeem"] \in ServerRow
    BY DEF ETypeOK, ServerRow
  <2>2. server' \in [Server -> ServerRow] /\ machine' \in [Machine -> MachineRow]
    BY <1>5, <2>1, FreedType, DismissedType DEF ReadsToken, ETypeOK
  <2>3. QED
    BY <1>5, <2>2 DEF ReadsToken, ETypeOK
<1>6. ASSUME NEW w \in Server, NEW e \in Id, Redeems(w, e) PROVE ETypeOK'
  <2> DEFINE t == server[w].token
  <2>1. t \in Token
    BY <1>6 DEF Redeems, Underway, Sound, Op, Issued
  <2>2. /\ [NoEndpoint EXCEPT !.name = token[t].name, !.by = t] \in EndpointRow
        /\ [token[t] EXCEPT !.used = e] \in TokenRow
    BY <2>1 DEF ETypeOK, NoEndpoint, EndpointRow, TokenRow
  <2>3. [server[w] EXCEPT !.op = "answer", !.id = e] \in ServerRow
    BY DEF ETypeOK, ServerRow
  <2>4. server' = [server EXCEPT ![w] = [server[w] EXCEPT !.op = "answer", !.id = e]]
    BY <1>6 DEF Redeems, ETypeOK
  <2>5. server' \in [Server -> ServerRow]
    BY <2>3, <2>4 DEF ETypeOK
  <2>6. endpoint' \in [Id -> EndpointRow] /\ token' \in [Token -> TokenRow]
    BY <1>6, <2>1, <2>2 DEF Redeems, ETypeOK
  <2>7. QED
    BY <1>6, <2>5, <2>6 DEF Redeems, ETypeOK
<1>7. ASSUME NEW w \in Server, NameCollides(w) PROVE ETypeOK'
  BY <1>7, FreedType, DismissedType DEF NameCollides, ETypeOK
<1>8. ASSUME NEW w \in Server, Answered(w) PROVE ETypeOK'
  <2>1. server[w].for \in Machine
    BY <1>8 DEF Answered, Underway, Sound, Op
  <2>2. [pc |-> "running", via |-> Nobody, identity |-> server[w].id] \in MachineRow
    BY DEF ETypeOK, ServerRow, MachineRow
  <2>3. machine[server[w].for].identity \in Id \cup {Nobody}
    BY <2>1 DEF ETypeOK, MachineRow
  <2>4. QED
    BY <1>8, <2>1, <2>2, <2>3, FreedType DEF Answered, Saved, ETypeOK
<1>9. ASSUME NEW w \in Server, Unheard(w) PROVE ETypeOK'
  <2>1. server[w].id \in Id
    BY <1>9 DEF Unheard, CredentialsPlaced, Carried, Enrolled
  <2>2. QED
    BY <1>9, <2>1, FreedType DEF Unheard, ETypeOK
<1>10. ASSUME NEW m \in Machine, AgentLeaves(m) PROVE ETypeOK'
  <2>1. [machine[m] EXCEPT !.pc = "off", !.via = Nobody] \in MachineRow
    BY DEF ETypeOK, MachineRow
  <2>2. machine' = [machine EXCEPT ![m] = [machine[m] EXCEPT !.pc = "off", !.via = Nobody]]
    BY <1>10 DEF AgentLeaves, ETypeOK
  <2>3. QED
    BY <1>10, <2>1, <2>2, EnrollmentAssumption DEF AgentLeaves, ETypeOK
<1>11. ASSUME NEW w \in Server, HandlerFails(w) PROVE ETypeOK'
  BY <1>11, FreedType, DismissedType, EnrollmentAssumption DEF HandlerFails, ETypeOK
<1>12. ASSUME NEW t \in Token, Expires(t) PROVE ETypeOK'
  BY <1>12 DEF Expires, ETypeOK, TokenRow
<1>13. ASSUME NEW e \in Id, Withdraw(e) PROVE ETypeOK'
  BY <1>13 DEF Withdraw, ETypeOK, EndpointRow
<1>14. ASSUME NEW m \in Machine, Stop(m) \/ Restart(m) PROVE ETypeOK'
  BY <1>14 DEF Stop, Restart, ETypeOK, MachineRow
<1>15. CASE UNCHANGED evars
  BY <1>15 DEF evars, ETypeOK
<1>16. QED
  BY <1>1, <1>2, <1>3, <1>4, <1>5, <1>6, <1>7, <1>8, <1>9, <1>10, <1>11, <1>12, <1>13,
     <1>14, <1>15 DEF ENext, Enrolling

-----------------------------------------------------------------------------
(* Rows and requests                                                       *)

(* Actions that change no row leave what the rows say alone.               *)
LEMMA RowsAlone ==
  ASSUME RowsPaired, TokenSingleUse, UNCHANGED <<token, endpoint>>
  PROVE  RowsPaired' /\ TokenSingleUse'
  BY DEF RowsPaired, TokenSingleUse, Enrolled

(* A token whose name is free has made no endpoint: this is all that keeps *)
(* a second redemption out.                                                *)
LEMMA FreeNameUnused ==
  ASSUME ETypeOK, RowsPaired, TokenSingleUse,
         NEW t \in Issued, ~Taken(token[t].name)
  PROVE  token[t].used = Nobody
<1> SUFFICES ASSUME token[t].used # Nobody PROVE FALSE
  OBVIOUS
<1> DEFINE f == token[t].used
<1>1. t \in Token /\ f \in Id
  BY DEF Issued, ETypeOK, TokenRow
<1>2. endpoint[f].by = t /\ t # Nobody
  BY <1>1, EnrollmentAssumption DEF TokenSingleUse
<1>3. f \in Enrolled
  BY <1>1, <1>2 DEF RowsPaired, Enrolled
<1>4. token[endpoint[f].by].name = endpoint[f].name
  BY <1>3 DEF TokenSingleUse
<1>5. QED
  BY <1>1, <1>2, <1>4 DEF Taken

LEMMA NextRows ==
  ASSUME EInv, [ENext]_evars
  PROVE  RowsPaired' /\ TokenSingleUse'
<1> USE DEF EInv
<1>1. ASSUME NEW w \in Server, NEW t \in Token, IssueCommits(w, t)
      PROVE  RowsPaired' /\ TokenSingleUse'
  <2>1. /\ token[t] = NoToken
        /\ server[w].name \in Name /\ server[w].name # Nobody
    BY <1>1, EnrollmentAssumption DEF IssueCommits, Issued, RowsPaired, Underway, Sound, Op
  <2>2. /\ token'[t].name = server[w].name /\ token'[t].used = Nobody
        /\ \A s \in Token \ {t} : token'[s] = token[s]
        /\ UNCHANGED endpoint
    BY <1>1 DEF IssueCommits, ETypeOK, NoToken
  <2>3. \A e \in Enrolled : endpoint[e].by # t /\ endpoint[e].by \in Token
    BY <2>1 DEF TokenSingleUse, Enrolled, NoToken, ETypeOK, EndpointRow
  <2>4. Enrolled' = Enrolled
    BY <2>2 DEF Enrolled
  <2>5. RowsPaired'
    BY <2>1, <2>2 DEF RowsPaired
  <2>6. TokenSingleUse'
    BY <2>2, <2>3, <2>4 DEF TokenSingleUse
  <2>7. QED
    BY <2>5, <2>6
<1>2. ASSUME NEW w \in Server, NEW e \in Id, Redeems(w, e)
      PROVE  RowsPaired' /\ TokenSingleUse'
  <2> DEFINE t == server[w].token
  <2>1. t \in Issued /\ t \in Token /\ t # Nobody /\ token[t].name # Nobody
    BY <1>2, EnrollmentAssumption DEF Redeems, Underway, Sound, Op, Issued
  <2>2. token[t].used = Nobody
    BY <1>2, <2>1, FreeNameUnused DEF Redeems
  <2>3. /\ token'[t].name = token[t].name /\ token'[t].used = e
        /\ \A s \in Token \ {t} : token'[s] = token[s]
        /\ endpoint'[e].name = token[t].name /\ endpoint'[e].by = t
        /\ \A f \in Id \ {e} : endpoint'[f] = endpoint[f]
    BY <1>2, <2>1 DEF Redeems, ETypeOK, NoEndpoint, TokenRow
  <2>4. Enrolled' = Enrolled \cup {e} /\ e \notin Enrolled
    BY <1>2, <2>1, <2>3 DEF Enrolled, Redeems
  <2>5. \A f \in Enrolled :
           /\ endpoint[f].by # Nobody /\ endpoint[f].by \in Token \ {t}
           /\ f \in Id \ {e} /\ endpoint[f].name # token[t].name
    <3> SUFFICES ASSUME NEW f \in Enrolled
                 PROVE  /\ endpoint[f].by # Nobody /\ endpoint[f].by \in Token \ {t}
                        /\ f \in Id \ {e} /\ endpoint[f].name # token[t].name
      OBVIOUS
    <3>1. f \in Id \ {e} /\ endpoint[f].by # Nobody /\ endpoint[f].by \in Token
      BY <2>4 DEF Enrolled, TokenSingleUse, ETypeOK, EndpointRow
    <3>2. token[endpoint[f].by].used = f
      BY DEF TokenSingleUse
    <3>3. endpoint[f].by # t
      BY <2>2, <3>1, <3>2, EnrollmentAssumption
    <3>4. endpoint[f].name # token[t].name
      BY <1>2, <3>1 DEF Redeems, Taken
    <3>5. QED
      BY <3>1, <3>3, <3>4
  <2>6. RowsPaired'
    BY <2>1, <2>3 DEF RowsPaired
  <2>7. ASSUME NEW s \in Token, token'[s].used # Nobody
        PROVE  endpoint'[token'[s].used].by = s
    <3>1. CASE s = t
      BY <2>3, <3>1
    <3>2. CASE s # t
      <4>1. token[s].used # Nobody /\ token[s].used \in Id /\ token'[s].used = token[s].used
        BY <2>3, <2>7, <3>2 DEF ETypeOK, TokenRow
      <4>2. endpoint[token[s].used].by = s
        BY <4>1 DEF TokenSingleUse
      <4>3. s # Nobody
        BY EnrollmentAssumption
      <4>4. token[s].used \in Enrolled
        BY <4>1, <4>2, <4>3 DEF RowsPaired, Enrolled
      <4>5. QED
        BY <2>3, <2>5, <4>1, <4>2, <4>4
    <3>3. QED
      BY <3>1, <3>2
  <2>8. ASSUME NEW f \in Enrolled'
        PROVE  /\ endpoint'[f].by # Nobody
               /\ token'[endpoint'[f].by].used = f
               /\ token'[endpoint'[f].by].name = endpoint'[f].name
    <3>1. CASE f = e
      BY <2>1, <2>3, <3>1
    <3>2. CASE f \in Enrolled
      BY <2>3, <2>5, <3>2 DEF TokenSingleUse
    <3>3. QED
      BY <2>4, <3>1, <3>2
  <2>9. ASSUME NEW f \in Enrolled', NEW g \in Enrolled', endpoint'[f].name = endpoint'[g].name
        PROVE  f = g
    BY <2>3, <2>4, <2>5, <2>9 DEF TokenSingleUse
  <2>10. TokenSingleUse'
    BY <2>7, <2>8, <2>9 DEF TokenSingleUse
  <2>11. QED
    BY <2>6, <2>10
<1>3. ASSUME NEW t \in Token, Expires(t) PROVE RowsPaired' /\ TokenSingleUse'
  <2>1. /\ \A s \in Token : token'[s].name = token[s].name /\ token'[s].used = token[s].used
        /\ \A s \in Token \ {t} : token'[s] = token[s]
        /\ token[t].name # Nobody /\ UNCHANGED endpoint
    BY <1>3 DEF Expires, ETypeOK, TokenRow, Issued
  <2>2. RowsPaired'
    BY <2>1 DEF RowsPaired
  <2>3. \A e \in Enrolled : endpoint[e].by \in Token
    BY DEF TokenSingleUse, Enrolled, ETypeOK, EndpointRow
  <2>4. TokenSingleUse'
    BY <2>1, <2>3 DEF TokenSingleUse, Enrolled
  <2>5. QED
    BY <2>2, <2>4
<1>4. ASSUME NEW e \in Id, Withdraw(e) PROVE RowsPaired' /\ TokenSingleUse'
  <2>1. /\ \A f \in Id : endpoint'[f].name = endpoint[f].name /\ endpoint'[f].by = endpoint[f].by
        /\ UNCHANGED token
    BY <1>4 DEF Withdraw, ETypeOK, EndpointRow
  <2>2. Enrolled' = Enrolled
    BY <2>1 DEF Enrolled
  <2>3. \A t \in Token : token[t].used \in Id \cup {Nobody}
    BY DEF ETypeOK, TokenRow
  <2>4. QED
    BY <2>1, <2>2, <2>3 DEF RowsPaired, TokenSingleUse, Enrolled
<1>5. CASE UNCHANGED <<token, endpoint>>
  BY <1>5, RowsAlone
<1>6. QED
  BY <1>1, <1>2, <1>3, <1>4, <1>5
  DEF ENext, Enrolling, evars, IssueChecksName, IssueCounts, Present, ReadsToken, NameCollides,
      Answered, Unheard, HandlerFails, AgentLeaves, Stop, Restart

LEMMA IssuedGrows == EInv /\ [ENext]_evars => Issued \subseteq Issued'
<1> SUFFICES ASSUME EInv, [ENext]_evars, NEW t \in Issued PROVE t \in Issued'
  OBVIOUS
<1> USE DEF EInv
<1>1. t \in Token /\ token[t].name # Nobody
  BY DEF Issued
<1>2. ASSUME NEW w \in Server, NEW s \in Token, IssueCommits(w, s) PROVE t \in Issued'
  <2>1. t # s
    BY <1>2 DEF IssueCommits
  <2>2. QED
    BY <1>1, <1>2, <2>1 DEF IssueCommits, Issued, ETypeOK
<1>3. ASSUME NEW w \in Server, NEW e \in Id, Redeems(w, e) PROVE t \in Issued'
  BY <1>1, <1>3 DEF Redeems, Issued, ETypeOK, TokenRow
<1>4. ASSUME NEW s \in Token, Expires(s) PROVE t \in Issued'
  BY <1>1, <1>4 DEF Expires, Issued, ETypeOK, TokenRow
<1>5. CASE UNCHANGED token
  BY <1>5 DEF Issued
<1>6. QED
  BY <1>2, <1>3, <1>4, <1>5
  DEF ENext, Enrolling, evars, IssueChecksName, IssueCounts, Present, ReadsToken, NameCollides,
      Answered, Unheard, HandlerFails, AgentLeaves, Stop, Restart, Withdraw

LEMMA NextUnderway ==
  ASSUME EInv, [ENext]_evars
  PROVE  Underway'
<1> USE DEF EInv
<1>1. Issued \subseteq Issued'
  BY IssuedGrows
<1>2. SUFFICES ASSUME NEW v \in Server,
                      ~(server[v].op = server'[v].op /\ server[v].name = server'[v].name
                        /\ server[v].token = server'[v].token /\ server[v].for = server'[v].for)
               PROVE  Sound(v)'
  BY <1>1 DEF Underway, Sound
<1>3. ASSUME NEW w \in Server, Freed(w) PROVE Sound(v)'
  BY <1>2, <1>3 DEF Freed, ETypeOK, Sound, NoRequest
<1>4. ASSUME NEW w \in Server, NEW n \in Name, IssueChecksName(w, n) PROVE Sound(v)'
  BY <1>2, <1>4 DEF IssueChecksName, ETypeOK, Sound, NoRequest
<1>5. ASSUME NEW w \in Server, IssueCounts(w) PROVE Sound(v)'
  <2>1. CASE server' = [server EXCEPT ![w].op = "insert"]
    BY <1>2, <1>5, <2>1 DEF IssueCounts, ETypeOK, ServerRow, Sound, Underway, Op
  <2>2. QED
    BY <1>3, <1>5, <2>1 DEF IssueCounts
<1>6. ASSUME NEW w \in Server, NEW t \in Token, NEW m \in Machine, Present(m, w, t)
      PROVE  Sound(v)'
  BY <1>1, <1>2, <1>6 DEF Present, ETypeOK, Sound, NoRequest
<1>7. ASSUME NEW w \in Server, ReadsToken(w) PROVE Sound(v)'
  <2>1. CASE server' = [server EXCEPT ![w].op = "redeem"]
    BY <1>1, <1>2, <1>7, <2>1 DEF ReadsToken, ETypeOK, ServerRow, Sound, Underway, Op
  <2>2. QED
    BY <1>3, <1>7, <2>1 DEF ReadsToken
<1>8. ASSUME NEW w \in Server, NEW e \in Id, Redeems(w, e) PROVE Sound(v)'
  <2>1. server' = [server EXCEPT ![w] = [server[w] EXCEPT !.op = "answer", !.id = e]]
    BY <1>8 DEF Redeems, ETypeOK
  <2>2. QED
    BY <1>1, <1>2, <1>8, <2>1 DEF Redeems, ETypeOK, ServerRow, Sound, Underway, Op
<1>9. CASE UNCHANGED server
  BY <1>2, <1>9
<1>10. QED
  BY <1>3, <1>4, <1>5, <1>6, <1>7, <1>8, <1>9
  DEF ENext, Enrolling, evars, IssueCommits, NameCollides, Answered, Unheard, HandlerFails,
      AgentLeaves, Stop, Restart, Expires, Withdraw

-----------------------------------------------------------------------------
(* Credentials                                                             *)

CredentialsKept ==
    \A v \in Server : /\ Carried(v)' <=> Carried(v)
                      /\ Carried(v) => server'[v].id = server[v].id

(* A step that moves no credential leaves them placed.                     *)
LEMMA PlacesAlone ==
  ASSUME CredentialsPlaced, Enrolled' = Enrolled, lapsed' = lapsed,
         \A m \in Machine : machine'[m].identity = machine[m].identity,
         CredentialsKept
  PROVE  CredentialsPlaced'
<1>1. \A w \in Server : Carried(w)' <=> Carried(w)
  BY DEF CredentialsKept
<1>2. \A w \in Server : Carried(w) => server'[w].id = server[w].id
  BY DEF CredentialsKept
<1>3. /\ lapsed' \subseteq Enrolled'
      /\ \A m \in Machine : machine'[m].identity # Nobody =>
            machine'[m].identity \in Enrolled' \ lapsed'
      /\ \A w \in Server : Carried(w)' => server'[w].id \in Enrolled' \ lapsed'
  BY <1>1, <1>2 DEF CredentialsPlaced
<1>4. \A m, n \in Machine :
         machine'[m].identity # Nobody /\ machine'[m].identity = machine'[n].identity => m = n
  BY DEF CredentialsPlaced
<1>5. \A w, v \in Server :
         Carried(w)' /\ Carried(v)' /\ server'[w].id = server'[v].id => w = v
  BY <1>1, <1>2 DEF CredentialsPlaced
<1>6. \A m \in Machine, w \in Server : Carried(w)' => machine'[m].identity # server'[w].id
  BY <1>1, <1>2 DEF CredentialsPlaced
<1>7. \A e \in Enrolled' \ lapsed' :
         \/ \E m \in Machine : machine'[m].identity = e
         \/ \E w \in Server : Carried(w)' /\ server'[w].id = e
  BY <1>1, <1>2 DEF CredentialsPlaced
<1>8. QED
  BY <1>3, <1>4, <1>5, <1>6, <1>7 DEF CredentialsPlaced

LEMMA DismissedKeeps ==
  ASSUME ETypeOK, NEW w \in Server, Dismissed(w)
  PROVE  \A m \in Machine : machine'[m].identity = machine[m].identity
  BY DEF ETypeOK, MachineRow, Dismissed

LEMMA FreedKeeps ==
  ASSUME ETypeOK, NEW w \in Server, Freed(w), ~Carried(w)
  PROVE  CredentialsKept
  BY DEF ETypeOK, Freed, CredentialsKept, Carried, Op, NoRequest

LEMMA EnrolledKept ==
  ASSUME ETypeOK, [ENext]_evars, \A w \in Server, e \in Id : ~Redeems(w, e)
  PROVE  Enrolled' = Enrolled
<1>1. CASE UNCHANGED endpoint
  BY <1>1 DEF Enrolled
<1>2. ASSUME NEW e \in Id, Withdraw(e) PROVE Enrolled' = Enrolled
  BY <1>2 DEF Withdraw, Enrolled, ETypeOK, EndpointRow
<1>3. QED
  BY <1>1, <1>2
  DEF ENext, Enrolling, evars, IssueChecksName, IssueCounts, IssueCommits, Present, ReadsToken,
      NameCollides, Answered, Unheard, HandlerFails, AgentLeaves, Stop, Restart, Expires

LEMMA NextCredentialsPlaced ==
  ASSUME EInv, [ENext]_evars
  PROVE  CredentialsPlaced'
<1> USE DEF EInv
<1>1. ASSUME NEW w \in Server, NEW e \in Id, Redeems(w, e) PROVE CredentialsPlaced'
  <2>1. ~Carried(w) /\ e \notin Enrolled /\ e # Nobody
    BY <1>1, EnrollmentAssumption DEF Redeems, Carried, Op
  <2>2. Enrolled' = Enrolled \cup {e}
    <3>1. server[w].token \in Issued
      BY <1>1 DEF Redeems, Underway, Sound, Op
    <3>2. endpoint'[e].name # Nobody /\ \A f \in Id \ {e} : endpoint'[f] = endpoint[f]
      BY <1>1, <3>1 DEF Redeems, ETypeOK, NoEndpoint, Issued
    <3>3. QED
      BY <3>2 DEF Enrolled
  <2>3. /\ Carried(w)' /\ server'[w].id = e
        /\ \A v \in Server \ {w} : server'[v] = server[v]
        /\ UNCHANGED <<machine, lapsed>>
    BY <1>1 DEF Redeems, ETypeOK, ServerRow, Carried, Op
  <2>4. \A v \in Server \ {w} : Carried(v)' <=> Carried(v)
    BY <2>3 DEF Carried, Op
  <2>5. e \notin lapsed /\ \A m \in Machine : machine[m].identity # e
    BY <2>1 DEF CredentialsPlaced
  <2>6. \A v \in Server : Carried(v) => server[v].id # e
    BY <2>1 DEF CredentialsPlaced
  <2>7. \A f \in Enrolled \ lapsed :
           \/ \E m \in Machine : machine[m].identity = f
           \/ \E v \in Server \ {w} : Carried(v) /\ server[v].id = f
    BY <2>1 DEF CredentialsPlaced
  <2>8. \A f \in Enrolled' \ lapsed' :
           \/ \E m \in Machine : machine'[m].identity = f
           \/ \E v \in Server : Carried(v)' /\ server'[v].id = f
    BY <2>2, <2>3, <2>4, <2>7
  <2>9. \A v \in Server : Carried(v)' => server'[v].id \in Enrolled' \ lapsed'
    BY <2>2, <2>3, <2>4, <2>5 DEF CredentialsPlaced
  <2>10. \A v, u \in Server :
            Carried(v)' /\ Carried(u)' /\ server'[v].id = server'[u].id => v = u
    BY <2>3, <2>4, <2>6 DEF CredentialsPlaced
  <2>11. \A m \in Machine, v \in Server : Carried(v)' => machine'[m].identity # server'[v].id
    BY <2>3, <2>4, <2>5 DEF CredentialsPlaced
  <2>12. QED
    BY <2>2, <2>3, <2>8, <2>9, <2>10, <2>11 DEF CredentialsPlaced
<1>2. CASE \A w \in Server, e \in Id : ~Redeems(w, e)
  <2>1. Enrolled' = Enrolled
    BY <1>2, EnrolledKept
  <2>2. ASSUME NEW w \in Server, Answered(w) PROVE CredentialsPlaced'
    <3> DEFINE m == server[w].for
               e == server[w].id
               old == machine[m].identity
    <3>1. m \in Machine /\ Carried(w) /\ e \in Enrolled \ lapsed /\ e # Nobody
      BY <2>2, EnrollmentAssumption
      DEF Answered, Op, Carried, Underway, Sound, CredentialsPlaced, Enrolled
    <3>2. /\ machine'[m].identity = e
          /\ \A n \in Machine \ {m} : machine'[n] = machine[n]
          /\ lapsed' = lapsed \cup ({old} \ {Nobody})
      BY <2>2, <3>1 DEF Answered, Saved, ETypeOK
    <3>3. ~Carried(w)' /\ \A v \in Server \ {w} : server'[v] = server[v]
      BY <2>2 DEF Answered, Freed, ETypeOK, Carried, Op, NoRequest
    <3>4. \A v \in Server \ {w} : Carried(v)' <=> Carried(v)
      BY <3>3 DEF Carried, Op
    <3>5. old # e /\ (old # Nobody => old \in Enrolled \ lapsed)
      BY <3>1 DEF CredentialsPlaced
    <3>6. \A n \in Machine \ {m} : machine[n].identity # e /\
                                   (machine[n].identity # Nobody => machine[n].identity # old)
      BY <3>1 DEF CredentialsPlaced
    <3>7. \A v \in Server \ {w} : Carried(v) => server[v].id # e /\ server[v].id # old
      BY <3>1 DEF CredentialsPlaced
    <3>8. lapsed' \subseteq Enrolled'
      BY <2>1, <3>2, <3>5 DEF CredentialsPlaced
    <3>9. \A n \in Machine : machine'[n].identity # Nobody =>
             machine'[n].identity \in Enrolled' \ lapsed'
      BY <2>1, <3>1, <3>2, <3>5, <3>6 DEF CredentialsPlaced
    <3>10. \A v \in Server : Carried(v)' => server'[v].id \in Enrolled' \ lapsed'
      BY <2>1, <3>2, <3>3, <3>4, <3>7 DEF CredentialsPlaced
    <3>11. \A n, k \in Machine :
              machine'[n].identity # Nobody /\ machine'[n].identity = machine'[k].identity
                 => n = k
      BY <3>2, <3>6 DEF CredentialsPlaced
    <3>12. \A v, u \in Server :
              Carried(v)' /\ Carried(u)' /\ server'[v].id = server'[u].id => v = u
      BY <3>3, <3>4 DEF CredentialsPlaced
    <3>13. \A n \in Machine, v \in Server : Carried(v)' => machine'[n].identity # server'[v].id
      BY <3>2, <3>3, <3>4, <3>7 DEF CredentialsPlaced
    <3>14. ASSUME NEW f \in Enrolled' \ lapsed'
           PROVE  \/ \E n \in Machine : machine'[n].identity = f
                  \/ \E v \in Server : Carried(v)' /\ server'[v].id = f
      <4>1. f \in Enrolled \ lapsed /\ f # Nobody /\ f # old
        BY <2>1, <3>2, EnrollmentAssumption DEF Enrolled
      <4>2. CASE f = e
        BY <3>1, <3>2, <4>2
      <4>3. ASSUME NEW n \in Machine, machine[n].identity = f
            PROVE  \E k \in Machine : machine'[k].identity = f
        <5>1. n # m
          BY <4>1, <4>3
        <5>2. QED
          BY <3>2, <4>3, <5>1
      <4>4. ASSUME NEW v \in Server, Carried(v), server[v].id = f, f # e
            PROVE  \E u \in Server : Carried(u)' /\ server'[u].id = f
        BY <3>3, <3>4, <4>4
      <4>5. QED
        BY <4>1, <4>2, <4>3, <4>4 DEF CredentialsPlaced
    <3>15. QED
      BY <3>8, <3>9, <3>10, <3>11, <3>12, <3>13, <3>14 DEF CredentialsPlaced
  <2>3. ASSUME NEW w \in Server, Unheard(w) PROVE CredentialsPlaced'
    <3> DEFINE e == server[w].id
    <3>1. Carried(w) /\ e \in Enrolled \ lapsed
      BY <2>3 DEF Unheard, Carried, CredentialsPlaced
    <3>2. lapsed' = lapsed \cup {e} /\ UNCHANGED machine
      BY <2>3 DEF Unheard
    <3>3. ~Carried(w)' /\ \A v \in Server \ {w} : server'[v] = server[v]
      BY <2>3 DEF Unheard, Freed, ETypeOK, Carried, Op, NoRequest
    <3>4. \A v \in Server \ {w} : Carried(v)' <=> Carried(v)
      BY <3>3 DEF Carried, Op
    <3>5. \A v \in Server \ {w} : Carried(v) => server[v].id # e
      BY <3>1 DEF CredentialsPlaced
    <3>6. \A m \in Machine : machine[m].identity # e
      BY <3>1 DEF CredentialsPlaced
    <3>7. \A m \in Machine : machine'[m].identity # Nobody =>
             machine'[m].identity \in Enrolled' \ lapsed'
      BY <2>1, <3>2, <3>6 DEF CredentialsPlaced
    <3>8. \A v \in Server : Carried(v)' => server'[v].id \in Enrolled' \ lapsed'
      BY <2>1, <3>2, <3>3, <3>4, <3>5 DEF CredentialsPlaced
    <3>9. \A f \in Enrolled' \ lapsed' :
             \/ \E m \in Machine : machine'[m].identity = f
             \/ \E v \in Server : Carried(v)' /\ server'[v].id = f
      <4>1. \A f \in Enrolled' \ lapsed' : f \in Enrolled \ lapsed /\ f # e
        BY <2>1, <3>2
      <4>2. QED
        BY <3>2, <3>3, <3>4, <4>1 DEF CredentialsPlaced
    <3>10. QED
      BY <2>1, <3>1, <3>2, <3>3, <3>4, <3>7, <3>8, <3>9 DEF CredentialsPlaced
  <2>4. CASE \A w \in Server : ~Answered(w) /\ ~Unheard(w)
    <3>1. lapsed' = lapsed
      BY <1>2, <2>4
      DEF ENext, Enrolling, evars, IssueChecksName, IssueCounts, IssueCommits, Present, ReadsToken,
          NameCollides, HandlerFails, AgentLeaves, Stop, Restart, Expires, Withdraw
    <3>2. \A m \in Machine : machine'[m].identity = machine[m].identity
      <4>1. ASSUME NEW w \in Server, ReadsToken(w) \/ NameCollides(w) \/ HandlerFails(w)
            PROVE  \A m \in Machine : machine'[m].identity = machine[m].identity
        BY <4>1, DismissedKeeps DEF ReadsToken, NameCollides, HandlerFails
      <4>2. ASSUME NEW w \in Server, NEW t \in Token, NEW m \in Machine, Present(m, w, t)
            PROVE  \A n \in Machine : machine'[n].identity = machine[n].identity
        BY <4>2 DEF Present, ETypeOK, MachineRow
      <4>3. ASSUME NEW m \in Machine, AgentLeaves(m) \/ Stop(m) \/ Restart(m)
            PROVE  \A n \in Machine : machine'[n].identity = machine[n].identity
        BY <4>3 DEF AgentLeaves, Stop, Restart, ETypeOK, MachineRow
      <4>4. QED
        BY <1>2, <2>4, <4>1, <4>2, <4>3
        DEF ENext, Enrolling, evars, IssueChecksName, IssueCounts, IssueCommits, Expires, Withdraw
    <3>3. CredentialsKept
      <4>1. ASSUME NEW w \in Server, NameCollides(w) \/ HandlerFails(w) PROVE CredentialsKept
        <5>1. Freed(w) /\ ~Carried(w)
          BY <4>1 DEF NameCollides, HandlerFails, Carried, Op
        <5>2. QED
          BY <5>1, FreedKeeps
      <4>2. ASSUME NEW w \in Server, NEW t \in Token, IssueCommits(w, t) PROVE CredentialsKept
        BY <4>2, FreedKeeps DEF IssueCommits, Carried, Op
      <4>3. ASSUME NEW w \in Server, IssueCounts(w) PROVE CredentialsKept
        <5>1. CASE server' = [server EXCEPT ![w].op = "insert"]
          BY <4>3, <5>1 DEF IssueCounts, ETypeOK, ServerRow, CredentialsKept, Carried, Op
        <5>2. QED
          BY <4>3, <5>1, FreedKeeps DEF IssueCounts, Carried, Op
      <4>4. ASSUME NEW w \in Server, ReadsToken(w) PROVE CredentialsKept
        <5>1. CASE server' = [server EXCEPT ![w].op = "redeem"]
          BY <4>4, <5>1 DEF ReadsToken, ETypeOK, ServerRow, CredentialsKept, Carried, Op
        <5>2. QED
          BY <4>4, <5>1, FreedKeeps DEF ReadsToken, Carried, Op
      <4>5. ASSUME NEW w \in Server, NEW n \in Name, IssueChecksName(w, n) PROVE CredentialsKept
        BY <4>5 DEF IssueChecksName, ETypeOK, CredentialsKept, Carried, Op, NoRequest
      <4>6. ASSUME NEW w \in Server, NEW t \in Token, NEW m \in Machine, Present(m, w, t)
            PROVE  CredentialsKept
        BY <4>6 DEF Present, ETypeOK, CredentialsKept, Carried, Op, NoRequest
      <4>7. CASE UNCHANGED server
        BY <4>7 DEF CredentialsKept, Carried, Op
      <4>8. QED
        BY <1>2, <2>4, <4>1, <4>2, <4>3, <4>4, <4>5, <4>6, <4>7
        DEF ENext, Enrolling, evars, AgentLeaves, Stop, Restart, Expires, Withdraw
    <3>4. QED
      BY <2>1, <3>1, <3>2, <3>3, PlacesAlone
  <2>5. QED
    BY <2>2, <2>3, <2>4
<1>3. QED
  BY <1>1, <1>2

-----------------------------------------------------------------------------
(* The invariant, and what follows from it                                 *)

LEMMA NextEInv == EInv /\ [ENext]_evars => EInv'
  BY NextETypeOK, NextRows, NextUnderway, NextCredentialsPlaced DEF EInv

LEMMA AlwaysEInv == ESpec => []EInv
  BY InitEInv, NextEInv, PTL DEF ESpec

(* Every variable keeps the shape the code gives it.                       *)
THEOREM EnrollmentTypes == ESpec => []ETypeOK
<1>1. EInv => ETypeOK
  BY DEF EInv
<1>2. QED
  BY <1>1, AlwaysEInv, PTL

LEMMA PlacedOnce == ETypeOK /\ RowsPaired /\ CredentialsPlaced => CredentialHeldOnce
<1> SUFFICES ASSUME ETypeOK, CredentialsPlaced, NEW e \in Enrolled
             PROVE  Cardinality(Holders(e)) + Cardinality(Carriers(e)) =
                        IF e \in lapsed THEN 0 ELSE 1
  BY DEF CredentialHeldOnce
<1>1. e # Nobody
  BY EnrollmentAssumption DEF Enrolled
<1>2. CASE e \in lapsed
  <2>1. Holders(e) = {} /\ Carriers(e) = {}
    BY <1>1, <1>2 DEF CredentialsPlaced, Holders, Carriers, Carried
  <2>2. QED
    BY <1>2, <2>1, FS_EmptySet
<1>3. ASSUME e \notin lapsed, NEW m \in Machine, machine[m].identity = e
      PROVE  Cardinality(Holders(e)) + Cardinality(Carriers(e)) = 1
  <2>1. Holders(e) = {m} /\ Carriers(e) = {}
    BY <1>1, <1>3 DEF CredentialsPlaced, Holders, Carriers, Carried
  <2>2. Cardinality(Holders(e)) = 1 /\ Cardinality(Carriers(e)) = 0
    BY <2>1, FS_EmptySet, FS_Singleton
  <2>3. QED
    BY <2>2
<1>4. ASSUME e \notin lapsed, NEW w \in Server, Carried(w), server[w].id = e
      PROVE  Cardinality(Holders(e)) + Cardinality(Carriers(e)) = 1
  <2>1. Holders(e) = {} /\ Carriers(e) = {w}
    BY <1>1, <1>4 DEF CredentialsPlaced, Holders, Carriers, Carried
  <2>2. Cardinality(Holders(e)) = 0 /\ Cardinality(Carriers(e)) = 1
    BY <2>1, FS_EmptySet, FS_Singleton
  <2>3. QED
    BY <2>2
<1>5. QED
  BY <1>2, <1>3, <1>4 DEF CredentialsPlaced

(* A token makes one endpoint, of the name it was issued for, no two       *)
(* endpoints share a name, and a credential is on one machine or on its    *)
(* way to one, unless it was overwritten or its answer lost (enroll,       *)
(* save_identity), whatever the handlers interleave.                       *)
THEOREM EnrollmentOnce == ESpec => []EnrolledOnce
<1>1. EInv => EnrolledOnce
  BY PlacedOnce DEF EInv, EnrolledOnce
<1>2. QED
  BY <1>1, AlwaysEInv, PTL

(* A fleet at its limit grants no authority for another machine once no    *)
(* issue is past its count (issue_enrollment_token).                       *)
THEOREM FullFleetGrantsNothing == ESpec => FullGrantsNothing
<1> DEFINE Full == /\ Cardinality(Enrolled) >= MaxEndpoints
                   /\ \A w \in Server : ~Op(w, "insert")
           Nothing == /\ Issued' = Issued
                      /\ \A w \in Server : server'[w].op # "insert"
<1>1. ASSUME EInv, ENext, Full PROVE Nothing
  <2> USE DEF EInv
  <2>1. ASSUME NEW w \in Server, NEW e \in Id, Redeems(w, e) PROVE Nothing
    <3>1. \A t \in Token : token'[t].name = token[t].name
      BY <2>1 DEF Redeems, ETypeOK, TokenRow
    <3>2. \A v \in Server : server'[v].op # "insert"
      BY <1>1, <2>1 DEF Redeems, ETypeOK, ServerRow, Op
    <3>3. QED
      BY <3>1, <3>2 DEF Issued
  <2>2. ASSUME NEW t \in Token, Expires(t) PROVE Nothing
    <3>1. \A s \in Token : token'[s].name = token[s].name
      BY <2>2 DEF Expires, ETypeOK, TokenRow
    <3>2. QED
      BY <1>1, <2>2, <3>1 DEF Expires, Issued, Op
  <2>3. ASSUME NEW w \in Server, Freed(w), UNCHANGED token PROVE Nothing
    BY <1>1, <2>3 DEF Freed, ETypeOK, NoRequest, Op, Issued
  <2>4. ASSUME NEW w \in Server, IssueCounts(w) PROVE Nothing
    BY <1>1, <2>3, <2>4 DEF IssueCounts
  <2>5. ASSUME NEW w \in Server, ReadsToken(w) PROVE Nothing
    <3>1. CASE server' = [server EXCEPT ![w].op = "redeem"]
      BY <1>1, <2>5, <3>1 DEF ReadsToken, ETypeOK, ServerRow, Op, Issued
    <3>2. QED
      BY <2>3, <2>5, <3>1 DEF ReadsToken
  <2>6. ASSUME NEW w \in Server, NEW n \in Name, IssueChecksName(w, n) PROVE Nothing
    BY <1>1, <2>6 DEF IssueChecksName, ETypeOK, NoRequest, Op, Issued
  <2>7. ASSUME NEW w \in Server, NEW t \in Token, NEW m \in Machine, Present(m, w, t)
        PROVE  Nothing
    BY <1>1, <2>7 DEF Present, ETypeOK, NoRequest, Op, Issued
  <2>8. \A w \in Server, t \in Token : ~IssueCommits(w, t)
    BY <1>1 DEF IssueCommits
  <2>9. CASE UNCHANGED <<token, server>>
    BY <1>1, <2>9 DEF Op, Issued
  <2> HIDE DEF Nothing
  <2>10. QED
    BY <1>1, <2>1, <2>2, <2>3, <2>4, <2>5, <2>6, <2>7, <2>8, <2>9
    DEF ENext, Enrolling, NameCollides, Answered, Unheard, HandlerFails, AgentLeaves, Stop,
        Restart, Withdraw
<1>2. EInv /\ [ENext]_evars => [Full => Nothing]_evars
  BY <1>1
<1>3. QED
  BY <1>2, AlwaysEInv, PTL DEF ESpec, FullGrantsNothing

-----------------------------------------------------------------------------
(* Enrollment implements Authority                                         *)

(* The state of an authority, as the refinement maps it.                   *)
Standing(t) ==
    IF token[t].used # Nobody THEN "consumed"
    ELSE IF t \notin Issued THEN "none"
    ELSE IF token[t].expired /\ ~Redeeming(t) THEN "lapsed"
    ELSE "granted"
Naming(t) == IF t \in Issued THEN token[t].name ELSE CHOOSE n \in Name : TRUE

LEMMA InitAuthority ==
  ASSUME Name # {}, EInit
  PROVE  Authorities!Init
<1>1. \A t \in Token : t \notin Issued /\ token[t].used = Nobody
  BY DEF EInit, Issued, NoToken
<1>2. (CHOOSE n \in Name : TRUE) \in Name
  OBVIOUS
<1>3. \A e \in Id : endpoint[e].by = Nobody
  BY DEF EInit, NoEndpoint
<1>4. QED
  BY <1>1, <1>2, <1>3 DEF Authorities!Init

LEMMA Stutters ==
  ASSUME UNCHANGED endpoint, \A t \in Token : Standing(t)' = Standing(t),
         \A t \in Token : token'[t].name = token[t].name
  PROVE  UNCHANGED Authorities!vars
<1>1. Issued' = Issued
  BY DEF Issued
<1>2. QED
  BY <1>1 DEF Authorities!vars, Standing

(* A change of one authority.                                              *)
LEMMA Lapses ==
  ASSUME NEW t \in Token, UNCHANGED endpoint,
         Standing(t) = "granted", Standing(t)' = "lapsed",
         \A s \in Token \ {t} : Standing(s)' = Standing(s),
         \A s \in Token : token'[s].name = token[s].name
  PROVE  Authorities!Lapse(t)
<1>1. Issued' = Issued
  BY DEF Issued
<1>2. [s \in Token |-> Standing(s)]' = [[s \in Token |-> Standing(s)] EXCEPT ![t] = "lapsed"]
  OBVIOUS
<1>3. QED
  BY <1>1, <1>2 DEF Authorities!Lapse, Standing

LEMMA RedeemsConsumes ==
  ASSUME EInv, NEW w \in Server, NEW e \in Id, Redeems(w, e)
  PROVE  Authorities!Consume(server[w].token, e)
<1> USE DEF EInv
<1>0. PICK t : t = server[w].token
  OBVIOUS
<1>1. t \in Issued /\ t \in Token /\ token[t].name # Nobody /\ e \in Id \ Enrolled
  BY <1>0 DEF Redeems, Underway, Sound, Op, Issued
<1>2. token[t].used = Nobody /\ Redeeming(t)
  BY <1>0, <1>1, FreeNameUnused DEF Redeems, Redeeming
<1>3. /\ token'[t].name = token[t].name /\ token'[t].used = e
      /\ \A s \in Token \ {t} : token'[s] = token[s]
      /\ endpoint'[e].by = t
      /\ \A f \in Id \ {e} : endpoint'[f] = endpoint[f]
  BY <1>0, <1>1 DEF Redeems, ETypeOK, NoEndpoint, TokenRow
<1>4. Issued' = Issued
  BY <1>1, <1>3 DEF Issued
<1>5. \A s \in Token \ {t} : Redeeming(s)' <=> Redeeming(s)
  <2>1. /\ \A v \in Server \ {w} : server'[v] = server[v]
        /\ server'[w].op = "answer"
    BY DEF Redeems, ETypeOK, ServerRow
  <2>2. QED
    BY <1>0, <2>1 DEF Redeems, Redeeming, Op
<1>6. Standing(t) = "granted" /\ Standing(t)' = "consumed"
  BY <1>1, <1>2, <1>3, EnrollmentAssumption DEF Standing
<1>7. \A s \in Token \ {t} : Standing(s)' = Standing(s)
  BY <1>3, <1>4, <1>5 DEF Standing
<1>8. [s \in Token |-> Standing(s)]' = [[s \in Token |-> Standing(s)] EXCEPT ![t] = "consumed"]
  BY <1>6, <1>7
<1>9. [f \in Id |-> endpoint[f].by]' = [[f \in Id |-> endpoint[f].by] EXCEPT ![e] = t]
  BY <1>3
<1>10. endpoint[e].by = Nobody
  BY <1>1 DEF RowsPaired, Enrolled
<1>11. ASSUME NEW f \in Id, endpoint[f].by # Nobody
       PROVE  /\ endpoint[f].by \in Token
              /\ Naming(endpoint[f].by) # Naming(t)
  <2>1. f \in Enrolled /\ endpoint[f].by \in Token
    BY <1>11 DEF RowsPaired, Enrolled, ETypeOK, EndpointRow
  <2>2. token[endpoint[f].by].name = endpoint[f].name /\ endpoint[f].name # Nobody
    BY <2>1 DEF TokenSingleUse, Enrolled
  <2>3. endpoint[f].name # token[t].name
    BY <1>0, <2>1 DEF Redeems, Taken
  <2>4. QED
    BY <1>1, <2>1, <2>2, <2>3 DEF Naming, Issued
<1>12. \A s \in Token : Naming(s)' = Naming(s)
  BY <1>1, <1>3, <1>4 DEF Naming
<1>13. QED
  <2>1. [s \in Token |-> Standing(s)][t] = "granted"
    BY <1>1, <1>6
  <2>2. \A f \in Id : [g \in Id |-> endpoint[g].by][f] # Nobody =>
           [s \in Token |-> Naming(s)][[g \in Id |-> endpoint[g].by][f]]
              # [s \in Token |-> Naming(s)][t]
    BY <1>1, <1>11
  <2>3. [s \in Token |-> Naming(s)]' = [s \in Token |-> Naming(s)]
    BY <1>12
  <2>4. QED
    BY <1>0, <1>8, <1>9, <1>10, <2>1, <2>2, <2>3 DEF Authorities!Consume, Standing, Naming

LEMMA IssueGrants ==
  ASSUME EInv, NEW w \in Server, NEW t \in Token, IssueCommits(w, t),
         NEW n \in Name, n = server[w].name
  PROVE  Authorities!Grant(t, n)
<1> USE DEF EInv
<1>1. /\ t \notin Issued /\ token[t] = NoToken
      /\ n # Nobody
  BY EnrollmentAssumption DEF IssueCommits, Issued, RowsPaired, Underway, Sound, Op
<1>2. /\ token'[t].name = n /\ token'[t].used = Nobody /\ ~token'[t].expired
      /\ \A s \in Token \ {t} : token'[s] = token[s]
      /\ UNCHANGED endpoint
  BY DEF IssueCommits, ETypeOK, NoToken
<1>3. Issued' = Issued \cup {t}
  BY <1>1, <1>2 DEF Issued
<1>4. \A s \in Token : Redeeming(s)' <=> Redeeming(s)
  BY DEF IssueCommits, Freed, Redeeming, Op, ETypeOK, NoRequest
<1>5. Standing(t) = "none" /\ Standing(t)' = "granted"
  BY <1>1, <1>2, <1>3 DEF Standing, NoToken
<1>6. \A s \in Token \ {t} : Standing(s)' = Standing(s) /\ Naming(s)' = Naming(s)
  BY <1>2, <1>3, <1>4 DEF Standing, Naming
<1>7. Naming(t)' = n
  BY <1>2, <1>3 DEF Naming
<1>8. [s \in Token |-> Standing(s)]' = [[s \in Token |-> Standing(s)] EXCEPT ![t] = "granted"]
  BY <1>5, <1>6
<1>9. [s \in Token |-> Naming(s)]' = [[s \in Token |-> Naming(s)] EXCEPT ![t] = n]
  BY <1>6, <1>7
<1>10. QED
  BY <1>2, <1>5, <1>8, <1>9 DEF Authorities!Grant, Standing, Naming

(* A step of Authority, or none.                                           *)
Refined == Authorities!Next \/ UNCHANGED Authorities!vars

(* A redemption that comes to nothing: the authority lapses with it when   *)
(* its time has passed and no other request has read it.                   *)
LEMMA FreedLapses ==
  ASSUME EInv, NEW w \in Server, Freed(w), server[w].op # "answer", UNCHANGED <<token, endpoint>>
  PROVE  Refined
<1> USE DEF EInv
<1>0. PICK t : t = server[w].token
  OBVIOUS
<1>1. /\ \A v \in Server \ {w} : server'[v] = server[v]
      /\ server'[w].op = "idle"
  BY DEF Freed, ETypeOK, NoRequest
<1>2. \A s \in Token : s # t \/ server[w].op # "redeem" => (Redeeming(s)' <=> Redeeming(s))
  BY <1>0, <1>1 DEF Redeeming, Op
<1>3. Issued' = Issued
  BY DEF Issued
<1>4. \A s \in Token : s # t \/ server[w].op # "redeem" => Standing(s)' = Standing(s)
  BY <1>2, <1>3 DEF Standing
<1>5. CASE server[w].op # "redeem"
  BY <1>4, <1>5, Stutters DEF Refined
<1>6. CASE server[w].op = "redeem"
  <2>1. t \in Token /\ t \in Issued /\ Redeeming(t)
    BY <1>0, <1>6 DEF Underway, Sound, Op, Redeeming, Issued
  <2>2. CASE Standing(t)' = Standing(t)
    BY <1>4, <2>2, Stutters DEF Refined
  <2>3. CASE Standing(t)' # Standing(t)
    <3>1. Standing(t) = "granted" /\ Standing(t)' = "lapsed"
      BY <1>3, <2>1, <2>3 DEF Standing
    <3>2. Authorities!Lapse(t)
      BY <1>4, <2>1, <3>1, Lapses
    <3>3. QED
      BY <2>1, <3>2 DEF Refined, Authorities!Next
  <2>4. QED
    BY <2>2, <2>3
<1>7. QED
  BY <1>5, <1>6

LEMMA StepsRefine ==
  ASSUME EInv, [ENext]_evars
  PROVE  Refined
<1> USE DEF EInv
<1>1. ASSUME NEW w \in Server, NEW t \in Token, IssueCommits(w, t) PROVE Refined
  <2>1. PICK n \in Name : n = server[w].name
    BY <1>1 DEF IssueCommits, Underway, Sound, Op
  <2>2. Authorities!Grant(t, n)
    BY <1>1, <2>1, IssueGrants
  <2>3. QED
    BY <2>1, <2>2 DEF Refined, Authorities!Next
<1>2. ASSUME NEW w \in Server, NEW e \in Id, Redeems(w, e) PROVE Refined
  <2>1. server[w].token \in Token
    BY <1>2 DEF Redeems, Underway, Sound, Op, Issued
  <2>2. QED
    BY <1>2, <2>1, RedeemsConsumes DEF Refined, Authorities!Next
<1>3. ASSUME NEW t \in Token, Expires(t) PROVE Refined
  <2>1. /\ \A s \in Token : token'[s].name = token[s].name /\ token'[s].used = token[s].used
        /\ \A s \in Token \ {t} : token'[s] = token[s]
        /\ token'[t].expired /\ ~token[t].expired /\ t \in Issued
        /\ UNCHANGED endpoint
    BY <1>3 DEF Expires, ETypeOK, TokenRow
  <2>2. Issued' = Issued /\ \A s \in Token : Redeeming(s)' <=> Redeeming(s)
    BY <1>3, <2>1 DEF Expires, Issued, Redeeming, Op
  <2>3. \A s \in Token \ {t} : Standing(s)' = Standing(s)
    BY <2>1, <2>2 DEF Standing
  <2>4. CASE Standing(t)' = Standing(t)
    BY <2>1, <2>3, <2>4, Stutters DEF Refined
  <2>5. CASE Standing(t)' # Standing(t)
    <3>1. Standing(t) = "granted" /\ Standing(t)' = "lapsed"
      BY <2>1, <2>2, <2>5 DEF Standing
    <3>2. Authorities!Lapse(t)
      BY <2>1, <2>3, <3>1, Lapses
    <3>3. QED
      BY <3>2 DEF Refined, Authorities!Next
  <2>6. QED
    BY <2>4, <2>5
<1>4. ASSUME NEW w \in Server, Freed(w), server[w].op # "answer", UNCHANGED <<token, endpoint>>
      PROVE  Refined
  BY <1>4, FreedLapses
<1>5. ASSUME UNCHANGED token, \A e \in Id : endpoint'[e].by = endpoint[e].by,
             \A s \in Token : Redeeming(s)' <=> Redeeming(s)
      PROVE  Refined
  <2>1. Issued' = Issued
    BY <1>5 DEF Issued
  <2>2. \A s \in Token : Standing(s)' = Standing(s)
    BY <1>5, <2>1 DEF Standing
  <2>3. UNCHANGED Authorities!vars
    BY <1>5, <2>1, <2>2 DEF Authorities!vars, Standing
  <2>4. QED
    BY <2>3 DEF Refined
<1>6. ASSUME NEW e \in Id, Withdraw(e) PROVE Refined
  BY <1>5, <1>6 DEF Withdraw, ETypeOK, EndpointRow, Redeeming, Op
<1>7. ASSUME NEW w \in Server, Answered(w) \/ Unheard(w) PROVE Refined
  BY <1>5, <1>7 DEF Answered, Unheard, Freed, ETypeOK, NoRequest, Redeeming, Op
<1>8. ASSUME NEW w \in Server, IssueCounts(w) PROVE Refined
  <2>1. CASE server' = [server EXCEPT ![w].op = "insert"]
    BY <1>5, <1>8, <2>1 DEF IssueCounts, ETypeOK, ServerRow, Redeeming, Op
  <2>2. QED
    BY <1>4, <1>8, <2>1 DEF IssueCounts, Op
<1>9. ASSUME NEW w \in Server, ReadsToken(w) PROVE Refined
  <2>0. PICK t : t = server[w].token
    OBVIOUS
  <2>1. CASE Freed(w)
    BY <1>4, <1>9, <2>1 DEF ReadsToken, Op
  <2>2. CASE ~Freed(w)
    <3>1. /\ server' = [server EXCEPT ![w].op = "redeem"]
          /\ t \in Issued /\ t \in Token /\ token[t].used = Nobody /\ ~token[t].expired
          /\ UNCHANGED <<token, endpoint>>
      BY <1>9, <2>0, <2>2 DEF ReadsToken, Underway, Sound, Op, Issued
    <3>2. \A s \in Token \ {t} : Redeeming(s)' <=> Redeeming(s)
      BY <1>9, <2>0, <3>1 DEF ReadsToken, ETypeOK, ServerRow, Redeeming, Op
    <3>3. \A s \in Token : Standing(s)' = Standing(s)
      BY <3>1, <3>2 DEF Standing, Issued
    <3>4. QED
      BY <3>1, <3>3, Stutters DEF Refined
  <2>3. QED
    BY <2>1, <2>2
<1>10. ASSUME NEW w \in Server, NEW n \in Name, IssueChecksName(w, n) PROVE Refined
  BY <1>5, <1>10 DEF IssueChecksName, ETypeOK, NoRequest, Redeeming, Op
<1>11. ASSUME NEW w \in Server, NEW t \in Token, NEW m \in Machine, Present(m, w, t)
       PROVE  Refined
  BY <1>5, <1>11 DEF Present, ETypeOK, NoRequest, Redeeming, Op
<1>12. CASE UNCHANGED <<token, endpoint, server>>
  BY <1>5, <1>12 DEF Redeeming, Op
<1>13. ASSUME NEW w \in Server, NameCollides(w) \/ HandlerFails(w) PROVE Refined
  BY <1>4, <1>13 DEF NameCollides, HandlerFails, Op
<1>14. QED
  BY <1>1, <1>2, <1>3, <1>6, <1>7, <1>8, <1>9, <1>10, <1>11, <1>12, <1>13
  DEF ENext, Enrolling, evars, AgentLeaves, Stop, Restart

(* An endpoint exists only by an authority naming it that had not lapsed   *)
(* when its request was read, and an authority makes one endpoint          *)
(* (docs/SecurityBoundaries.md, enroll): the interleaved handlers take no  *)
(* step that Authority does not allow.  There is a name to authorize.      *)
THEOREM EnrollmentImplements ==
  ASSUME Name # {}
  PROVE  ESpec => ImplementsAuthority
<1>1. EInit => Authorities!Init
  BY InitAuthority
<1>2. EInv /\ [ENext]_evars => [Authorities!Next]_(Authorities!vars)
  BY StepsRefine DEF Refined
<1>3. QED
  BY <1>1, <1>2, AlwaysEInv, PTL DEF ESpec, ImplementsAuthority, Authorities!Spec

-----------------------------------------------------------------------------
(* The job log                                                             *)

(* A thread at work on a command.                                          *)
Commands(q) == caller[q].op \in {"command", "ran"}

(* A command in progress has the execution it began, running or cleared,   *)
(* of its investigation, to itself.                                        *)
Owned(q) ==
    Commands(q) =>
        /\ caller[q].job \in Job
        /\ job[caller[q].job].state \in {"running", "cleared"}
        /\ job[caller[q].job].case = caller[q].case
        /\ \A p \in Caller : Commands(p) /\ caller[p].job = caller[q].job => p = q

(* An assessment in progress has seen its investigation as it stands, or   *)
(* the analysis came in between.                                           *)
Informed(q) ==
    Calls(q, "assess") =>
        /\ caller[q].case \in Case
        /\ (caller[q].saw <=> Classified(caller[q].case)) \/ caller[q].late

(* A thread past the copy of an import has made the copy.                  *)
Copied(q) == Calls(q, "copied") => backup = "whole"

CallsSound == \A q \in Caller : Owned(q) /\ Informed(q) /\ Copied(q)

(* A report is of a collection, or of the command it names.                *)
KindsApart == \A r \in OnRecord : r.kind = "collection" <=> r.job = NoJob

JInv == /\ JTypeOK /\ CallsSound /\ KindsApart
        /\ ReportsAnchored /\ NothingComesBack /\ ImportedWhole /\ AssessmentsCurrent

-----------------------------------------------------------------------------
(* Types                                                                   *)

LEMMA RowTypes ==
    /\ NoCall \in CallerRow
    /\ \A c \in Case : CollectionReport(c) \in ReportRow
    /\ \A c \in Case \cup {NoCase}, x \in Job : CommandReport(c, x) \in ReportRow
  BY DEF NoCall, CallerRow, CollectionReport, CommandReport, ReportRow

LEMMA StoresType ==
  ASSUME JTypeOK, NEW row \in ReportRow, Stores(row)
  PROVE  report' \in [ReportRow -> Nat]
  BY DEF JTypeOK, Stores

LEMMA ReturnsType ==
  ASSUME JTypeOK, NEW q \in Caller, Returns(q)
  PROVE  caller' \in [Caller -> CallerRow]
  BY RowTypes DEF JTypeOK, Returns

LEMMA InitJInv == JInit => JInv
<1> SUFFICES ASSUME JInit PROVE JInv
  OBVIOUS
<1>1. JTypeOK
  <2>1. /\ [state |-> "unused", case |-> NoCase] \in JobRow
        /\ 0 \in 0..MaxClears /\ "absent" \in Stage
    BY JobLogAssumption DEF JobRow, Stage
  <2>2. QED
    BY <2>1, RowTypes DEF JInit, JTypeOK
<1>2. CallsSound
  BY DEF JInit, CallsSound, Owned, Informed, Copied, Commands, Calls, NoCall
<1>3. OnRecord = {}
  BY DEF JInit, OnRecord
<1>4. KindsApart /\ ReportsAnchored
  BY <1>3, RowTypes DEF JInit, KindsApart, ReportsAnchored
<1>5. NothingComesBack /\ ImportedWhole /\ AssessmentsCurrent
  BY JobLogAssumption DEF JInit, NothingComesBack, ImportedWhole, AssessmentsCurrent
<1>6. QED
  BY <1>1, <1>2, <1>4, <1>5 DEF JInv

LEMMA NextJTypeOK ==
  ASSUME JInv, [JNext]_jvars
  PROVE  JTypeOK'
<1> USE DEF JInv
<1>1. ASSUME NEW c \in Case, CaseOpens(c) \/ Submits(c) PROVE JTypeOK'
  BY <1>1 DEF CaseOpens, Submits, JTypeOK, Stage
<1>2. ASSUME NEW c \in Case, Analyzes(c) PROVE JTypeOK'
  <2>1. \A q \in Caller : [caller[q] EXCEPT !.late = TRUE] \in CallerRow
    BY DEF JTypeOK, CallerRow
  <2>2. QED
    BY <1>2, <2>1 DEF Analyzes, JTypeOK, Stage
<1>3. ASSUME NEW c \in Case, Reports(c) PROVE JTypeOK'
  BY <1>3, RowTypes, StoresType DEF Reports, JTypeOK, Stage
<1>4. ASSUME NEW q \in Caller, NEW x \in Job, NEW c \in Case \cup {NoCase}, Begins(q, x, c)
      PROVE  JTypeOK'
  <2>1. /\ [NoCall EXCEPT !.op = "command", !.job = x, !.case = c] \in CallerRow
        /\ [state |-> "running", case |-> c] \in JobRow
    BY DEF NoCall, CallerRow, JobRow
  <2>2. QED
    BY <1>4, <2>1 DEF Begins, JTypeOK
<1>5. ASSUME NEW q \in Caller, NEW hashes \in BOOLEAN, NEW ok \in BOOLEAN, Runs(q, hashes, ok)
      PROVE  JTypeOK'
  <2> DEFINE row == hashes /\ ok /\ Live(caller[q].job)
             good == ok /\ (hashes => row)
  <2>1. caller[q].job \in Job
    BY <1>5 DEF Runs, CallsSound, Owned, Commands, Calls
  <2>2. good \in BOOLEAN
    OBVIOUS
  <2> HIDE DEF good
  <2>3. [caller[q] EXCEPT !.op = "ran", !.ok = good] \in CallerRow
    BY <2>2 DEF JTypeOK, CallerRow
  <2>4. caller' = [caller EXCEPT ![q] = [caller[q] EXCEPT !.op = "ran", !.ok = good]]
    BY <1>5 DEF Runs, JTypeOK, good
  <2>5. caller' \in [Caller -> CallerRow]
    BY <2>3, <2>4 DEF JTypeOK
  <2>6. hashed' \subseteq Job
    BY <1>5, <2>1 DEF Runs, JTypeOK
  <2>7. QED
    BY <1>5, <2>5, <2>6 DEF Runs, JTypeOK
<1>6. ASSUME NEW q \in Caller, Ends(q) PROVE JTypeOK'
  <2>1. caller[q].job \in Job /\ caller[q].case \in Case \cup {NoCase}
    BY <1>6 DEF Ends, CallsSound, Owned, Commands, Calls, JTypeOK, CallerRow
  <2>2. \A s \in {"completed", "failed"} : [job[caller[q].job] EXCEPT !.state = s] \in JobRow
    BY <2>1 DEF JTypeOK, JobRow
  <2>3. job' \in [Job -> JobRow]
    BY <1>6, <2>1, <2>2 DEF Ends, JTypeOK
  <2>4. report' \in [ReportRow -> Nat]
    BY <1>6, <2>1, RowTypes, StoresType DEF Ends, JTypeOK
  <2>5. QED
    BY <1>6, <2>3, <2>4, ReturnsType DEF Ends, JTypeOK
<1>7. ASSUME NEW q \in Caller, NEW c \in Case, Assesses(q, c) PROVE JTypeOK'
  <2>1. Classified(c) \in BOOLEAN
    BY DEF Classified
  <2>2. [NoCall EXCEPT !.op = "assess", !.case = c, !.saw = Classified(c)] \in CallerRow
    BY <2>1 DEF NoCall, CallerRow
  <2>3. QED
    BY <1>7, <2>2 DEF Assesses, JTypeOK
<1>8. ASSUME NEW q \in Caller, AssessmentStored(q) PROVE JTypeOK'
  <2> DEFINE c == caller[q].case
             a == [case |-> c, saw |-> caller[q].saw, stood |-> Classified(c),
                   late |-> caller[q].late]
  <2>1. c \in Case
    BY <1>8 DEF AssessmentStored, CallsSound, Informed
  <2>2. Classified(c) \in BOOLEAN /\ caller[q].saw \in BOOLEAN /\ caller[q].late \in BOOLEAN
    BY DEF Classified, JTypeOK, CallerRow
  <2>3. a \in AssessmentRow
    BY <2>1, <2>2 DEF AssessmentRow
  <2>4. assessment' \subseteq AssessmentRow
    BY <1>8, <2>3 DEF AssessmentStored, JTypeOK
  <2>5. QED
    BY <1>8, <2>4, ReturnsType DEF AssessmentStored, JTypeOK
<1>9. ASSUME NEW q \in Caller, ImportReads(q) PROVE JTypeOK'
  <2>1. [NoCall EXCEPT !.op = "import"] \in CallerRow
    BY DEF NoCall, CallerRow
  <2>2. QED
    BY <1>9, <2>1 DEF ImportReads, JTypeOK
<1>10. ASSUME NEW q \in Caller, ImportCopies(q) PROVE JTypeOK'
  <2>1. [caller[q] EXCEPT !.op = "copied"] \in CallerRow
    BY DEF JTypeOK, CallerRow
  <2>2. caller' \in [Caller -> CallerRow]
    BY <1>10, <2>1, ReturnsType DEF ImportCopies, JTypeOK
  <2>3. QED
    BY <1>10, <2>2 DEF ImportCopies, JTypeOK
<1>11. ASSUME NEW q \in Caller, ImportCommits(q) PROVE JTypeOK'
  <2>1. [state |-> "completed", case |-> LegacyCase] \in JobRow
    BY JobLogAssumption DEF JobRow
  <2>2. /\ stage' \in [Case -> Stage] /\ job' \in [Job -> JobRow] /\ marker' \in BOOLEAN
    BY <1>11, <2>1, JobLogAssumption DEF ImportCommits, JTypeOK, Stage
  <2>3. report' \in [ReportRow -> Nat]
    BY <1>11, RowTypes, StoresType, JobLogAssumption DEF ImportCommits, JTypeOK
  <2>4. QED
    BY <1>11, <2>2, <2>3, ReturnsType DEF ImportCommits, JTypeOK
<1>12. ASSUME Clears PROVE JTypeOK'
  <2>1. \A x \in Job : [job[x] EXCEPT !.state = "cleared"] \in JobRow
    BY DEF JTypeOK, JobRow
  <2>2. QED
    BY <1>12, <2>1, JobLogAssumption DEF Clears, JTypeOK
<1>13. ASSUME Restarts PROVE JTypeOK'
  <2>1. \A x \in Job : [job[x] EXCEPT !.state = "interrupted"] \in JobRow
    BY DEF JTypeOK, JobRow
  <2>2. stage' \in [Case -> Stage]
    BY <1>13 DEF Restarts, JTypeOK, Stage
  <2>3. QED
    BY <1>13, <2>1, <2>2, RowTypes, JobLogAssumption DEF Restarts, JTypeOK
<1>14. CASE UNCHANGED jvars
  BY <1>14 DEF jvars, JTypeOK
<1>15. ASSUME NEW q \in Caller, EndRaises(q) PROVE JTypeOK'
  <2>1. caller[q].job \in Job
    BY <1>15 DEF EndRaises, CallsSound, Owned, Commands, Calls
  <2>2. clears' \in 0..MaxClears /\ unended' \subseteq Job
    BY <1>15, <2>1, JobLogAssumption DEF EndRaises, JTypeOK
  <2>3. QED
    BY <1>15, <2>2, ReturnsType DEF EndRaises, JTypeOK
<1>16. QED
  BY <1>1, <1>2, <1>3, <1>4, <1>5, <1>6, <1>7, <1>8, <1>9, <1>10, <1>11, <1>12, <1>13, <1>14,
     <1>15
  DEF JNext

-----------------------------------------------------------------------------
(* The requests at work                                                    *)

(* A job that a thread has begun stays as it is, or is cleared, while the  *)
(* thread works on it.                                                     *)
LEMMA NextOwned ==
  ASSUME JInv, [JNext]_jvars, NEW q \in Caller
  PROVE  Owned(q)'
<1> USE DEF JInv
<1>1. ASSUME \A p \in Caller : Commands(p)' => Commands(p) /\ caller'[p].job = caller[p].job
                                              /\ caller'[p].case = caller[p].case,
             Commands(q)' => \/ job'[caller[q].job] = job[caller[q].job]
                             \/ job'[caller[q].job] = [job[caller[q].job] EXCEPT !.state = "cleared"]
      PROVE  Owned(q)'
  <2> SUFFICES ASSUME Commands(q)' PROVE Owned(q)'
    BY DEF Owned
  <2>1. /\ caller[q].job \in Job /\ caller'[q].job = caller[q].job
        /\ job[caller[q].job].state \in {"running", "cleared"}
        /\ job[caller[q].job].case = caller'[q].case
        /\ \A p \in Caller : Commands(p) /\ caller[p].job = caller[q].job => p = q
    BY <1>1 DEF CallsSound, Owned
  <2>2. /\ job'[caller[q].job].state \in {"running", "cleared"}
        /\ job'[caller[q].job].case = caller'[q].case
    BY <1>1, <2>1 DEF JTypeOK, JobRow
  <2>3. QED
    BY <1>1, <2>1, <2>2 DEF Owned
<1>2. ASSUME NEW p \in Caller, NEW x \in Job, NEW c \in Case \cup {NoCase}, Begins(p, x, c)
      PROVE  Owned(q)'
  <2>1. /\ job[x].state = "unused" /\ ~Commands(p)
        /\ job'[x] = [state |-> "running", case |-> c]
        /\ \A y \in Job \ {x} : job'[y] = job[y]
        /\ caller'[p] = [NoCall EXCEPT !.op = "command", !.job = x, !.case = c]
        /\ \A r \in Caller \ {p} : caller'[r] = caller[r]
    BY <1>2 DEF Begins, Calls, Commands, JTypeOK
  <2>2. /\ Commands(p)' /\ caller'[p].job = x /\ caller'[p].case = c
        /\ \A r \in Caller \ {p} : Commands(r)' <=> Commands(r)
    BY <2>1 DEF Commands, NoCall
  <2>3. \A r \in Caller : Commands(r) => caller[r].job \in Job \ {x}
    BY <2>1 DEF CallsSound, Owned
  <2>4. CASE q = p
    <3>1. \A r \in Caller : Commands(r)' /\ caller'[r].job = x => r = p
      BY <2>1, <2>2, <2>3
    <3>2. /\ job'[x].state = "running" /\ job'[x].case = c
      BY <2>1
    <3>3. QED
      BY <2>2, <2>4, <3>1, <3>2 DEF Owned
  <2>5. CASE q # p
    <3> SUFFICES ASSUME Commands(q)' PROVE Owned(q)'
      BY DEF Owned
    <3>1. Commands(q) /\ caller'[q] = caller[q] /\ job'[caller[q].job] = job[caller[q].job]
      BY <2>1, <2>2, <2>3, <2>5
    <3>2. \A r \in Caller : Commands(r)' /\ caller'[r].job = caller'[q].job => r = q
      <4>1. \A r \in Caller : Commands(r) /\ caller[r].job = caller[q].job => r = q
        BY <3>1 DEF CallsSound, Owned
      <4>2. caller'[p].job # caller'[q].job
        BY <2>2, <2>3, <3>1
      <4>3. QED
        BY <2>1, <2>2, <3>1, <4>1, <4>2
    <3>3. QED
      BY <3>1, <3>2 DEF CallsSound, Owned
  <2>6. QED
    BY <2>4, <2>5
<1>3. ASSUME NEW p \in Caller, Returns(p),
             Commands(q) /\ q # p => job'[caller[q].job] = job[caller[q].job]
      PROVE  Owned(q)'
  <2>1. /\ ~Commands(p)'
        /\ \A r \in Caller \ {p} : caller'[r] = caller[r]
    BY <1>3 DEF Returns, JTypeOK, NoCall, Commands
  <2>2. \A r \in Caller \ {p} : Commands(r)' <=> Commands(r)
    BY <2>1 DEF Commands
  <2>3. QED
    BY <1>1, <1>3, <2>1, <2>2
<1>4. ASSUME NEW p \in Caller, NEW hashes \in BOOLEAN, NEW ok \in BOOLEAN, Runs(p, hashes, ok)
      PROVE  Owned(q)'
  <2>1. /\ UNCHANGED job /\ Commands(p)
        /\ \A r \in Caller \ {p} : caller'[r] = caller[r]
        /\ caller'[p].job = caller[p].job /\ caller'[p].case = caller[p].case
    BY <1>4 DEF Runs, JTypeOK, CallerRow, Calls, Commands
  <2>2. \A r \in Caller : Commands(r)' => Commands(r)
    BY <2>1 DEF Commands
  <2>3. QED
    BY <1>1, <2>1, <2>2
<1>5. ASSUME NEW p \in Caller, Ends(p) PROVE Owned(q)'
  <2>1. Commands(q) /\ q # p =>
           caller[q].job \in Job /\ caller[p].job \in Job /\ caller[q].job # caller[p].job
    BY <1>5 DEF Ends, Calls, Commands, CallsSound, Owned
  <2>2. Commands(q) /\ q # p => job'[caller[q].job] = job[caller[q].job]
    BY <1>5, <2>1 DEF Ends, JTypeOK
  <2>3. QED
    BY <1>3, <1>5, <2>2 DEF Ends
<1>6. ASSUME NEW p \in Caller, ImportCommits(p) PROVE Owned(q)'
  <2>1. Commands(q) => job'[caller[q].job] = job[caller[q].job]
    BY <1>6, JobLogAssumption DEF ImportCommits, CallsSound, Owned, JTypeOK
  <2>2. QED
    BY <1>3, <1>6, <2>1 DEF ImportCommits
<1>7. ASSUME Clears PROVE Owned(q)'
  <2>1. Commands(q) => caller[q].job \in Job
    BY DEF CallsSound, Owned
  <2>2. UNCHANGED caller /\ \A p \in Caller : Commands(p)' <=> Commands(p)
    BY <1>7 DEF Clears, Commands
  <2>3. QED
    BY <1>1, <1>7, <2>1, <2>2 DEF Clears
<1>8. ASSUME Restarts PROVE Owned(q)'
  BY <1>8 DEF Restarts, Owned, Commands, NoCall
<1>9. ASSUME NEW c \in Case, Analyzes(c) PROVE Owned(q)'
  <2>1. \A p \in Caller : /\ caller'[p].op = caller[p].op /\ caller'[p].job = caller[p].job
                          /\ caller'[p].case = caller[p].case
    BY <1>9 DEF Analyzes, JTypeOK, CallerRow
  <2>2. \A p \in Caller : Commands(p)' => Commands(p)
    BY <2>1 DEF Commands
  <2>3. QED
    BY <1>1, <1>9, <2>1, <2>2 DEF Analyzes
<1>10. ASSUME NEW p \in Caller, UNCHANGED job, ~Commands(p)',
              \A r \in Caller \ {p} : caller'[r] = caller[r]
       PROVE  Owned(q)'
  <2>1. \A r \in Caller \ {p} : Commands(r)' <=> Commands(r)
    BY <1>10 DEF Commands
  <2>2. QED
    BY <1>1, <1>10, <2>1
<1>11. ASSUME NEW p \in Caller, NEW c \in Case, Assesses(p, c) PROVE Owned(q)'
  <2>1. ~Commands(p)'
    BY <1>11 DEF Assesses, JTypeOK, NoCall, Commands
  <2>2. QED
    BY <1>10, <1>11, <2>1 DEF Assesses, JTypeOK
<1>12. ASSUME NEW p \in Caller, ImportReads(p) PROVE Owned(q)'
  <2>1. ~Commands(p)'
    BY <1>12 DEF ImportReads, JTypeOK, NoCall, Commands
  <2>2. QED
    BY <1>10, <1>12, <2>1 DEF ImportReads, JTypeOK
<1>13. ASSUME NEW p \in Caller, ImportCopies(p) PROVE Owned(q)'
  <2>1. ~Commands(p)' /\ \A r \in Caller \ {p} : caller'[r] = caller[r]
    BY <1>13 DEF ImportCopies, Returns, JTypeOK, CallerRow, NoCall, Commands
  <2>2. QED
    BY <1>10, <1>13, <2>1 DEF ImportCopies
<1>14. ASSUME NEW p \in Caller, AssessmentStored(p) \/ EndRaises(p) PROVE Owned(q)'
  BY <1>3, <1>14 DEF AssessmentStored, EndRaises
<1>15. CASE UNCHANGED <<job, caller>>
  <2>1. \A p \in Caller : Commands(p)' <=> Commands(p)
    BY <1>15 DEF Commands
  <2>2. QED
    BY <1>1, <1>15, <2>1
<1>16. QED
  BY <1>2, <1>4, <1>5, <1>6, <1>7, <1>8, <1>9, <1>11, <1>12, <1>13, <1>14, <1>15
  DEF JNext, jvars, CaseOpens, Submits, Reports

(* A thread that is elsewhere after a step is not bound by what it had     *)
(* seen; one that stays is told when an analysis comes in.                 *)
LEMMA NextInformed ==
  ASSUME JInv, [JNext]_jvars, NEW q \in Caller
  PROVE  Informed(q)'
<1> USE DEF JInv
<1>1. CASE ~Calls(q, "assess")'
  BY <1>1 DEF Informed
<1>2. ASSUME caller'[q] = caller[q],
             \A c \in Case : Classified(c)' <=> Classified(c)
      PROVE  Informed(q)'
  <2> SUFFICES ASSUME Calls(q, "assess")' PROVE Informed(q)'
    BY DEF Informed
  <2>1. Calls(q, "assess")
    BY <1>2 DEF Calls
  <2>2. PICK c \in Case : c = caller[q].case
    BY <2>1 DEF CallsSound, Informed
  <2>3. (caller[q].saw <=> Classified(c)) \/ caller[q].late
    BY <2>1, <2>2 DEF CallsSound, Informed
  <2>4. (caller'[q].saw <=> Classified(c)') \/ caller'[q].late
    BY <1>2, <2>3
  <2>5. caller'[q].case = c
    BY <1>2, <2>2
  <2>6. QED
    BY <2>4, <2>5 DEF Informed
<1>3. ASSUME NEW p \in Caller, NEW c \in Case, Assesses(p, c) PROVE Informed(q)'
  <2>1. \A d \in Case : Classified(d)' <=> Classified(d)
    BY <1>3 DEF Assesses, Classified
  <2>2. CASE q = p
    <3>1. caller'[q].case = c /\ (caller'[q].saw <=> Classified(c)) /\ UNCHANGED stage
      BY <1>3, <2>2 DEF Assesses, JTypeOK, NoCall
    <3>2. QED
      BY <3>1 DEF Informed, Classified
  <2>3. CASE q # p
    BY <1>2, <1>3, <2>1, <2>3 DEF Assesses, JTypeOK
  <2>4. QED
    BY <2>2, <2>3
<1>4. ASSUME NEW c \in Case, Analyzes(c), Calls(q, "assess")' PROVE Informed(q)'
  <2>1. Calls(q, "assess")
    BY <1>4 DEF Analyzes, JTypeOK, CallerRow, Calls
  <2>2. CASE caller[q].case = c
    <3>1. caller'[q].case = c /\ caller'[q].late
      BY <1>4, <2>1, <2>2 DEF Analyzes, JTypeOK, CallerRow
    <3>2. QED
      BY <3>1 DEF Informed
  <2>3. CASE caller[q].case # c
    <3>1. caller'[q] = caller[q]
      BY <1>4, <2>3 DEF Analyzes
    <3>2. caller[q].case \in Case /\ stage'[caller[q].case] = stage[caller[q].case]
      BY <1>4, <2>1, <2>3 DEF Analyzes, CallsSound, Informed, JTypeOK
    <3>3. QED
      BY <2>1, <3>1, <3>2 DEF CallsSound, Informed, Classified
  <2>4. QED
    BY <2>2, <2>3
<1>5. ASSUME NEW p \in Caller, Returns(p), \A c \in Case : Classified(c)' <=> Classified(c)
      PROVE  Informed(q)'
  <2>1. CASE q = p
    BY <1>1, <1>5, <2>1 DEF Returns, JTypeOK, NoCall, Calls
  <2>2. CASE q # p
    BY <1>2, <1>5, <2>2 DEF Returns, JTypeOK
  <2>3. QED
    BY <2>1, <2>2
<1>6. ASSUME NEW c \in Case, CaseOpens(c) \/ Submits(c) \/ Reports(c) PROVE Informed(q)'
  <2>1. \A d \in Case : Classified(d)' <=> Classified(d)
    BY <1>6 DEF CaseOpens, Submits, Reports, Classified, JTypeOK
  <2>2. QED
    BY <1>2, <1>6, <2>1 DEF CaseOpens, Submits, Reports
<1>7. ASSUME NEW p \in Caller, ImportCommits(p) PROVE Informed(q)'
  <2>1. \A d \in Case : Classified(d)' <=> Classified(d)
    BY <1>7 DEF ImportCommits, Classified, JTypeOK
  <2>2. QED
    BY <1>5, <1>7, <2>1 DEF ImportCommits
<1>8. ASSUME Restarts PROVE Informed(q)'
  BY <1>1, <1>8 DEF Restarts, NoCall, Calls
<1>9. ASSUME NEW p \in Caller, UNCHANGED stage, ~Calls(p, "assess")',
             \A r \in Caller \ {p} : caller'[r] = caller[r]
      PROVE  Informed(q)'
  <2>1. \A c \in Case : Classified(c)' <=> Classified(c)
    BY <1>9 DEF Classified
  <2>2. QED
    BY <1>1, <1>2, <1>9, <2>1
<1>10. ASSUME NEW p \in Caller, NEW x \in Job, NEW c \in Case \cup {NoCase}, Begins(p, x, c)
       PROVE  Informed(q)'
  <2>1. ~Calls(p, "assess")'
    BY <1>10 DEF Begins, JTypeOK, NoCall, Calls
  <2>2. QED
    BY <1>9, <1>10, <2>1 DEF Begins, JTypeOK
<1>11. ASSUME NEW p \in Caller, NEW hashes \in BOOLEAN, NEW ok \in BOOLEAN, Runs(p, hashes, ok)
       PROVE  Informed(q)'
  <2>1. ~Calls(p, "assess")' /\ \A r \in Caller \ {p} : caller'[r] = caller[r]
    BY <1>11 DEF Runs, JTypeOK, CallerRow, Calls
  <2>2. QED
    BY <1>9, <1>11, <2>1 DEF Runs
<1>12. ASSUME NEW p \in Caller, ImportReads(p) PROVE Informed(q)'
  <2>1. ~Calls(p, "assess")'
    BY <1>12 DEF ImportReads, JTypeOK, NoCall, Calls
  <2>2. QED
    BY <1>9, <1>12, <2>1 DEF ImportReads, JTypeOK
<1>13. ASSUME NEW p \in Caller, ImportCopies(p) PROVE Informed(q)'
  <2>1. ~Calls(p, "assess")' /\ \A r \in Caller \ {p} : caller'[r] = caller[r]
    BY <1>13 DEF ImportCopies, Returns, JTypeOK, CallerRow, NoCall, Calls
  <2>2. QED
    BY <1>9, <1>13, <2>1 DEF ImportCopies
<1>14. ASSUME NEW p \in Caller, Ends(p) \/ EndRaises(p) \/ AssessmentStored(p)
       PROVE  Informed(q)'
  <2>1. \A c \in Case : Classified(c)' <=> Classified(c)
    BY <1>14 DEF Ends, EndRaises, AssessmentStored, Classified
  <2>2. QED
    BY <1>5, <1>14, <2>1 DEF Ends, EndRaises, AssessmentStored
<1>15. CASE UNCHANGED <<stage, caller>>
  BY <1>2, <1>15 DEF Classified
<1>16. QED
  BY <1>1, <1>3, <1>4, <1>6, <1>7, <1>8, <1>10, <1>11, <1>12, <1>13, <1>14, <1>15
  DEF JNext, jvars, Clears

LEMMA NextCopied ==
  ASSUME JInv, [JNext]_jvars, NEW q \in Caller
  PROVE  Copied(q)'
<1> USE DEF JInv
<1>1. SUFFICES ASSUME Calls(q, "copied")' PROVE backup' = "whole"
  BY DEF Copied
<1>2. backup = "whole" => backup' = "whole"
  BY DEF JNext, jvars, CaseOpens, Submits, Analyzes, Reports, Begins, Runs, Ends, EndRaises,
     Assesses, AssessmentStored, ImportReads, ImportCopies, ImportCommits, Clears, Restarts
<1>3. CASE Calls(q, "copied")
  BY <1>2, <1>3 DEF CallsSound, Copied
<1>4. CASE ~Calls(q, "copied")
  <2>1. ASSUME NEW p \in Caller, ImportCopies(p) PROVE backup' = "whole"
    BY <1>1, <1>4, <2>1 DEF ImportCopies, Returns, JTypeOK, NoCall, Calls
  <2>2. ASSUME NEW c \in Case, Analyzes(c) PROVE FALSE
    BY <1>1, <1>4, <2>2 DEF Analyzes, JTypeOK, CallerRow, Calls
  <2>3. ASSUME NEW p \in Caller, NEW hashes \in BOOLEAN, NEW ok \in BOOLEAN, Runs(p, hashes, ok)
        PROVE  FALSE
    BY <1>1, <1>4, <2>3 DEF Runs, JTypeOK, CallerRow, Calls
  <2>4. ASSUME NEW p \in Caller, Returns(p) PROVE FALSE
    BY <1>1, <1>4, <2>4 DEF Returns, JTypeOK, NoCall, Calls
  <2>5. ASSUME NEW p \in Caller, NEW x \in Job, NEW c \in Case \cup {NoCase}, Begins(p, x, c)
        PROVE  FALSE
    BY <1>1, <1>4, <2>5 DEF Begins, JTypeOK, NoCall, Calls
  <2>6. ASSUME NEW p \in Caller, NEW c \in Case, Assesses(p, c) PROVE FALSE
    BY <1>1, <1>4, <2>6 DEF Assesses, JTypeOK, NoCall, Calls
  <2>7. ASSUME NEW p \in Caller, ImportReads(p) PROVE FALSE
    BY <1>1, <1>4, <2>7 DEF ImportReads, JTypeOK, NoCall, Calls
  <2>8. ASSUME Restarts PROVE FALSE
    BY <1>1, <2>8 DEF Restarts, NoCall, Calls
  <2>9. CASE UNCHANGED caller
    BY <1>1, <1>4, <2>9 DEF Calls
  <2>10. QED
    BY <2>1, <2>2, <2>3, <2>4, <2>5, <2>6, <2>7, <2>8, <2>9
    DEF JNext, jvars, CaseOpens, Submits, Reports, Ends, EndRaises, AssessmentStored,
        ImportCommits, Clears
<1>5. QED
  BY <1>3, <1>4

LEMMA NextCallsSound == JInv /\ [JNext]_jvars => CallsSound'
  BY NextOwned, NextInformed, NextCopied DEF CallsSound

-----------------------------------------------------------------------------
(* The reports                                                             *)

Anchored(r) ==
    r.job # NoJob =>
        /\ job[r.job].state \in {"completed", "failed"}
        /\ job[r.job].case = r.case
        /\ report[r] = 1
        /\ \A k \in OnRecord : k.job = r.job => k = r
OneReport(c) == report[CollectionReport(c)] = IF stage[c] = "reported" THEN 1 ELSE 0

LEMMA ReportsAnchoredParts ==
    ReportsAnchored <=> /\ \A x \in hashed : Live(x)
                        /\ \A r \in OnRecord : Anchored(r)
                        /\ \A c \in Case : OneReport(c)
  BY DEF ReportsAnchored, Anchored, OneReport

(* A step that stores no report and ends no command leaves them anchored.  *)
LEMMA ReportsStand ==
  ASSUME JTypeOK, KindsApart, ReportsAnchored, UNCHANGED <<report, hashed>>,
         \A x \in Job : job[x].state \in {"completed", "failed"} => job'[x] = job[x],
         \A x \in Job : Live(x) => Live(x)',
         \A c \in Case : stage'[c] = "reported" <=> stage[c] = "reported"
  PROVE  KindsApart' /\ ReportsAnchored'
<1>1. OnRecord' = OnRecord
  BY DEF OnRecord
<1>2. KindsApart'
  BY <1>1 DEF KindsApart
<1>3. \A x \in hashed' : Live(x)'
  BY DEF ReportsAnchored, JTypeOK
<1>4. ASSUME NEW r \in OnRecord PROVE Anchored(r)'
  <2>1. r.job \in Job \cup {NoJob}
    BY DEF OnRecord, ReportRow
  <2>2. Anchored(r)
    BY ReportsAnchoredParts
  <2>3. QED
    BY <1>1, <2>1, <2>2 DEF Anchored
<1>5. \A c \in Case : OneReport(c)'
  BY ReportsAnchoredParts DEF OneReport
<1>6. QED
  BY <1>1, <1>2, <1>3, <1>4, <1>5 DEF ReportsAnchored, Anchored, OneReport

LEMMA Stored ==
  ASSUME JTypeOK, NEW row \in ReportRow, Stores(row)
  PROVE  /\ OnRecord' = OnRecord \cup {row}
         /\ report'[row] = report[row] + 1 /\ report[row] \in Nat
         /\ \A r \in ReportRow \ {row} : report'[r] = report[r]
<1>1. /\ report'[row] = report[row] + 1 /\ report[row] \in Nat
      /\ \A r \in ReportRow \ {row} : report'[r] = report[r]
  BY DEF JTypeOK, Stores
<1>2. QED
  BY <1>1 DEF OnRecord

(* An execution that ends, and had no report, gets the report of its       *)
(* command.                                                                *)
LEMMA CommandReported ==
  ASSUME JTypeOK, KindsApart, ReportsAnchored, UNCHANGED hashed,
         NEW x \in Job, NEW c \in Case \cup {NoCase}, NEW s \in {"completed", "failed"},
         job[x].state \notin {"completed", "failed"},
         job'[x].state = s, job'[x].case = c,
         \A y \in Job \ {x} : job'[y] = job[y],
         Stores(CommandReport(c, x)),
         \A d \in Case : stage'[d] = "reported" <=> stage[d] = "reported"
  PROVE  KindsApart' /\ ReportsAnchored'
<1> DEFINE row == CommandReport(c, x)
<1>1. row \in ReportRow /\ row.kind = "command" /\ row.job = x /\ row.case = c /\ x # NoJob
  BY RowTypes, JobLogAssumption DEF CommandReport
<1>2. \A r \in OnRecord : r.job # x
  BY <1>1 DEF ReportsAnchored
<1>3. /\ OnRecord' = OnRecord \cup {row} /\ row \notin OnRecord
      /\ report'[row] = 1
      /\ \A r \in ReportRow \ {row} : report'[r] = report[r]
  <2>1. row \notin OnRecord
    BY <1>1, <1>2
  <2>2. /\ OnRecord' = OnRecord \cup {row}
        /\ report'[row] = report[row] + 1 /\ report[row] \in Nat
        /\ \A r \in ReportRow \ {row} : report'[r] = report[r]
    BY <1>1, Stored
  <2>3. report[row] = 0
    BY <1>1, <2>1, <2>2 DEF OnRecord
  <2>4. QED
    BY <2>1, <2>2, <2>3
<1> HIDE DEF row
<1>4. KindsApart'
  BY <1>1, <1>3 DEF KindsApart
<1>5. \A y \in hashed' : Live(y)'
  <2>1. \A y \in Job : Live(y) => Live(y)'
    BY DEF Live
  <2>2. QED
    BY <2>1 DEF ReportsAnchored, JTypeOK
<1>6. ASSUME NEW r \in OnRecord' PROVE Anchored(r)'
  <2>1. CASE r = row
    BY <1>1, <1>2, <1>3, <2>1 DEF Anchored
  <2>2. CASE r \in OnRecord
    <3>1. /\ r.job \in Job \cup {NoJob} /\ r.job # x /\ r \in ReportRow \ {row}
      BY <1>1, <1>2, <1>3, <2>2 DEF OnRecord, ReportRow
    <3>2. Anchored(r)
      BY <2>2, ReportsAnchoredParts
    <3>3. QED
      BY <1>1, <1>3, <3>1, <3>2 DEF Anchored
  <2>3. QED
    BY <1>3, <2>1, <2>2
<1>7. ASSUME NEW d \in Case PROVE OneReport(d)'
  <2>1. CollectionReport(d) \in ReportRow \ {row}
    BY <1>1, RowTypes DEF CollectionReport
  <2>2. QED
    BY <1>3, <2>1, ReportsAnchoredParts DEF OneReport
<1>8. QED
  BY <1>4, <1>5, <1>6, <1>7 DEF ReportsAnchored, Anchored, OneReport

LEMMA NextReports ==
  ASSUME JInv, [JNext]_jvars
  PROVE  KindsApart' /\ ReportsAnchored'
<1> USE DEF JInv
<1>1. ASSUME NEW c \in Case, Reports(c) PROVE KindsApart' /\ ReportsAnchored'
  <2> DEFINE row == CollectionReport(c)
  <2>1. row \in ReportRow /\ row.kind = "collection" /\ row.job = NoJob
    BY RowTypes DEF CollectionReport
  <2>2. \A d \in Case : CollectionReport(d) = row => d = c
    BY DEF CollectionReport
  <2>3. /\ OnRecord' = OnRecord \cup {row}
        /\ report'[row] = report[row] + 1
        /\ \A r \in ReportRow \ {row} : report'[r] = report[r]
    BY <1>1, <2>1, Stored DEF Reports
  <2>4. UNCHANGED <<job, hashed>> /\ stage[c] = "analyzed" /\ stage'[c] = "reported"
        /\ \A d \in Case \ {c} : stage'[d] = stage[d]
    BY <1>1 DEF Reports, JTypeOK
  <2>5. report[row] = 0
    BY <2>4 DEF ReportsAnchored
  <2>6. KindsApart'
    BY <2>1, <2>3 DEF KindsApart
  <2>7. ASSUME NEW r \in OnRecord' PROVE Anchored(r)'
    <3>1. CASE r = row
      BY <2>1, <3>1 DEF Anchored
    <3>2. CASE r \in OnRecord /\ r # row
      <4>1. r \in ReportRow \ {row} /\ Anchored(r)
        BY <3>2, ReportsAnchoredParts DEF OnRecord
      <4>2. QED
        BY <2>1, <2>3, <2>4, <4>1 DEF Anchored
    <3>3. QED
      BY <2>3, <3>1, <3>2
  <2>8. ASSUME NEW d \in Case PROVE OneReport(d)'
    <3>1. CASE d = c
      BY <2>3, <2>4, <2>5, <3>1 DEF OneReport
    <3>2. CASE d # c
      BY <2>2, <2>3, <2>4, <3>2, RowTypes, ReportsAnchoredParts DEF OneReport
    <3>3. QED
      BY <3>1, <3>2
  <2>9. \A x \in hashed' : Live(x)'
    BY <2>4 DEF ReportsAnchored, Live
  <2>10. QED
    BY <2>6, <2>7, <2>8, <2>9 DEF ReportsAnchored, Anchored, OneReport
<1>2. ASSUME NEW q \in Caller, Ends(q) PROVE KindsApart' /\ ReportsAnchored'
  <2>1. PICK x, c : x = caller[q].job /\ c = caller[q].case
    OBVIOUS
  <2>2. x \in Job /\ c \in Case \cup {NoCase} /\ job[x].case = c
        /\ job[x].state \in {"running", "cleared"}
    BY <1>2, <2>1 DEF Ends, CallsSound, Owned, Commands, Calls, JTypeOK, CallerRow
  <2>3. CASE Live(x)
    <3> DEFINE s == IF caller[q].ok THEN "completed" ELSE "failed"
    <3>1. /\ job' = [job EXCEPT ![x].state = s] /\ Stores(CommandReport(c, x))
          /\ UNCHANGED <<stage, hashed>>
      BY <1>2, <2>1, <2>3 DEF Ends
    <3>2. s \in {"completed", "failed"}
      OBVIOUS
    <3> HIDE DEF s
    <3>3. /\ job'[x].state = s /\ job'[x].case = c
          /\ \A y \in Job \ {x} : job'[y] = job[y]
      BY <2>2, <3>1 DEF JTypeOK, JobRow
    <3>4. job[x].state \notin {"completed", "failed"}
      BY <2>2
    <3>5. QED
      BY <2>2, <3>1, <3>2, <3>3, <3>4, CommandReported
  <2>4. CASE ~Live(x)
    <3>1. UNCHANGED <<stage, job, report, hashed>>
      BY <1>2, <2>1, <2>4 DEF Ends
    <3>2. QED
      BY <3>1, ReportsStand DEF Live
  <2>5. QED
    BY <2>3, <2>4
<1>3. ASSUME NEW q \in Caller, ImportCommits(q) PROVE KindsApart' /\ ReportsAnchored'
  <2>1. CASE UNCHANGED <<stage, job, report, marker>>
    BY <1>3, <2>1, ReportsStand DEF ImportCommits, Live
  <2>2. CASE ~UNCHANGED <<stage, job, report, marker>>
    <3>1. /\ stage[LegacyCase] = "absent" /\ job[LegacyJob].state = "unused"
          /\ stage' = [stage EXCEPT ![LegacyCase] = "created"]
          /\ job' = [job EXCEPT ![LegacyJob] = [state |-> "completed", case |-> LegacyCase]]
          /\ Stores(CommandReport(LegacyCase, LegacyJob)) /\ UNCHANGED hashed
      BY <1>3, <2>2 DEF ImportCommits
    <3>2. /\ job'[LegacyJob].state = "completed" /\ job'[LegacyJob].case = LegacyCase
          /\ \A y \in Job \ {LegacyJob} : job'[y] = job[y]
      BY <3>1, JobLogAssumption DEF JTypeOK
    <3>3. \A d \in Case : stage'[d] = "reported" <=> stage[d] = "reported"
      BY <3>1, JobLogAssumption DEF JTypeOK
    <3>4. QED
      BY <3>1, <3>2, <3>3, CommandReported, JobLogAssumption
  <2>3. QED
    BY <2>1, <2>2
<1>4. ASSUME Clears PROVE KindsApart' /\ ReportsAnchored'
  <2>1. /\ hashed' = {} /\ UNCHANGED stage
        /\ report' = [r \in ReportRow |-> IF r.job = NoJob THEN report[r] ELSE 0]
    BY <1>4 DEF Clears
  <2>2. OnRecord' = {r \in OnRecord : r.job = NoJob}
    BY <2>1 DEF OnRecord
  <2>3. KindsApart'
    BY <2>2 DEF KindsApart
  <2>4. \A r \in OnRecord' : Anchored(r)'
    BY <2>2 DEF Anchored
  <2>5. ASSUME NEW c \in Case PROVE OneReport(c)'
    <3>1. CollectionReport(c) \in ReportRow /\ CollectionReport(c).job = NoJob
      BY RowTypes DEF CollectionReport
    <3>2. QED
      BY <2>1, <3>1, ReportsAnchoredParts DEF OneReport
  <2>6. QED
    BY <2>1, <2>3, <2>4, <2>5 DEF ReportsAnchored, Anchored, OneReport
<1>5. ASSUME NEW q \in Caller, NEW hashes \in BOOLEAN, NEW ok \in BOOLEAN, Runs(q, hashes, ok)
      PROVE  KindsApart' /\ ReportsAnchored'
  <2>1. UNCHANGED <<stage, job, report>>
    BY <1>5 DEF Runs
  <2>2. \A x \in hashed' : Live(x)
    BY <1>5 DEF Runs, ReportsAnchored
  <2>3. OnRecord' = OnRecord
    BY <2>1 DEF OnRecord
  <2>4. QED
    BY <2>1, <2>2, <2>3 DEF KindsApart, ReportsAnchored, Live
<1>6. ASSUME UNCHANGED <<job, report, hashed>>,
             \A c \in Case : stage'[c] = "reported" <=> stage[c] = "reported"
      PROVE  KindsApart' /\ ReportsAnchored'
  BY <1>6, ReportsStand DEF Live
<1>7. ASSUME NEW c \in Case, CaseOpens(c) \/ Submits(c) \/ Analyzes(c)
      PROVE  KindsApart' /\ ReportsAnchored'
  <2>1. \A d \in Case : stage'[d] = "reported" <=> stage[d] = "reported"
    BY <1>7 DEF CaseOpens, Submits, Analyzes, JTypeOK
  <2>2. QED
    BY <1>6, <1>7, <2>1 DEF CaseOpens, Submits, Analyzes
<1>8. ASSUME NEW q \in Caller, NEW x \in Job, NEW c \in Case \cup {NoCase}, Begins(q, x, c)
      PROVE  KindsApart' /\ ReportsAnchored'
  <2>1. /\ \A y \in Job \ {x} : job'[y] = job[y]
        /\ job[x].state = "unused" /\ job'[x].state = "running"
        /\ UNCHANGED <<stage, report, hashed>>
    BY <1>8 DEF Begins, JTypeOK
  <2>2. /\ \A y \in Job : job[y].state \in {"completed", "failed"} => job'[y] = job[y]
        /\ \A y \in Job : Live(y) => Live(y)'
    BY <2>1 DEF Live
  <2>3. QED
    BY <2>1, <2>2, ReportsStand
<1>9. ASSUME Restarts PROVE KindsApart' /\ ReportsAnchored'
  <2>1. /\ \A y \in Job : job[y].state \in {"completed", "failed"} => job'[y] = job[y]
        /\ \A y \in Job : Live(y) => Live(y)'
    BY <1>9 DEF Restarts, Live, JTypeOK, JobRow
  <2>2. \A c \in Case : stage'[c] = "reported" <=> stage[c] = "reported"
    BY <1>9 DEF Restarts
  <2>3. QED
    BY <1>9, <2>1, <2>2, ReportsStand DEF Restarts
<1>10. QED
  BY <1>1, <1>2, <1>3, <1>4, <1>5, <1>6, <1>7, <1>8, <1>9
  DEF JNext, jvars, EndRaises, Assesses, AssessmentStored, ImportReads, ImportCopies

-----------------------------------------------------------------------------
(* Executions, imports and assessments                                     *)

Working(x) == \E q \in Caller : caller[q].job = x /\ Commands(q)
Attended(x) == job[x].state = "running" => Working(x) \/ x \in unended

LEMMA NextAttended ==
  ASSUME JInv, [JNext]_jvars, NEW x \in Job
  PROVE  Attended(x)'
<1> USE DEF JInv
<1>1. SUFFICES ASSUME job'[x].state = "running", x \notin unended'
               PROVE  \E q \in Caller : caller'[q].job = x /\ Commands(q)'
  BY DEF Attended, Working
<1>2. ASSUME NEW q \in Caller, Commands(q), caller[q].job = x,
             caller'[q].op \in {"command", "ran"} /\ caller'[q].job = caller[q].job
      PROVE  \E r \in Caller : caller'[r].job = x /\ Commands(r)'
  BY <1>2 DEF Commands
<1>r. SUFFICES ASSUME ~Restarts
               PROVE  \E r \in Caller : caller'[r].job = x /\ Commands(r)'
  BY <1>1 DEF Restarts, JTypeOK, JobRow
<1>3. job[x].state = "running" => \E q \in Caller : caller[q].job = x /\ Commands(q)
  <2>1. unended \subseteq unended'
    BY <1>r DEF JNext, jvars, CaseOpens, Submits, Analyzes, Reports, Begins, Runs, Ends, EndRaises,
       Assesses, AssessmentStored, ImportReads, ImportCopies, ImportCommits, Clears
  <2>2. QED
    BY <1>1, <2>1 DEF NothingComesBack, Commands
<1>4. ASSUME NEW p \in Caller, NEW y \in Job, NEW c \in Case \cup {NoCase}, Begins(p, y, c)
      PROVE  \E r \in Caller : caller'[r].job = x /\ Commands(r)'
  <2>1. CASE x = y
    <3>1. caller'[p].job = x /\ caller'[p].op = "command"
      BY <1>4, <2>1 DEF Begins, JTypeOK, NoCall
    <3>2. QED
      BY <3>1 DEF Commands
  <2>2. CASE x # y
    <3>1. job[x].state = "running" /\ ~Commands(p)
      BY <1>1, <1>4, <2>2 DEF Begins, JTypeOK, Calls, Commands
    <3>2. PICK q \in Caller : caller[q].job = x /\ Commands(q)
      BY <1>3, <3>1
    <3>3. caller'[q] = caller[q]
      BY <1>4, <3>1, <3>2 DEF Begins, JTypeOK
    <3>4. QED
      BY <1>2, <3>2, <3>3 DEF Commands
  <2>3. QED
    BY <2>1, <2>2
<1>5. ASSUME NEW p \in Caller, NEW hashes \in BOOLEAN, NEW ok \in BOOLEAN, Runs(p, hashes, ok)
      PROVE  \E r \in Caller : caller'[r].job = x /\ Commands(r)'
  <2>1. job[x].state = "running"
    BY <1>1, <1>5 DEF Runs
  <2>2. PICK q \in Caller : caller[q].job = x /\ Commands(q)
    BY <1>3, <2>1
  <2>3. caller'[q].op \in {"command", "ran"} /\ caller'[q].job = caller[q].job
    BY <1>5, <2>2 DEF Runs, JTypeOK, CallerRow, Commands
  <2>4. QED
    BY <1>2, <2>2, <2>3
<1>6. ASSUME NEW p \in Caller, Ends(p)
      PROVE  \E r \in Caller : caller'[r].job = x /\ Commands(r)'
  <2>1. caller[p].job \in Job /\ job[caller[p].job].state \in {"running", "cleared"}
    BY <1>6 DEF Ends, CallsSound, Owned, Commands, Calls
  <2>2. job[x].state = "running" /\ x # caller[p].job
    BY <1>1, <1>6, <2>1 DEF Ends, JTypeOK, JobRow, Live
  <2>3. PICK q \in Caller : caller[q].job = x /\ Commands(q)
    BY <1>3, <2>2
  <2>4. caller'[q] = caller[q]
    BY <1>6, <2>2, <2>3 DEF Ends, Returns, JTypeOK
  <2>5. QED
    BY <1>2, <2>3, <2>4 DEF Commands
<1>7. ASSUME NEW p \in Caller, ~Commands(p), job[x].state = "running",
             \A r \in Caller \ {p} : caller'[r] = caller[r]
      PROVE  \E r \in Caller : caller'[r].job = x /\ Commands(r)'
  <2>1. PICK q \in Caller : caller[q].job = x /\ Commands(q)
    BY <1>3, <1>7
  <2>2. caller'[q] = caller[q]
    BY <1>7, <2>1
  <2>3. QED
    BY <1>2, <2>1, <2>2 DEF Commands
<1>8. ASSUME NEW p \in Caller,
             \/ AssessmentStored(p) \/ ImportReads(p) \/ ImportCopies(p)
             \/ \E c \in Case : Assesses(p, c)
      PROVE  \E r \in Caller : caller'[r].job = x /\ Commands(r)'
  <2>1. /\ ~Commands(p) /\ UNCHANGED job
        /\ \A r \in Caller \ {p} : caller'[r] = caller[r]
    BY <1>8
    DEF AssessmentStored, ImportReads, ImportCopies, Assesses, Returns, Commands, Calls, JTypeOK
  <2>2. QED
    BY <1>1, <1>7, <2>1
<1>9. ASSUME NEW p \in Caller, ImportCommits(p)
      PROVE  \E r \in Caller : caller'[r].job = x /\ Commands(r)'
  <2>1. /\ ~Commands(p) /\ \A r \in Caller \ {p} : caller'[r] = caller[r]
    BY <1>9 DEF ImportCommits, Returns, Commands, Calls, JTypeOK
  <2>2. job[x].state = "running"
    BY <1>1, <1>9 DEF ImportCommits, JTypeOK
  <2>3. QED
    BY <1>7, <2>1, <2>2
<1>10. ASSUME NEW c \in Case, Analyzes(c)
       PROVE  \E r \in Caller : caller'[r].job = x /\ Commands(r)'
  <2>1. job[x].state = "running"
    BY <1>1, <1>10 DEF Analyzes
  <2>2. PICK q \in Caller : caller[q].job = x /\ Commands(q)
    BY <1>3, <2>1
  <2>3. caller'[q].op = caller[q].op /\ caller'[q].job = caller[q].job
    BY <1>10 DEF Analyzes, JTypeOK, CallerRow
  <2>4. QED
    BY <1>2, <2>2, <2>3 DEF Commands
<1>11. ASSUME UNCHANGED caller, job[x].state = "running"
       PROVE  \E r \in Caller : caller'[r].job = x /\ Commands(r)'
  BY <1>3, <1>11 DEF Commands
<1>12. CASE Clears
  BY <1>1, <1>11, <1>12 DEF Clears, JTypeOK, JobRow
<1>13. ASSUME NEW p \in Caller, EndRaises(p)
       PROVE  \E r \in Caller : caller'[r].job = x /\ Commands(r)'
  <2>1. x # caller[p].job /\ job[x].state = "running"
    BY <1>1, <1>13 DEF EndRaises
  <2>2. PICK q \in Caller : caller[q].job = x /\ Commands(q)
    BY <1>3, <2>1
  <2>3. caller'[q] = caller[q]
    BY <1>13, <2>1, <2>2 DEF EndRaises, Returns, JTypeOK
  <2>4. QED
    BY <1>2, <2>2, <2>3 DEF Commands
<1>14. ASSUME NEW c \in Case, CaseOpens(c) \/ Submits(c) \/ Reports(c)
       PROVE  \E r \in Caller : caller'[r].job = x /\ Commands(r)'
  BY <1>1, <1>11, <1>14 DEF CaseOpens, Submits, Reports
<1>15. CASE UNCHANGED jvars
  BY <1>1, <1>11, <1>15 DEF jvars
<1>16. QED
  BY <1>r, <1>4, <1>5, <1>6, <1>8, <1>9, <1>10, <1>12, <1>13, <1>14, <1>15 DEF JNext

LEMMA NextImported ==
  ASSUME JInv, [JNext]_jvars
  PROVE  ImportedWhole'
<1> USE DEF JInv
<1> DEFINE l == job[LegacyJob].state
<1>1. ASSUME UNCHANGED marker, l' # "unused" <=> l # "unused",
             backup = "whole" => backup' = "whole",
             stage[LegacyCase] # "absent" => stage'[LegacyCase] # "absent"
      PROVE  ImportedWhole'
  BY <1>1 DEF ImportedWhole
<1>2. ASSUME NEW q \in Caller, ImportCommits(q) PROVE ImportedWhole'
  <2>1. CASE UNCHANGED <<stage, job, report, marker>>
    BY <1>1, <1>2, <2>1 DEF ImportCommits
  <2>2. CASE ~UNCHANGED <<stage, job, report, marker>>
    BY <1>2, <2>2, JobLogAssumption
    DEF ImportCommits, ImportedWhole, CallsSound, Copied, JTypeOK
  <2>3. QED
    BY <2>1, <2>2
<1>3. ASSUME NEW q \in Caller, NEW x \in Job, NEW c \in Case \cup {NoCase}, Begins(q, x, c)
      PROVE  ImportedWhole'
  BY <1>1, <1>3, JobLogAssumption DEF Begins, JTypeOK
<1>4. ASSUME NEW q \in Caller, Ends(q) PROVE ImportedWhole'
  <2>1. caller[q].job \in Job /\ job[caller[q].job].state \in {"running", "cleared"}
    BY <1>4 DEF Ends, CallsSound, Owned, Commands, Calls
  <2>2. l' # "unused" <=> l # "unused"
    BY <1>4, <2>1, JobLogAssumption DEF Ends, JTypeOK, JobRow
  <2>3. QED
    BY <1>1, <1>4, <2>2 DEF Ends
<1>5. ASSUME Clears PROVE ImportedWhole'
  <2>1. l' # "unused" <=> l # "unused"
    BY <1>5, JobLogAssumption DEF Clears, JTypeOK, JobRow, Live
  <2>2. QED
    BY <1>1, <1>5, <2>1 DEF Clears
<1>6. ASSUME Restarts PROVE ImportedWhole'
  <2>1. l' # "unused" <=> l # "unused"
    BY <1>6, JobLogAssumption DEF Restarts, JTypeOK, JobRow
  <2>2. QED
    BY <1>1, <1>6, <2>1, JobLogAssumption DEF Restarts
<1>7. ASSUME NEW c \in Case, CaseOpens(c) \/ Submits(c) \/ Analyzes(c) \/ Reports(c)
      PROVE  ImportedWhole'
  BY <1>1, <1>7, JobLogAssumption DEF CaseOpens, Submits, Analyzes, Reports, JTypeOK
<1>8. ASSUME NEW q \in Caller, ImportCopies(q) PROVE ImportedWhole'
  BY <1>1, <1>8 DEF ImportCopies
<1>9. QED
  BY <1>1, <1>2, <1>3, <1>4, <1>5, <1>6, <1>7, <1>8
  DEF JNext, jvars, Runs, EndRaises, Assesses, AssessmentStored, ImportReads

LEMMA NextAssessments ==
  ASSUME JInv, [JNext]_jvars
  PROVE  AssessmentsCurrent'
<1> USE DEF JInv
<1>1. ASSUME NEW q \in Caller, AssessmentStored(q) PROVE AssessmentsCurrent'
  <2> DEFINE c == caller[q].case
             a == [case |-> c, saw |-> caller[q].saw, stood |-> Classified(c),
                   late |-> caller[q].late]
  <2>1. (caller[q].saw <=> Classified(c)) \/ caller[q].late
    BY <1>1 DEF AssessmentStored, CallsSound, Informed
  <2>2. caller[q].saw \in BOOLEAN /\ Classified(c) \in BOOLEAN
    BY DEF JTypeOK, CallerRow, Classified
  <2>3. a.saw = a.stood \/ a.late
    BY <2>1, <2>2
  <2>4. assessment' = assessment \cup {a}
    BY <1>1 DEF AssessmentStored
  <2> HIDE DEF a
  <2>5. QED
    BY <2>3, <2>4 DEF AssessmentsCurrent
<1>2. CASE UNCHANGED assessment
  BY <1>2 DEF AssessmentsCurrent
<1>3. QED
  BY <1>1, <1>2
  DEF JNext, jvars, CaseOpens, Submits, Analyzes, Reports, Begins, Runs, Ends, EndRaises, Assesses,
      ImportReads, ImportCopies, ImportCommits, Clears, Restarts

-----------------------------------------------------------------------------
(* The theorems                                                            *)

LEMMA NextJInv == JInv /\ [JNext]_jvars => JInv'
<1> SUFFICES ASSUME JInv, [JNext]_jvars PROVE JInv'
  OBVIOUS
<1>1. NothingComesBack'
  <2>1. \A x \in Job : Attended(x)'
    BY NextAttended
  <2>2. JTypeOK' /\ ImportedWhole'
    BY NextJTypeOK, NextImported
  <2>3. marker' => Live(LegacyJob)' \/ job'[LegacyJob].state = "cleared"
    BY <2>2 DEF ImportedWhole, Live
  <2>4. QED
    BY <2>1, <2>3 DEF NothingComesBack, Attended, Working, Commands
<1>2. QED
  BY <1>1, NextJTypeOK, NextCallsSound, NextReports, NextImported, NextAssessments DEF JInv

LEMMA AlwaysJInv == JSpec => []JInv
  BY InitJInv, NextJInv, PTL DEF JSpec

(* Every variable keeps the shape the code gives it.                       *)
THEOREM JobLogTypes == JSpec => []JTypeOK
<1>1. JInv => JTypeOK
  BY DEF JInv
<1>2. QED
  BY <1>1, AlwaysJInv, PTL

(* The log and the record stay consistent with one another, whatever is    *)
(* commanded, cleared, imported or assessed meanwhile, and wherever the    *)
(* process ends (command, clear_history, import_legacy, assess).           *)
THEOREM JobLogHolds == JSpec => []LogHolds
<1>1. JInv => LogHolds
  BY DEF JInv, LogHolds
<1>2. QED
  BY <1>1, AlwaysJInv, PTL

-----------------------------------------------------------------------------
(* Owning the workspace                                                    *)

(* The lock has at most one holder.                                        *)
LockExclusive == \A e, f \in Owners : e = f

(* A worker is at work only where its engine serves, closes, or has given  *)
(* the lock up without it.                                                 *)
WorkerPlaced ==
    \A e \in Engine : worker[e] = "busy" =>
        \/ engine[e] \in {"serving", "closing"}
        \/ engine[e] = "released" /\ e \in outlived

(* While a call stops an engine it knows which.                            *)
Stopping == {"asking", "grace", "killing"}
StopKnows == \A k \in Call : call[k].pc \in Stopping => call[k].engine \in Engine

OIInv == OTypeOK /\ StopKnows /\ LockExclusive /\ WorkerPlaced

-----------------------------------------------------------------------------
LEMMA CallTyped ==
  ASSUME OTypeOK, NEW k \in Call, NEW row \in CallRow, CallMoves(k, row)
  PROVE  call' \in [Call -> CallRow]
  BY DEF OTypeOK, CallMoves

LEMMA RowTyped ==
  ASSUME OTypeOK, NEW k \in Call
  PROVE  /\ call[k] \in CallRow /\ NoCallRow \in CallRow
         /\ \A pc \in {"idle", "start", "adopting", "spawning", "polling", "health",
                       "asking", "grace", "killing", "restart"} :
               [call[k] EXCEPT !.pc = pc] \in CallRow
         /\ \A up \in BOOLEAN :
               /\ [call[k] EXCEPT !.pc = "adopting", !.up = up] \in CallRow
               /\ [call[k] EXCEPT !.pc = "health", !.up = up] \in CallRow
         /\ [NoCallRow EXCEPT !.pc = "restart"] \in CallRow
         /\ \A again \in BOOLEAN : [NoCallRow EXCEPT !.pc = "asking", !.again = again,
                                                     !.engine = process] \in CallRow
  BY DEF OTypeOK, CallRow, NoCallRow

(* What an engine or its worker does keeps every type.                     *)
LEMMA EngineTyped ==
  ASSUME OTypeOK, NEW e \in Engine,
         \/ Locks(e) \/ Recovers(e) \/ InitFails(e) \/ WorkerTakes(e) \/ WorkerDone(e)
         \/ Releases(e) \/ Exits(e) \/ EngineCrashes(e) \/ FrameHeard(e) \/ ExitHeard(e)
  PROVE  OTypeOK'
  <1> USE OwnershipAssumption DEF OTypeOK, EngineMoves, Dies, Troubled, client, EnginePc, Phase
  <1>1. CASE Locks(e) BY <1>1 DEF Locks
  <1>2. CASE Recovers(e) BY <1>2 DEF Recovers
  <1>3. CASE InitFails(e) BY <1>3 DEF InitFails
  <1>4. CASE WorkerTakes(e) BY <1>4 DEF WorkerTakes
  <1>5. CASE WorkerDone(e) BY <1>5 DEF WorkerDone
  <1>6. CASE Releases(e) BY <1>6 DEF Releases
  <1>7. CASE Exits(e) BY <1>7 DEF Exits
  <1>8. CASE EngineCrashes(e) BY <1>8 DEF EngineCrashes
  <1>9. CASE FrameHeard(e) BY <1>9 DEF FrameHeard
  <1>10. CASE ExitHeard(e) BY <1>10 DEF ExitHeard
  <1>q. QED BY <1>1, <1>2, <1>3, <1>4, <1>5, <1>6, <1>7, <1>8, <1>9, <1>10

(* So does a step of a call of the supervisor.                             *)
LEMMA StartTyped ==
  ASSUME OTypeOK, NEW k \in Call,
         \/ StartCalled(k) \/ StartRuns(k) \/ Adopts(k) \/ SpawnFails(k)
         \/ \E e \in Engine : Spawns(k, e)
         \/ Polls(k) \/ PollAnswered(k) \/ DeadlinePasses(k)
  PROVE  OTypeOK'
  <1>t. call' \in [Call -> CallRow]
    <2>1. \A row \in CallRow : CallMoves(k, row) => call' \in [Call -> CallRow]
      BY CallTyped
    <2>2. \A e \in Engine \cup {NoEngine} : Answers(e) \in BOOLEAN
      BY DEF Answers
    <2>q. QED
      BY <2>1, <2>2, RowTyped
      DEF OTypeOK, StartCalled, StartRuns, Adopts, SpawnFails, Spawns, Polls, PollAnswered,
          DeadlinePasses, Goes
  <1> USE <1>t, OwnershipAssumption DEF OTypeOK, Launching, EngineMoves, Troubled, EnginePc, Phase
  <1>1. CASE StartCalled(k) BY <1>1 DEF StartCalled, client, Overlaps
  <1>2. CASE StartRuns(k) BY <1>2 DEF StartRuns
  <1>3. CASE Adopts(k) BY <1>3 DEF Adopts
  <1>4. CASE SpawnFails(k) BY <1>4 DEF SpawnFails
  <1>5. CASE \E e \in Engine : Spawns(k, e) BY <1>5 DEF Spawns
  <1>6. CASE Polls(k) BY <1>6 DEF Polls
  <1>7. CASE PollAnswered(k) BY <1>7 DEF PollAnswered
  <1>8. CASE DeadlinePasses(k) BY <1>8 DEF DeadlinePasses
  <1>q. QED BY <1>1, <1>2, <1>3, <1>4, <1>5, <1>6, <1>7, <1>8

LEMMA StopTyped ==
  ASSUME OTypeOK, StopKnows, NEW k \in Call,
         \/ \E again \in BOOLEAN : StopCalled(k, again)
         \/ Asks(k) \/ GraceEnds(k) \/ Kills(k) \/ KillEnds(k) \/ Restarting(k)
  PROVE  OTypeOK'
  <1>t. call' \in [Call -> CallRow]
    <2>1. \A row \in CallRow : CallMoves(k, row) => call' \in [Call -> CallRow]
      BY CallTyped
    <2>q. QED
      BY <2>1, RowTyped
      DEF OTypeOK, StopCalled, Asks, GraceEnds, Kills, KillEnds, Restarting, StopReturns, Goes
  <1> USE <1>t, OwnershipAssumption DEF OTypeOK, EngineMoves, Dies, Troubled, EnginePc, Phase
  <1>1. CASE \E again \in BOOLEAN : StopCalled(k, again) BY <1>1 DEF StopCalled, Overlaps
  <1>2. CASE Asks(k) BY <1>2 DEF Asks, client
  <1>3. CASE GraceEnds(k) BY <1>3 DEF GraceEnds, StopReturns
  <1>4. CASE Kills(k) BY <1>4 DEF Kills, client, StopKnows, Stopping
  <1>5. CASE KillEnds(k) BY <1>5 DEF KillEnds, StopReturns
  <1>6. CASE Restarting(k) BY <1>6 DEF Restarting
  <1>q. QED BY <1>1, <1>2, <1>3, <1>4, <1>5, <1>6

-----------------------------------------------------------------------------
(* A row of a call decides alone whether that call knows what it stops.    *)

Knowing(row) == row.pc \in Stopping => row.engine \in Engine

LEMMA KnowsKept ==
  ASSUME OTypeOK, StopKnows, NEW k \in Call, NEW row, CallMoves(k, row), Knowing(row)
  PROVE  StopKnows'
  BY DEF OTypeOK, StopKnows, CallMoves, Knowing

LEMMA RowKnows ==
  ASSUME OTypeOK, NEW k \in Call
  PROVE  /\ Knowing(NoCallRow) /\ Knowing([NoCallRow EXCEPT !.pc = "restart"])
         /\ \A pc \in {"idle", "start", "adopting", "spawning", "polling", "health", "restart"} :
               Knowing([call[k] EXCEPT !.pc = pc])
         /\ \A up \in BOOLEAN :
               /\ Knowing([call[k] EXCEPT !.pc = "adopting", !.up = up])
               /\ Knowing([call[k] EXCEPT !.pc = "health", !.up = up])
  <1>1. DOMAIN call[k] = {"pc", "again", "engine", "up"}
    BY DEF OTypeOK, CallRow
  <1>q. QED BY <1>1 DEF OTypeOK, CallRow, NoCallRow, Knowing, Stopping

-----------------------------------------------------------------------------
(* The lock and the worker.  Of the supervisor only stop touches an engine.*)

LEMMA EngineKeeps ==
  ASSUME OIInv, NEW e \in Engine,
         \/ Locks(e) \/ Recovers(e) \/ InitFails(e) \/ WorkerTakes(e) \/ WorkerDone(e)
         \/ Releases(e) \/ Exits(e) \/ EngineCrashes(e) \/ FrameHeard(e) \/ ExitHeard(e)
  PROVE  StopKnows' /\ LockExclusive' /\ WorkerPlaced'
  <1>k. call' = call
    BY DEF Locks, Recovers, InitFails, WorkerTakes, WorkerDone, Releases, Exits,
           EngineCrashes, FrameHeard, ExitHeard
  <1>s. StopKnows' BY <1>k DEF OIInv, StopKnows
  <1> USE <1>s DEF OIInv, OTypeOK, LockExclusive, Owners, WorkerPlaced, EngineMoves, Dies
  <1>1. CASE Locks(e) BY <1>1 DEF Locks
  <1>2. CASE Recovers(e) BY <1>2 DEF Recovers
  <1>3. CASE InitFails(e) BY <1>3 DEF InitFails
  <1>4. CASE WorkerTakes(e) BY <1>4 DEF WorkerTakes
  <1>5. CASE WorkerDone(e) BY <1>5 DEF WorkerDone
  <1>6. CASE Releases(e) BY <1>6 DEF Releases
  <1>7. CASE Exits(e) BY <1>7 DEF Exits
  <1>8. CASE EngineCrashes(e) BY <1>8 DEF EngineCrashes
  <1>9. CASE FrameHeard(e) BY <1>9 DEF FrameHeard
  <1>10. CASE ExitHeard(e) BY <1>10 DEF ExitHeard
  <1>q. QED BY <1>1, <1>2, <1>3, <1>4, <1>5, <1>6, <1>7, <1>8, <1>9, <1>10

LEMMA StartKeeps ==
  ASSUME OIInv, NEW k \in Call,
         \/ StartCalled(k) \/ StartRuns(k) \/ Adopts(k) \/ SpawnFails(k)
         \/ \E e \in Engine : Spawns(k, e)
         \/ Polls(k) \/ PollAnswered(k) \/ DeadlinePasses(k)
  PROVE  StopKnows' /\ LockExclusive' /\ WorkerPlaced'
  <1>s. StopKnows'
    <2>1. \A row : CallMoves(k, row) /\ Knowing(row) => StopKnows'
      BY KnowsKept DEF OIInv
    <2>2. \A e : Answers(e) \in BOOLEAN
      BY DEF Answers
    <2> USE <2>1, RowKnows DEF OIInv, Goes
    <2>3. CASE StartCalled(k) BY <2>3 DEF StartCalled
    <2>4. CASE StartRuns(k) BY <2>2, <2>4 DEF StartRuns
    <2>5. CASE Adopts(k) BY <2>5 DEF Adopts
    <2>6. CASE SpawnFails(k) BY <2>6 DEF SpawnFails
    <2>7. CASE \E e \in Engine : Spawns(k, e) BY <2>7 DEF Spawns
    <2>8. CASE Polls(k) BY <2>2, <2>8 DEF Polls
    <2>9. CASE PollAnswered(k) BY <2>9 DEF PollAnswered
    <2>10. CASE DeadlinePasses(k) BY <2>10 DEF DeadlinePasses
    <2>q. QED BY <2>3, <2>4, <2>5, <2>6, <2>7, <2>8, <2>9, <2>10
  <1>1. CASE \E e \in Engine : Spawns(k, e)
    BY <1>1, <1>s DEF OIInv, OTypeOK, LockExclusive, Owners, WorkerPlaced, Spawns, EngineMoves
  <1>2. CASE ~\E e \in Engine : Spawns(k, e)
    <2>1. UNCHANGED <<engine, worker, outlived>>
      BY <1>2 DEF StartCalled, StartRuns, Adopts, SpawnFails, Polls, PollAnswered, DeadlinePasses
    <2>q. QED BY <2>1, <1>s DEF OIInv, LockExclusive, Owners, WorkerPlaced
  <1>q. QED BY <1>1, <1>2

LEMMA StopKeeps ==
  ASSUME OIInv, NEW k \in Call,
         \/ \E again \in BOOLEAN : StopCalled(k, again)
         \/ Asks(k) \/ GraceEnds(k) \/ Kills(k) \/ KillEnds(k) \/ Restarting(k)
  PROVE  StopKnows' /\ LockExclusive' /\ WorkerPlaced'
  <1>s. StopKnows'
    <2>1. \A row : CallMoves(k, row) /\ Knowing(row) => StopKnows'
      BY KnowsKept DEF OIInv
    <2>2. ASSUME call[k].engine \in Engine
          PROVE  \A pc : Knowing([call[k] EXCEPT !.pc = pc])
      BY <2>2 DEF Knowing, OIInv, OTypeOK, CallRow
    <2>3. CASE \E again \in BOOLEAN : StopCalled(k, again)
      <3>1. PICK again \in BOOLEAN : StopCalled(k, again) BY <2>3
      <3>2. CASE process = NoEngine BY <2>1, <3>1, <3>2, RowKnows DEF StopCalled, OIInv
      <3>3. CASE process # NoEngine
        <4>1. Knowing([NoCallRow EXCEPT !.pc = "asking", !.again = again, !.engine = process])
          BY <3>3 DEF Knowing, NoCallRow, OIInv, OTypeOK
        <4>q. QED BY <2>1, <3>1, <3>3, <4>1 DEF StopCalled
      <3>q. QED BY <3>2, <3>3
    <2>4. CASE Asks(k) \/ Kills(k)
      <3>1. call[k].engine \in Engine BY <2>4 DEF Asks, Kills, OIInv, StopKnows, Stopping
      <3>q. QED BY <2>1, <2>2, <2>4, <3>1 DEF Asks, Kills, Goes
    <2>5. CASE GraceEnds(k) \/ KillEnds(k)
      BY <2>1, <2>5, RowKnows DEF GraceEnds, KillEnds, StopReturns, OIInv
    <2>6. CASE Restarting(k) BY <2>1, <2>6, RowKnows DEF Restarting, Goes, OIInv
    <2>q. QED BY <2>3, <2>4, <2>5, <2>6
  <1>1. CASE Asks(k)
    <2> DEFINE e == IF Answers(session) THEN session ELSE call[k].engine
    <2>1. e \in Engine
      BY <1>1 DEF Asks, Answers, OIInv, OTypeOK, StopKnows, Stopping
    <2>2. CASE engine[e] \in {"launched", "locked"}
      <3>1. Dies(e) /\ outlived' = outlived BY <1>1, <2>2 DEF Asks
      <3>q. QED
        BY <2>1, <3>1, <1>s DEF OIInv, OTypeOK, LockExclusive, Owners, WorkerPlaced, Dies, EngineMoves
    <2>3. CASE engine[e] \notin {"launched", "locked"}
      <3>1. /\ EngineMoves(e, IF engine[e] = "serving" THEN "closing" ELSE engine[e])
            /\ UNCHANGED <<worker, outlived>>
        BY <1>1, <2>3 DEF Asks
      <3>q. QED
        BY <2>1, <3>1, <1>s DEF OIInv, OTypeOK, LockExclusive, Owners, WorkerPlaced, EngineMoves
    <2>q. QED BY <2>2, <2>3
  <1>2. CASE Kills(k)
    <2>1. call[k].engine \in Engine BY <1>2 DEF Kills, OIInv, StopKnows, Stopping
    <2>2. Dies(call[k].engine) /\ outlived' = outlived BY <1>2 DEF Kills
    <2>q. QED
      BY <2>1, <2>2, <1>s DEF OIInv, OTypeOK, LockExclusive, Owners, WorkerPlaced, Dies, EngineMoves
  <1>3. CASE ~Asks(k) /\ ~Kills(k)
    <2>1. UNCHANGED <<engine, worker, outlived>>
      BY <1>3 DEF StopCalled, GraceEnds, KillEnds, Restarting
    <2>q. QED BY <2>1, <1>s DEF OIInv, LockExclusive, Owners, WorkerPlaced
  <1>q. QED BY <1>1, <1>2, <1>3

-----------------------------------------------------------------------------
LEMMA OInitInv == OInit => OIInv
  <1> SUFFICES ASSUME OInit PROVE OIInv
    OBVIOUS
  <1>1. NoCallRow \in CallRow
    BY DEF NoCallRow, CallRow
  <1>2. call \in [Call -> CallRow]
    BY <1>1 DEF OInit
  <1>3. 0 \in 0..MaxTrouble
    BY OwnershipAssumption
  <1>4. OTypeOK
    BY <1>2, <1>3 DEF OInit, OTypeOK, EnginePc, Phase
  <1>5. StopKnows
    BY DEF OInit, StopKnows, Stopping, NoCallRow
  <1>6. LockExclusive /\ WorkerPlaced
    BY DEF OInit, LockExclusive, Owners, WorkerPlaced
  <1>q. QED BY <1>4, <1>5, <1>6 DEF OIInv

LEMMA OStepInv == OIInv /\ [ONext]_ovars => OIInv'
  <1> SUFFICES ASSUME OIInv, [ONext]_ovars PROVE OIInv'
    OBVIOUS
  <1>1. ASSUME NEW e \in Engine,
               \/ Locks(e) \/ Recovers(e) \/ InitFails(e) \/ WorkerTakes(e) \/ WorkerDone(e)
               \/ Releases(e) \/ Exits(e) \/ EngineCrashes(e) \/ FrameHeard(e) \/ ExitHeard(e)
        PROVE  OIInv'
    BY <1>1, EngineTyped, EngineKeeps DEF OIInv
  <1>2. ASSUME NEW k \in Call,
               \/ StartCalled(k) \/ StartRuns(k) \/ Adopts(k) \/ SpawnFails(k)
               \/ \E e \in Engine : Spawns(k, e)
               \/ Polls(k) \/ PollAnswered(k) \/ DeadlinePasses(k)
        PROVE  OIInv'
    BY <1>2, StartTyped, StartKeeps DEF OIInv
  <1>3. ASSUME NEW k \in Call,
               \/ \E again \in BOOLEAN : StopCalled(k, again)
               \/ Asks(k) \/ GraceEnds(k) \/ Kills(k) \/ KillEnds(k) \/ Restarting(k)
        PROVE  OIInv'
    BY <1>3, StopTyped, StopKeeps DEF OIInv
  <1>4. CASE UNCHANGED ovars
    BY <1>4 DEF ovars, client, OIInv, OTypeOK, StopKnows, LockExclusive, Owners, WorkerPlaced
  <1>q. QED
    BY <1>1, <1>2, <1>3, <1>4 DEF ONext

(* Every variable keeps its type, however calls, frames, exits and crashes *)
(* interleave (runtime.py, backend_supervisor.dart).                       *)
THEOREM OTypeCorrect == OSpec => []OTypeOK
  BY OInitInv, OStepInv, PTL DEF OSpec, OIInv

(* Recovery runs alone: whatever the supervisor starts, stops and kills,   *)
(* while an engine recovers or serves no other worker writes, but for one  *)
(* that outlived the joins of its close (WorkspaceLock, main).             *)
THEOREM RecoveryRunsAlone == OSpec => []RecoveryAlone
  <1>1. OIInv => RecoveryAlone
    BY DEF OIInv, LockExclusive, Owners, WorkerPlaced, RecoveryAlone
  <1>q. QED
    BY <1>1, OInitInv, OStepInv, PTL DEF OSpec

-----------------------------------------------------------------------------
(* One engine at a time.  Every engine that was spawned and whose exit the *)
(* supervisor has not handled is the one it holds: whoever sets _process   *)
(* to nothing has handled that exit, and whoever spawns has found nothing. *)

Used(e) == engine[e] # "unused"
Launch == {"start", "adopting", "spawning", "restart"}

(* What the supervisor holds or stops was spawned, and exits are handled   *)
(* after the engine is gone.                                               *)
SpawnedKnown ==
    /\ process # NoEngine => Used(process)
    /\ \A k \in Call : call[k].pc \in Stopping => Used(call[k].engine)
    /\ \A e \in seen : engine[e] = "gone"

OneCall == \A j, k \in Call : Unsettled(j) /\ Unsettled(k) => j = k
OneEngine == \A e \in Engine : Used(e) /\ e \notin seen => process = e
LaunchesAlone == \A k \in Call : call[k].pc \in Launch => process = NoEngine
StopsItsOwn == \A k \in Call : call[k].pc \in Stopping => process \in {call[k].engine, NoEngine}

SInv ==
    /\ OIInv
    /\ SpawnedKnown
    /\ ~overlap => OneCall /\ OneEngine /\ LaunchesAlone /\ StopsItsOwn

(* No step takes a spawned engine back, or a gone one.                     *)
UsedSame ==
    \A e \in Engine : /\ Used(e)' <=> Used(e)
                      /\ engine[e] = "gone" => engine'[e] = "gone"

LEMMA EngineUsed ==
  ASSUME OIInv, NEW e \in Engine,
         \/ Locks(e) \/ Recovers(e) \/ InitFails(e) \/ WorkerTakes(e) \/ WorkerDone(e)
         \/ Releases(e) \/ Exits(e) \/ EngineCrashes(e) \/ FrameHeard(e) \/ ExitHeard(e)
  PROVE  UsedSame /\ call' = call /\ overlap' = overlap
  <1> USE DEF OIInv, OTypeOK, UsedSame, Used, EngineMoves, Dies, Alive
  <1>1. CASE Locks(e) BY <1>1 DEF Locks
  <1>2. CASE Recovers(e) BY <1>2 DEF Recovers
  <1>3. CASE InitFails(e) BY <1>3 DEF InitFails
  <1>4. CASE WorkerTakes(e) BY <1>4 DEF WorkerTakes
  <1>5. CASE WorkerDone(e) BY <1>5 DEF WorkerDone
  <1>6. CASE Releases(e) BY <1>6 DEF Releases
  <1>7. CASE Exits(e) BY <1>7 DEF Exits
  <1>8. CASE EngineCrashes(e) BY <1>8 DEF EngineCrashes
  <1>9. CASE FrameHeard(e) BY <1>9 DEF FrameHeard
  <1>10. CASE ExitHeard(e) BY <1>10 DEF ExitHeard
  <1>q. QED BY <1>1, <1>2, <1>3, <1>4, <1>5, <1>6, <1>7, <1>8, <1>9, <1>10

LEMMA QuietKeeps ==
  ASSUME SInv, OIInv', UsedSame, UNCHANGED <<process, seen, call, overlap>>
  PROVE  SInv'
  <1>1. process \in Engine \cup {NoEngine} /\ seen \subseteq Engine /\ StopKnows
    BY DEF SInv, OIInv, OTypeOK
  <1>2. SpawnedKnown'
    BY <1>1 DEF SInv, SpawnedKnown, UsedSame, StopKnows, Used
  <1>3. OneEngine /\ ~overlap => OneEngine'
    BY DEF OneEngine, UsedSame
  <1>q. QED
    BY <1>2, <1>3 DEF SInv, OneCall, LaunchesAlone, StopsItsOwn, Unsettled

LEMMA ExitKeeps ==
  ASSUME SInv, OIInv', NEW e \in Engine, ExitHeard(e)
  PROVE  SInv'
  <1>1. /\ engine' = engine /\ call' = call /\ overlap' = overlap
        /\ process' = NoEngine /\ seen' = seen \cup {e} /\ engine[e] = "gone"
        /\ e \notin seen
    BY DEF ExitHeard
  <1>2. SpawnedKnown'
    BY <1>1 DEF SInv, SpawnedKnown, Used
  <1>3. OneEngine /\ ~overlap => OneEngine'
    BY <1>1 DEF OneEngine, Used
  <1>q. QED
    BY <1>1, <1>2, <1>3 DEF SInv, OneCall, LaunchesAlone, StopsItsOwn, Unsettled

(* A call that goes on without touching _process.                          *)
LEMMA CallKeeps ==
  ASSUME SInv, OIInv', NEW k \in Call, NEW row, CallMoves(k, row), UsedSame,
         UNCHANGED <<process, seen, overlap>>,
         row.pc \in Launch => call[k].pc \in Launch,
         row.pc \in Stopping => call[k].pc \in Stopping /\ row.engine = call[k].engine
  PROVE  SInv'
  <1>1. /\ process \in Engine \cup {NoEngine} /\ seen \subseteq Engine /\ StopKnows
        /\ call \in [Call -> CallRow]
    BY DEF SInv, OIInv, OTypeOK
  <1>2. /\ call'[k] = row
        /\ \A j \in Call : j # k => call'[j] = call[j]
    BY <1>1 DEF CallMoves
  <1>3. \A j \in Call : /\ call'[j].pc \in Launch => call[j].pc \in Launch
                        /\ call'[j].pc \in Stopping =>
                              call[j].pc \in Stopping /\ call'[j].engine = call[j].engine
    BY <1>2
  <1>4. SpawnedKnown'
    BY <1>1, <1>3 DEF SInv, SpawnedKnown, UsedSame, StopKnows, Used
  <1>5. OneEngine => OneEngine'
    BY DEF OneEngine, UsedSame
  <1>6. \A j \in Call : Unsettled(j) <=> call[j].pc \in Launch \cup Stopping
    BY DEF Unsettled, Launch, Stopping
  <1>7. \A j \in Call : Unsettled(j)' <=> call'[j].pc \in Launch \cup Stopping
    BY DEF Unsettled, Launch, Stopping
  <1>8. OneCall => OneCall'
    BY <1>3, <1>6, <1>7 DEF OneCall
  <1>9. (LaunchesAlone => LaunchesAlone') /\ (StopsItsOwn => StopsItsOwn')
    BY <1>3 DEF LaunchesAlone, StopsItsOwn
  <1>q. QED
    BY <1>4, <1>5, <1>8, <1>9 DEF SInv

(* A call that begins: alone, unless the step is recorded as an overlap.   *)
LEMMA BeginKeeps ==
  ASSUME SInv, OIInv', NEW k \in Call, NEW row, CallMoves(k, row), Overlaps(k),
         UNCHANGED <<engine, process, seen>>,
         row.pc \in Launch => process = NoEngine,
         row.pc \in Stopping => row.engine = process /\ process \in Engine
  PROVE  SInv'
  <1>1. call \in [Call -> CallRow] /\ overlap \in BOOLEAN
    BY DEF SInv, OIInv, OTypeOK
  <1>2. call'[k] = row /\ \A j \in Call : j # k => call'[j] = call[j]
    BY <1>1 DEF CallMoves
  <1>3. SpawnedKnown'
    <2>1. \A j \in Call : call'[j].pc \in Stopping => Used(call'[j].engine)
      BY <1>2, OwnershipAssumption DEF SInv, SpawnedKnown
    <2>q. QED
      BY <2>1 DEF SInv, SpawnedKnown, Used
  <1>4. CASE overlap'
    BY <1>3, <1>4 DEF SInv
  <1>5. CASE ~overlap'
    <2>1. ~overlap /\ \A j \in Call \ {k} : ~Unsettled(j)
      BY <1>5 DEF Overlaps
    <2>2. \A j \in Call \ {k} : ~Unsettled(j)' /\ call'[j].pc \notin Launch \cup Stopping
      BY <1>2, <2>1 DEF Unsettled, Launch, Stopping
    <2>3. OneCall'
      BY <2>2 DEF OneCall
    <2>4. OneEngine'
      BY <2>1 DEF SInv, OneEngine, Used
    <2>5. LaunchesAlone' /\ StopsItsOwn'
      BY <1>2, <2>2 DEF LaunchesAlone, StopsItsOwn
    <2>q. QED
      BY <1>3, <2>3, <2>4, <2>5 DEF SInv
  <1>q. QED
    BY <1>4, <1>5

LEMMA SpawnKeeps ==
  ASSUME SInv, OIInv', NEW k \in Call, NEW e \in Engine, Spawns(k, e)
  PROVE  SInv'
  <1>1. /\ call \in [Call -> CallRow] /\ engine \in [Engine -> EnginePc]
        /\ seen \subseteq Engine /\ StopKnows
    BY DEF SInv, OIInv, OTypeOK
  <1>2. /\ call[k].pc = "spawning" /\ engine[e] = "unused" /\ process' = e
        /\ engine' = [engine EXCEPT ![e] = "launched"]
        /\ call' = [call EXCEPT ![k] = [call[k] EXCEPT !.pc = "polling"]]
        /\ seen' = seen /\ overlap' = overlap
    BY DEF Spawns, EngineMoves, Goes, CallMoves
  <1>3. call'[k].pc = "polling" /\ \A j \in Call : j # k => call'[j] = call[j]
    BY <1>1, <1>2 DEF CallRow
  <1>4. SpawnedKnown'
    <2>1. \A f \in Engine : Used(f) => Used(f)'
      BY <1>1, <1>2 DEF Used
    <2>2. Used(process)'
      BY <1>1, <1>2 DEF Used
    <2>3. \A j \in Call : call'[j].pc \in Stopping => engine'[call'[j].engine] # "unused"
      BY <1>1, <1>2, <1>3, <2>1 DEF SInv, SpawnedKnown, StopKnows, Stopping, Used
    <2>4. \A f \in seen' : engine'[f] = "gone"
      BY <1>1, <1>2 DEF SInv, SpawnedKnown
    <2>q. QED
      BY <2>2, <2>3, <2>4 DEF SpawnedKnown, Used
  <1>5. ASSUME ~overlap PROVE OneCall' /\ OneEngine' /\ LaunchesAlone' /\ StopsItsOwn'
    <2>1. OneCall /\ OneEngine /\ LaunchesAlone
      BY <1>5 DEF SInv
    <2>2. process = NoEngine
      BY <1>2, <2>1 DEF LaunchesAlone, Launch
    <2>3. \A j \in Call : call'[j].pc \notin Launch \cup Stopping
      BY <1>2, <1>3, <2>1 DEF OneCall, Unsettled, Launch, Stopping
    <2>4. OneEngine'
      BY <1>1, <1>2, <2>1, <2>2, OwnershipAssumption DEF OneEngine, Used
    <2>5. OneCall'
      BY <2>3 DEF OneCall, Unsettled, Launch, Stopping
    <2>6. LaunchesAlone' /\ StopsItsOwn'
      BY <2>3 DEF LaunchesAlone, StopsItsOwn
    <2>q. QED
      BY <2>4, <2>5, <2>6
  <1>q. QED
    BY <1>2, <1>4, <1>5 DEF SInv

LEMMA ReturnKeeps ==
  ASSUME SInv, OIInv', NEW k \in Call, GraceEnds(k) \/ KillEnds(k)
  PROVE  SInv'
  <1>1. call \in [Call -> CallRow]
    BY DEF SInv, OIInv, OTypeOK
  <1>2. /\ call[k].pc \in Stopping /\ call[k].engine \in seen /\ process' = NoEngine
        /\ UNCHANGED <<engine, seen, overlap>>
        /\ CallMoves(k, IF call[k].again THEN [NoCallRow EXCEPT !.pc = "restart"]
                        ELSE NoCallRow)
    BY DEF GraceEnds, KillEnds, StopReturns, Stopping
  <1>3. /\ call'[k].pc \in {"idle", "restart"}
        /\ \A j \in Call : j # k => call'[j] = call[j]
    BY <1>1, <1>2 DEF CallMoves, NoCallRow
  <1>4. SpawnedKnown'
    BY <1>2, <1>3 DEF SInv, SpawnedKnown, Used, Stopping
  <1>5. ASSUME ~overlap PROVE OneCall' /\ OneEngine' /\ LaunchesAlone' /\ StopsItsOwn'
    <2>1. OneCall /\ OneEngine /\ StopsItsOwn
      BY <1>5 DEF SInv
    <2>2. \A e \in Engine : Used(e) => e \in seen
      BY <1>2, <2>1, OwnershipAssumption DEF OneEngine, StopsItsOwn
    <2>3. OneEngine'
      BY <1>2, <2>2 DEF OneEngine, Used
    <2>4. \A j \in Call : j # k => call'[j].pc \notin Launch \cup Stopping
      BY <1>2, <1>3, <2>1 DEF OneCall, Unsettled, Launch, Stopping
    <2>5. OneCall'
      BY <2>4 DEF OneCall, Unsettled, Launch, Stopping
    <2>6. LaunchesAlone' /\ StopsItsOwn'
      BY <1>2 DEF LaunchesAlone, StopsItsOwn
    <2>q. QED
      BY <2>3, <2>5, <2>6
  <1>q. QED
    BY <1>2, <1>4, <1>5 DEF SInv

LEMMA StartSole ==
  ASSUME SInv, OIInv', NEW k \in Call,
         \/ StartCalled(k) \/ StartRuns(k) \/ Adopts(k) \/ SpawnFails(k)
         \/ Polls(k) \/ PollAnswered(k) \/ DeadlinePasses(k)
  PROVE  SInv'
  <1>1. call[k] \in CallRow
    BY DEF SInv, OIInv, OTypeOK
  <1>2. /\ \A pc : [call[k] EXCEPT !.pc = pc].pc = pc
        /\ \A pc, up : [call[k] EXCEPT !.pc = pc, !.up = up].pc = pc
        /\ NoCallRow.pc = "idle"
    BY <1>1 DEF CallRow, NoCallRow
  <1>3. CASE StartCalled(k)
    <2>1. /\ CallMoves(k, [call[k] EXCEPT !.pc = "start"]) /\ Overlaps(k)
          /\ UNCHANGED <<engine, process, seen>> /\ process = NoEngine
      BY <1>3 DEF StartCalled, Goes, client
    <2>q. QED
      BY <1>2, <2>1, BeginKeeps DEF Stopping
  <1>4. CASE ~StartCalled(k)
    <2>1. UNCHANGED <<engine, process, seen, overlap>>
      BY <1>4 DEF StartRuns, Adopts, SpawnFails, Polls, PollAnswered, DeadlinePasses
    <2>2. UsedSame
      BY <2>1 DEF UsedSame, Used
    <2>3. ASSUME NEW row, CallMoves(k, row), row.pc \notin Stopping,
                 row.pc \in Launch => call[k].pc \in Launch
          PROVE  SInv'
      BY <2>1, <2>2, <2>3, CallKeeps
    <2> USE <1>2, <2>3 DEF Launch, Stopping, Goes
    <2>u. PICK up : up = Answers(session) OBVIOUS
    <2>4. CASE StartRuns(k)
      <3>1. \/ CallMoves(k, NoCallRow)
            \/ CallMoves(k, [call[k] EXCEPT !.pc = "adopting", !.up = up])
            \/ CallMoves(k, [call[k] EXCEPT !.pc = "spawning"])
        BY <2>4, <2>u DEF StartRuns
      <3>2. /\ [call[k] EXCEPT !.pc = "adopting", !.up = up].pc = "adopting"
            /\ [call[k] EXCEPT !.pc = "spawning"].pc = "spawning"
            /\ call[k].pc = "start"
        BY <2>4 DEF StartRuns
      <3>3. PICK row : CallMoves(k, row) /\ row.pc \in {"idle", "adopting", "spawning"}
        BY <3>1, <3>2
      <3>q. QED BY <3>2, <3>3
    <2>5. CASE Adopts(k) BY <2>5 DEF Adopts
    <2>6. CASE SpawnFails(k) BY <2>6 DEF SpawnFails
    <2>7. CASE Polls(k)
      <3>1. \/ CallMoves(k, NoCallRow)
            \/ CallMoves(k, [call[k] EXCEPT !.pc = "health", !.up = up])
        BY <2>7, <2>u DEF Polls
      <3>2. [call[k] EXCEPT !.pc = "health", !.up = up].pc = "health"
        OBVIOUS
      <3>3. PICK row : CallMoves(k, row) /\ row.pc \in {"idle", "health"}
        BY <3>1, <3>2
      <3>q. QED BY <3>3
    <2>8. CASE PollAnswered(k)
      <3>1. \/ CallMoves(k, NoCallRow)
            \/ CallMoves(k, [call[k] EXCEPT !.pc = "polling"])
        BY <2>8 DEF PollAnswered
      <3>q. QED BY <3>1
    <2>9. CASE DeadlinePasses(k) BY <2>9 DEF DeadlinePasses
    <2>q. QED BY <1>4, <2>4, <2>5, <2>6, <2>7, <2>8, <2>9
  <1>q. QED BY <1>3, <1>4

LEMMA StopSole ==
  ASSUME SInv, OIInv', NEW k \in Call,
         \/ \E again \in BOOLEAN : StopCalled(k, again)
         \/ Asks(k) \/ Kills(k) \/ Restarting(k)
  PROVE  SInv'
  <1>1. /\ call[k] \in CallRow /\ engine \in [Engine -> EnginePc]
        /\ process \in Engine \cup {NoEngine} /\ StopKnows
    BY DEF SInv, OIInv, OTypeOK
  <1>2. \A pc : [call[k] EXCEPT !.pc = pc].pc = pc
                /\ [call[k] EXCEPT !.pc = pc].engine = call[k].engine
    BY <1>1 DEF CallRow
  <1>3. ASSUME NEW again \in BOOLEAN, StopCalled(k, again) PROVE SInv'
    <2>1. Overlaps(k) /\ UNCHANGED <<engine, process, seen>>
      BY <1>3 DEF StopCalled
    <2>2. PICK row :
             /\ CallMoves(k, row)
             /\ row.pc \in Launch => process = NoEngine
             /\ row.pc \in Stopping => row.engine = process /\ process \in Engine
      <3>1. CASE process = NoEngine
        <4> DEFINE row == IF again THEN [NoCallRow EXCEPT !.pc = "restart"] ELSE NoCallRow
        <4>1. row.pc \in {"idle", "restart"}
          BY DEF NoCallRow
        <4>2. CallMoves(k, row)
          BY <1>3, <3>1 DEF StopCalled
        <4> HIDE DEF row
        <4>q. QED BY <3>1, <4>1, <4>2 DEF Stopping
      <3>2. CASE process # NoEngine
        <4> DEFINE row == [NoCallRow EXCEPT !.pc = "asking", !.again = again,
                                            !.engine = process]
        <4>1. row.pc = "asking" /\ row.engine = process
          BY DEF NoCallRow
        <4>2. CallMoves(k, row)
          BY <1>3, <3>2 DEF StopCalled
        <4> HIDE DEF row
        <4>q. QED BY <1>1, <3>2, <4>1, <4>2 DEF Launch
      <3>q. QED BY <3>1, <3>2
    <2>q. QED BY <2>1, <2>2, BeginKeeps
  <1>4. CASE Asks(k)
    <2> DEFINE e == IF Answers(session) THEN session ELSE call[k].engine
    <2>1. /\ UNCHANGED <<process, seen, overlap>>
          /\ CallMoves(k, [call[k] EXCEPT !.pc = "grace"])
      BY <1>4 DEF Asks, Goes, client
    <2>2. e \in Engine /\ Used(e)
      BY <1>1, <1>4
      DEF Asks, Answers, SInv, OIInv, OTypeOK, SpawnedKnown, StopKnows, Stopping, Used
    <2>3. \/ engine[e] \in {"launched", "locked"} /\ engine' = [engine EXCEPT ![e] = "gone"]
          \/ engine[e] = "serving" /\ engine' = [engine EXCEPT ![e] = "closing"]
          \/ engine' = engine
      BY <1>1, <1>4, <2>2 DEF Asks, Dies, EngineMoves
    <2> HIDE DEF e
    <2>4. UsedSame
      BY <1>1, <2>2, <2>3 DEF UsedSame, Used
    <2>5. call[k].pc \in Stopping
      BY <1>4 DEF Asks, Stopping
    <2>q. QED
      BY <1>2, <2>1, <2>4, <2>5, CallKeeps DEF Launch
  <1>5. CASE Kills(k)
    <2>1. /\ UNCHANGED <<process, seen, overlap>>
          /\ CallMoves(k, [call[k] EXCEPT !.pc = "killing"])
          /\ engine' = [engine EXCEPT ![call[k].engine] = "gone"]
          /\ call[k].pc \in Stopping
      BY <1>5 DEF Kills, Goes, client, Dies, EngineMoves, Stopping
    <2>2. UsedSame
      BY <1>1, <2>1 DEF UsedSame, Used, SInv, SpawnedKnown, StopKnows
    <2>q. QED
      BY <1>2, <2>1, <2>2, CallKeeps DEF Launch
  <1>6. CASE Restarting(k)
    <2>1. /\ UNCHANGED <<engine, process, seen, overlap>>
          /\ CallMoves(k, [call[k] EXCEPT !.pc = "start"])
          /\ call[k].pc \in Launch
      BY <1>6 DEF Restarting, Goes, Launch
    <2>2. UsedSame
      BY <2>1 DEF UsedSame, Used
    <2>q. QED
      BY <1>2, <2>1, <2>2, CallKeeps DEF Stopping
  <1>q. QED BY <1>3, <1>4, <1>5, <1>6

LEMMA OInitSole == OInit => SInv
  <1> SUFFICES ASSUME OInit PROVE SInv
    OBVIOUS
  <1>1. OIInv BY OInitInv
  <1>2. SpawnedKnown
    BY DEF OInit, SpawnedKnown, NoCallRow, Stopping
  <1>3. OneCall /\ OneEngine /\ LaunchesAlone /\ StopsItsOwn
    BY DEF OInit, OneCall, OneEngine, LaunchesAlone, StopsItsOwn, Unsettled, Used,
           NoCallRow, Launch, Stopping
  <1>q. QED BY <1>1, <1>2, <1>3 DEF SInv

LEMMA OStepSole == SInv /\ [ONext]_ovars => SInv'
  <1> SUFFICES ASSUME SInv, OIInv', [ONext]_ovars PROVE SInv'
    BY OStepInv DEF SInv
  <1>1. ASSUME NEW e \in Engine,
               \/ Locks(e) \/ Recovers(e) \/ InitFails(e) \/ WorkerTakes(e) \/ WorkerDone(e)
               \/ Releases(e) \/ Exits(e) \/ EngineCrashes(e) \/ FrameHeard(e) \/ ExitHeard(e)
        PROVE  SInv'
    <2>1. UsedSame /\ call' = call /\ overlap' = overlap
      BY <1>1, EngineUsed DEF SInv
    <2>2. CASE ExitHeard(e) BY <2>2, ExitKeeps
    <2>3. CASE ~ExitHeard(e)
      <3>1. UNCHANGED <<process, seen>>
        BY <1>1, <2>3 DEF Locks, Recovers, InitFails, WorkerTakes, WorkerDone, Releases,
                          Exits, EngineCrashes, FrameHeard, client
      <3>q. QED BY <2>1, <3>1, QuietKeeps
    <2>q. QED BY <2>2, <2>3
  <1>2. CASE UNCHANGED ovars
    <2>1. UsedSame /\ UNCHANGED <<process, seen, call, overlap>>
      BY <1>2 DEF ovars, client, UsedSame, Used
    <2>q. QED BY <2>1, QuietKeeps
  <1>q. QED
    BY <1>1, <1>2, StartSole, StopSole, SpawnKeeps, ReturnKeeps DEF ONext

(* One engine at a time, and it is the one the supervisor holds, for as    *)
(* long as no call began while another was past its check of _process:     *)
(* crashes, kills, late frames and late exits do not bring in a second     *)
(* one (start, stop, restart).                                             *)
THEOREM OneBackend == OSpec => []SoleEngine
  <1>1. SInv => SoleEngine
    BY DEF SInv, SpawnedKnown, OneEngine, SoleEngine, Alive, Used
  <1>q. QED
    BY <1>1, OInitSole, OStepSole, PTL DEF OSpec

-----------------------------------------------------------------------------
(* The protocols together                                                  *)

(* The protocols share no variable, so a step of one leaves the others     *)
(* where they were, and the invariants hold side by side.                  *)
RecordInv == IInv /\ EInv /\ JInv /\ OIInv

LEMMA OneAtATime ==
  ASSUME MCNext \/ UNCHANGED <<part, vars, evars, jvars, ovars>>
  PROVE  [Next]_vars /\ [ENext]_evars /\ [JNext]_jvars /\ [ONext]_ovars
<1>1. ASSUME NEW p \in Parts, Only(p)
      PROVE  /\ p # "evidence" => UNCHANGED vars
             /\ p # "enrollment" => UNCHANGED evars
             /\ p # "jobs" => UNCHANGED jvars
             /\ p # "workspace" => UNCHANGED ovars
  BY <1>1 DEF Only, Parts, Rests
<1>2. CASE Only("evidence") /\ Next
  BY <1>1, <1>2 DEF Parts
<1>3. CASE Only("enrollment") /\ ENext
  BY <1>1, <1>3 DEF Parts
<1>4. CASE Only("jobs") /\ JNext
  BY <1>1, <1>4 DEF Parts
<1>5. CASE Only("workspace") /\ ONext
  BY <1>1, <1>5 DEF Parts
<1>6. CASE UNCHANGED <<part, vars, evars, jvars, ovars>>
  BY <1>6
<1>7. QED
  BY <1>2, <1>3, <1>4, <1>5, <1>6 DEF MCNext

(* Whichever of the protocols runs, every row keeps the shape the code     *)
(* gives it: evidence sources, memory analyses and the custody log         *)
(* (storage.py), tokens and endpoints (fleet/server), the job log and the  *)
(* assessments (jobs.py, detections), the lock and the calls to the        *)
(* backend (ownership.py, backend_controller.dart).                        *)
THEOREM RecordsTyped == MCSpec => []RecordTypes
<1>1. MCInit => RecordInv
  BY InitIInv, InitEInv, InitJInv, OInitInv DEF MCInit, RecordInv
<1>2. RecordInv /\ [MCNext]_<<part, vars, evars, jvars, ovars>> => RecordInv'
  BY OneAtATime, NextIInv, NextEInv, NextJInv, OStepInv DEF RecordInv
<1>3. RecordInv => RecordTypes
  BY DEF RecordInv, RecordTypes, IInv, EInv, JInv, OIInv
<1>4. QED
  BY <1>1, <1>2, <1>3, PTL DEF MCSpec
=============================================================================
