------------------------------ MODULE Credentials ------------------------------
(***************************************************************************)
(* The credential file (internal/authorization/credentials.go): personal    *)
(* tokens, one-time invites and service grants, read and replaced as a      *)
(* whole by the gateway (Enroll) and by administrative commands             *)
(* (CreateInvite, GrantService), each a process of its own.                 *)
(*                                                                          *)
(* The gateway's mutex orders its own goroutines and nobody else: between a *)
(* process's read of the file and its rename another process may rename.    *)
(* docs/operator-guide.md requires a single writer; SingleWriter says       *)
(* whether the operator keeps to that.  The gateway caches the file;        *)
(* AuthenticateToken never reloads, everything else does.                   *)
(***************************************************************************)
EXTENDS Integers, FiniteSets

CONSTANTS
  Sessions,       (* SSH connections that enrol, in the gateway             *)
  Admins,         (* administrative commands                                *)
  Identities,
  MaxSecrets,     (* bound on the invites and tokens drawn                  *)
  SingleWriter,   (* writers do not overlap                                 *)
  NoToken,
  Unlocked

ASSUME WriterAssumption ==
  /\ SingleWriter \in BOOLEAN
  /\ Sessions \cap Admins = {}
  /\ Unlocked \notin Sessions
ASSUME SecretAssumption == MaxSecrets \in Nat /\ NoToken \notin Nat

VARIABLES
  file,           (* [users, invites, grants]: the file's document          *)
  memory,         (* the gateway's parsed copy                              *)
  mu,             (* the session inside credentials.mu                      *)
  pc,             (* "idle", "invited" (AuthenticateInvite accepted),       *)
                  (* "writing" (document read) or "answering"               *)
  who,            (* the identity a process works for                       *)
  invite,         (* the invite a session presented                         *)
  doc,            (* the document a process is about to write               *)
  drawn,          (* secrets drawn so far: randomToken never repeats        *)
  given,          (* invites handed to developers                           *)
  issued,         (* history: the last token an identity was given          *)
  redeemed,       (* history: <<invite, token>> answered                    *)
  granted         (* history: grants whose command succeeded                *)

procVars == <<mu, pc, who, invite, doc>>
histVars == <<given, issued, redeemed, granted>>
vars == <<file, memory, procVars, drawn, histVars>>

Processes == Sessions \cup Admins
Secrets == 1..MaxSecrets

(* invites is a set of <<invite, identity>>; grants a set of identities.     *)
Empty == [users |-> [i \in Identities |-> NoToken], invites |-> {}, grants |-> {}]

(* The file exists and parses: parseCredentials refuses an empty document.   *)
Init ==
  /\ file \in {[Empty EXCEPT !.grants = {i}] : i \in Identities}
  /\ memory = file
  /\ mu = Unlocked
  /\ pc = [p \in Processes |-> "idle"]
  /\ who = [p \in Processes |-> CHOOSE i \in Identities : TRUE]
  /\ invite = [s \in Sessions |-> 0]
  /\ doc = [p \in Processes |-> Empty]
  /\ drawn = 0
  /\ given = {}
  /\ issued = [i \in Identities |-> NoToken]
  /\ redeemed = {}
  /\ granted = {}

(* Somebody is between reading the file and renaming.                        *)
Writing(p) == pc[p] = "writing"

MayWrite(p) == SingleWriter => \A q \in Processes \ {p} : ~Writing(q)

Begin(p, i, d) ==
  /\ pc' = [pc EXCEPT ![p] = "writing"]
  /\ who' = [who EXCEPT ![p] = i]
  /\ doc' = [doc EXCEPT ![p] = d]

-----------------------------------------------------------------------------
(* Administrative commands.  The document is read, changed and written back. *)

(* CreateInvite: an older invite of the identity is replaced.                *)
WithInvite(d, i, v) ==
  [d EXCEPT !.invites = {x \in d.invites : x[2] # i} \cup {<<v, i>>}]

CreateInvite(a, i) ==
  /\ pc[a] = "idle" /\ MayWrite(a)
  /\ drawn < MaxSecrets
  /\ drawn' = drawn + 1
  /\ Begin(a, i, WithInvite(file, i, drawn + 1))
  /\ UNCHANGED <<file, memory, mu, invite, histVars>>

GrantService(a, i) ==
  /\ pc[a] = "idle" /\ MayWrite(a)
  /\ Begin(a, i, [file EXCEPT !.grants = @ \cup {i}])
  /\ UNCHANGED <<file, memory, mu, invite, drawn, histVars>>

(* writeCredentialsFile renames, and the command prints the invite and ends. *)
(* Killed or failing before the rename it changes nothing, killed after it   *)
(* it prints nothing.                                                        *)
AdminWrite(a) ==
  /\ a \in Admins /\ Writing(a)
  /\ \/ /\ file' = doc[a]
        /\ \/ /\ given' = given \cup {x \in doc[a].invites : x[2] = who[a]}
              /\ granted' = granted \cup (doc[a].grants \cap {who[a]})
           \/ UNCHANGED <<given, granted>>
     \/ UNCHANGED <<file, given, granted>>
  /\ pc' = [pc EXCEPT ![a] = "idle"]
  /\ UNCHANGED <<memory, mu, who, invite, doc, drawn, issued, redeemed>>

-----------------------------------------------------------------------------
(* The gateway.                                                              *)

(* AuthenticateInvite reloads and accepts a known invite.                    *)
AuthenticateInvite(s, x) ==
  /\ pc[s] = "idle"
  /\ mu = Unlocked
  /\ x \in given
  /\ memory' = file
  /\ x \in file.invites
  /\ pc' = [pc EXCEPT ![s] = "invited"]
  /\ who' = [who EXCEPT ![s] = x[2]]
  /\ invite' = [invite EXCEPT ![s] = x[1]]
  /\ UNCHANGED <<file, mu, doc, drawn, histVars>>

ValidInvite(s) == <<invite[s], who[s]>> \in file.invites

(* Mutants: the cached document is changed instead of the file's; the invite *)
(* is not removed.                                                           *)
RedeemCached(d, i, v, t) == [memory EXCEPT !.users[i] = t, !.invites = @ \ {<<v, i>>}]

RedeemKeepsInvite(d, i, v, t) == [d EXCEPT !.users[i] = t]

(* What Enroll writes: the new token's hash, without the invite.             *)
Redeem(d, i, v, t) ==
  [d EXCEPT !.users[i] = t, !.invites = @ \ {<<v, i>>}]

(* Enroll takes the mutex, reads the file and checks the invite again; one   *)
(* that was used or replaced since is refused.                               *)
Enroll(s) ==
  /\ pc[s] = "invited"
  /\ mu = Unlocked /\ MayWrite(s)
  /\ \/ /\ ValidInvite(s)
        /\ drawn < MaxSecrets
        /\ drawn' = drawn + 1
        /\ Begin(s, who[s], Redeem(file, who[s], invite[s], drawn + 1))
        /\ mu' = s
     \/ /\ ~ValidInvite(s)
        /\ pc' = [pc EXCEPT ![s] = "idle"]
        /\ UNCHANGED <<mu, who, doc, drawn>>
  /\ UNCHANGED <<file, memory, invite, histVars>>

(* The rename, or a write error that ends the request.                       *)
EnrollWrite(s) ==
  /\ s \in Sessions /\ Writing(s)
  /\ \/ file' = doc[s] /\ pc' = [pc EXCEPT ![s] = "answering"] /\ UNCHANGED mu
     \/ pc' = [pc EXCEPT ![s] = "idle"] /\ mu' = Unlocked /\ UNCHANGED file
  /\ UNCHANGED <<memory, who, invite, doc, drawn, histVars>>

(* Mutant: the gateway's copy is not replaced.                               *)
RefreshNothing(s) == UNCHANGED memory

Refresh(s) == memory' = doc[s]

EnrollAnswer(s) ==
  /\ pc[s] = "answering"
  /\ Refresh(s)
  /\ mu' = Unlocked
  /\ issued' = [issued EXCEPT ![who[s]] = doc[s].users[who[s]]]
  /\ redeemed' = redeemed \cup {<<invite[s], doc[s].users[who[s]]>>}
  /\ pc' = [pc EXCEPT ![s] = "idle"]
  /\ UNCHANGED <<file, who, invite, doc, drawn, given, granted>>

(* AuthenticateToken compares with the gateway's copy and does not reload.   *)
AuthenticateToken(i, t) == t # NoToken /\ memory.users[i] = t

(* Services and ResolveService reload before they answer.                    *)
Reload ==
  /\ mu = Unlocked
  /\ memory' = file
  /\ UNCHANGED <<file, procVars, drawn, histVars>>

(* The gateway is restarted: sessions are gone, the file is loaded.  A token *)
(* that was stored and not answered is lost to its owner, and its            *)
(* predecessor no longer works.                                              *)
Restart ==
  /\ pc' = [p \in Processes |-> IF p \in Sessions THEN "idle" ELSE pc[p]]
  /\ mu' = Unlocked
  /\ memory' = file
  /\ issued' = [i \in Identities |->
                  IF \E s \in Sessions : pc[s] = "answering" /\ who[s] = i
                  THEN NoToken ELSE issued[i]]
  /\ UNCHANGED <<file, who, invite, doc, drawn, given, redeemed, granted>>

Next ==
  \/ \E a \in Admins, i \in Identities : CreateInvite(a, i) \/ GrantService(a, i)
  \/ \E a \in Admins : AdminWrite(a)
  \/ \E s \in Sessions, x \in given : AuthenticateInvite(s, x)
  \/ \E s \in Sessions : Enroll(s) \/ EnrollWrite(s) \/ EnrollAnswer(s)
  \/ Reload
  \/ Restart

Spec == Init /\ [][Next]_vars

-----------------------------------------------------------------------------
(* An invite works once, also when two connections present it at the same    *)
(* time and both pass AuthenticateInvite, and across restarts.               *)
InviteWorksOnce ==
  \A x, y \in redeemed : x[1] = y[1] => x = y

(* A token that a developer was given logs in until the next enrolment of    *)
(* the identity: it is in the file, and in the copy that AuthenticateToken   *)
(* uses without reloading.                                                   *)
IssuedTokenWorks ==
  \A i \in Identities :
    issued[i] # NoToken /\ (\A s \in Sessions : ~(pc[s] = "answering" /\ who[s] = i)) =>
      /\ file.users[i] = issued[i]
      /\ AuthenticateToken(i, issued[i])

(* A grant whose command succeeded is not undone by another writer.          *)
GrantsAreKept == granted \subseteq file.grants

-----------------------------------------------------------------------------
(* The inductive invariant of a single writer.  An invite is dead once the   *)
(* file without it was renamed into place: no document, in the file or about *)
(* to be written, holds it again.                                            *)
Answering(s) == pc[s] = "answering"

Dead(v) ==
  \/ \E x \in redeemed : x[1] = v
  \/ \E s \in Sessions : Answering(s) /\ invite[s] = v

Documents ==
  [users : [Identities -> Secrets \cup {NoToken}],
   invites : SUBSET (Secrets \X Identities),
   grants : SUBSET Identities]

(* The type invariant of the credential file's module.                       *)
CredentialsTypeOK ==
  /\ file \in Documents /\ memory \in Documents
  /\ mu \in Sessions \cup {Unlocked}
  /\ pc \in [Processes -> {"idle", "invited", "writing", "answering"}]
  /\ who \in [Processes -> Identities]
  /\ invite \in [Sessions -> 0..MaxSecrets]
  /\ doc \in [Processes -> Documents]
  /\ drawn \in 0..MaxSecrets
  /\ given \in SUBSET (Secrets \X Identities)
  /\ issued \in [Identities -> Secrets \cup {NoToken}]
  /\ redeemed \in SUBSET ((0..MaxSecrets) \X (Secrets \cup {NoToken}))
  /\ granted \in SUBSET Identities

(* The gateway's mutex, and the operator's rule for everybody.               *)
WriterInv ==
  /\ \A s \in Sessions : Writing(s) \/ Answering(s) => mu = s
  /\ \A a \in Admins : ~Answering(a)
  /\ \A p, q \in Processes : Writing(p) /\ Writing(q) => p = q

(* What a document about to be written changes of the file.                  *)
AdminDoc(a) ==
  /\ doc[a].users = file.users
  /\ file.grants \subseteq doc[a].grants

EnrollDoc(s) ==
  /\ \A i \in Identities \ {who[s]} : doc[s].users[i] = file.users[i]
  /\ doc[s].grants = file.grants
  /\ ValidInvite(s)
  /\ \A x \in doc[s].invites : x[1] # invite[s]

DocInv ==
  /\ \A a \in Admins : Writing(a) => AdminDoc(a)
  /\ \A s \in Sessions : Writing(s) => EnrollDoc(s)
  /\ \A s \in Sessions : Answering(s) => doc[s].users = file.users

(* A document holds live invites, each of one identity.                      *)
LiveInvites(d) ==
  /\ \A x \in d.invites : ~Dead(x[1]) /\ x[1] <= drawn
  /\ \A x, y \in d.invites : x[1] = y[1] => x = y

InviteInv ==
  /\ LiveInvites(file)
  /\ \A p \in Processes : Writing(p) => LiveInvites(doc[p])
  /\ \A v \in 0..MaxSecrets : Dead(v) => v <= drawn
  /\ \A s \in Sessions : Answering(s) => \A x \in redeemed : x[1] # invite[s]

(* The cached tokens are the file's, except an identity's whose enrolment is *)
(* stored and not answered.                                                  *)
CopyInv ==
  \A i \in Identities :
    (\A s \in Sessions : ~(Answering(s) /\ who[s] = i)) => memory.users[i] = file.users[i]

CredentialsInv ==
  /\ CredentialsTypeOK /\ WriterInv /\ DocInv /\ InviteInv /\ CopyInv
  /\ InviteWorksOnce /\ IssuedTokenWorks /\ GrantsAreKept

=============================================================================
