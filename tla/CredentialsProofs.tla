--------------------------- MODULE CredentialsProofs ---------------------------
(* Proofs about Credentials, for any number of sessions, commands and        *)
(* identities, under the documentation's rule of a single writer.            *)
EXTENDS Credentials, TLAPS

(* What the administrative commands and Enroll make of a document.           *)
LEMMA WithInviteDoc ==
  ASSUME NEW d \in Documents, NEW i \in Identities, NEW v \in Secrets
  PROVE  /\ WithInvite(d, i, v) \in Documents
         /\ WithInvite(d, i, v).users = d.users
         /\ WithInvite(d, i, v).grants = d.grants
         /\ \A x \in WithInvite(d, i, v).invites : x \in d.invites \/ x = <<v, i>>
<1>1. {x \in d.invites : x[2] # i} \cup {<<v, i>>} \in SUBSET (Secrets \X Identities)
  BY DEF Documents
<1>2. QED
  BY <1>1 DEF WithInvite, Documents

(* GrantService adds a grant and keeps the rest.                             *)
LEMMA WithGrantDoc ==
  ASSUME NEW d \in Documents, NEW i \in Identities
  PROVE  /\ [d EXCEPT !.grants = @ \cup {i}] \in Documents
         /\ [d EXCEPT !.grants = @ \cup {i}].users = d.users
         /\ [d EXCEPT !.grants = @ \cup {i}].invites = d.invites
         /\ d.grants \subseteq [d EXCEPT !.grants = @ \cup {i}].grants
  BY DEF Documents

(* Enroll replaces one token and removes one invite.                         *)
LEMMA RedeemDoc ==
  ASSUME NEW d \in Documents, NEW i \in Identities, NEW v \in 0..MaxSecrets, NEW t \in Secrets
  PROVE  /\ Redeem(d, i, v, t) \in Documents
         /\ \A j \in Identities \ {i} : Redeem(d, i, v, t).users[j] = d.users[j]
         /\ Redeem(d, i, v, t).invites = d.invites \ {<<v, i>>}
         /\ Redeem(d, i, v, t).grants = d.grants
<1> DEFINE r == Redeem(d, i, v, t)
<1>1. d.users \in [Identities -> Secrets \cup {NoToken}]
  BY DEF Documents
<1>2. r.users = [d.users EXCEPT ![i] = t]
  BY DEF Redeem, Documents
<1>3. r.invites = d.invites \ {<<v, i>>} /\ r.grants = d.grants
  BY DEF Redeem, Documents
<1>4. r \in Documents
  BY DEF Redeem, Documents
<1>5. QED
  BY <1>1, <1>2, <1>3, <1>4

(* The initial state satisfies the inductive invariant.                      *)
LEMMA InitCredentials == Init => CredentialsInv
<1> SUFFICES ASSUME Init PROVE CredentialsInv
  OBVIOUS
<1>1. PICK g \in Identities : file = [Empty EXCEPT !.grants = {g}]
  BY DEF Init
<1>2. Empty \in Documents
  BY DEF Empty, Documents
<1>3. file \in Documents
  BY <1>1, <1>2 DEF Documents
<1>4. (CHOOSE i \in Identities : TRUE) \in Identities
  BY <1>1
<1>5. file.invites = {}
  BY <1>1 DEF Empty
<1>6. CredentialsTypeOK
  BY <1>2, <1>3, <1>4, SecretAssumption DEF Init, CredentialsTypeOK, Secrets
<1>7. \A p \in Processes : pc[p] = "idle"
  BY DEF Init
<1>8. WriterInv /\ DocInv
  BY <1>7 DEF WriterInv, DocInv, Writing, Answering, Processes
<1>9. InviteInv /\ CopyInv
  BY <1>5, <1>7 DEF Init, InviteInv, LiveInvites, Dead, CopyInv, Writing, Answering, Processes
<1>10. InviteWorksOnce /\ IssuedTokenWorks /\ GrantsAreKept
  BY DEF Init, InviteWorksOnce, IssuedTokenWorks, GrantsAreKept
<1>11. QED
  BY <1>6, <1>8, <1>9, <1>10 DEF CredentialsInv

-----------------------------------------------------------------------------
(* A command starts to write: nothing but its own document changes.          *)
LEMMA AdminBegins ==
  ASSUME CredentialsInv, SingleWriter,
         NEW a \in Admins, NEW i \in Identities, NEW STATE d, d \in Documents,
         d.users = file.users, file.grants \subseteq d.grants,
         drawn' \in 0..MaxSecrets, drawn <= drawn',
         \A x \in d.invites : ~Dead(x[1]) /\ x[1] <= drawn',
         \A x, y \in d.invites : x[1] = y[1] => x = y,
         pc[a] = "idle", MayWrite(a), Begin(a, i, d),
         UNCHANGED <<file, memory, mu, invite, histVars>>
  PROVE  CredentialsInv'
<1> USE DEF CredentialsInv, histVars
<1>1. a \in Processes /\ a \notin Sessions
  BY WriterAssumption DEF Processes
<1>2. CredentialsTypeOK'
  BY <1>1 DEF CredentialsTypeOK, Begin
<1>3. /\ pc' = [pc EXCEPT ![a] = "writing"]
      /\ doc' = [doc EXCEPT ![a] = d]
      /\ \A s \in Sessions : pc'[s] = pc[s] /\ who'[s] = who[s] /\ doc'[s] = doc[s]
      /\ pc'[a] = "writing" /\ doc'[a] = d
  BY <1>1 DEF CredentialsTypeOK, Begin, Processes
<1>4. \A q \in Processes : Writing(q)' => q = a
  BY <1>1, <1>3 DEF CredentialsTypeOK, MayWrite, Writing
<1>5. WriterInv'
  BY <1>1, <1>3, <1>4 DEF WriterInv, Writing, Answering, CredentialsTypeOK, Processes
<1>6. DocInv'
  BY <1>1, <1>3, <1>4 DEF DocInv, AdminDoc, EnrollDoc, ValidInvite, Writing, Answering, Processes
<1>7. \A v : Dead(v)' <=> Dead(v)
  BY <1>3 DEF Dead, Answering
<1>8. LiveInvites(file)'
  <2>1. \A x \in file.invites : x[1] \in Nat
    BY DEF CredentialsTypeOK, Documents, Secrets
  <2>2. QED
    BY <1>7, <2>1, SecretAssumption DEF LiveInvites, InviteInv, CredentialsTypeOK
<1>9. \A p \in Processes : Writing(p)' => LiveInvites(doc[p])'
  BY <1>3, <1>4, <1>7 DEF LiveInvites
<1>13. InviteInv'
  BY <1>3, <1>7, <1>8, <1>9, SecretAssumption DEF InviteInv, Answering, CredentialsTypeOK
<1>10. CopyInv' /\ IssuedTokenWorks'
  BY <1>3 DEF CopyInv, IssuedTokenWorks, AuthenticateToken, Answering
<1>11. InviteWorksOnce' /\ GrantsAreKept'
  BY DEF InviteWorksOnce, GrantsAreKept
<1>12. QED
  BY <1>2, <1>5, <1>6, <1>13, <1>10, <1>11

(* CreateInvite's new invite was never drawn before.                         *)
LEMMA CreateInviteStep ==
  ASSUME CredentialsInv, SingleWriter,
         NEW a \in Admins, NEW i \in Identities, CreateInvite(a, i)
  PROVE  CredentialsInv'
<1> DEFINE d == WithInvite(file, i, drawn + 1)
<1>1. drawn \in Nat /\ drawn + 1 \in Secrets /\ file \in Documents
  BY SecretAssumption DEF CreateInvite, CredentialsInv, CredentialsTypeOK, Secrets
<1>2. /\ d \in Documents /\ d.users = file.users /\ d.grants = file.grants
      /\ \A x \in d.invites : x \in file.invites \/ x = <<drawn + 1, i>>
  BY <1>1, WithInviteDoc
<1> HIDE DEF d
<1>3. \A x \in file.invites : x \in Secrets \X Identities /\ x[1] <= drawn /\ ~Dead(x[1])
  BY <1>1 DEF Documents, CredentialsInv, InviteInv, LiveInvites
<1>4. ~Dead(drawn + 1)
  BY <1>1, SecretAssumption DEF CredentialsInv, InviteInv, Secrets
<1>5. \A x \in d.invites : ~Dead(x[1]) /\ x[1] <= drawn + 1
  BY <1>1, <1>2, <1>3, <1>4 DEF Secrets
<1>6. \A x, y \in d.invites : x[1] = y[1] => x = y
  BY <1>1, <1>2, <1>3 DEF CredentialsInv, InviteInv, LiveInvites, Secrets
<1>7. drawn' = drawn + 1 /\ drawn' \in 0..MaxSecrets /\ drawn <= drawn'
  BY <1>1, SecretAssumption DEF CreateInvite, Secrets
<1>8. /\ pc[a] = "idle" /\ MayWrite(a) /\ Begin(a, i, d)
      /\ UNCHANGED <<file, memory, mu, invite, histVars>>
  BY DEF CreateInvite, d
<1>9. QED
  BY <1>2, <1>5, <1>6, <1>7, <1>8, AdminBegins

(* GrantService writes the same invites back.                                *)
LEMMA GrantServiceStep ==
  ASSUME CredentialsInv, SingleWriter,
         NEW a \in Admins, NEW i \in Identities, GrantService(a, i)
  PROVE  CredentialsInv'
<1> DEFINE d == [file EXCEPT !.grants = @ \cup {i}]
<1>1. file \in Documents /\ drawn \in 0..MaxSecrets
  BY DEF CredentialsInv, CredentialsTypeOK
<1>2. d \in Documents /\ d.users = file.users /\ d.invites = file.invites /\ file.grants \subseteq d.grants
  BY <1>1, WithGrantDoc
<1>3. /\ pc[a] = "idle" /\ MayWrite(a) /\ Begin(a, i, d)
      /\ UNCHANGED <<file, memory, mu, invite, drawn, histVars>>
  BY DEF GrantService
<1> HIDE DEF d
<1>4. drawn' = drawn /\ drawn' \in 0..MaxSecrets /\ drawn <= drawn'
  BY <1>1, <1>3, SecretAssumption
<1>5. /\ \A x \in d.invites : ~Dead(x[1]) /\ x[1] <= drawn'
      /\ \A x, y \in d.invites : x[1] = y[1] => x = y
  BY <1>2, <1>4 DEF CredentialsInv, InviteInv, LiveInvites
<1>6. QED
  BY <1>2, <1>3, <1>4, <1>5, AdminBegins

-----------------------------------------------------------------------------
(* A command's rename: no other document was read from the file it replaces. *)
LEMMA AdminWriteStep ==
  ASSUME CredentialsInv, NEW a \in Admins, AdminWrite(a)
  PROVE  CredentialsInv'
<1>1. a \in Processes /\ a \notin Sessions
  BY WriterAssumption DEF Processes
<1>2. /\ pc' = [pc EXCEPT ![a] = "idle"]
      /\ pc'[a] = "idle"
      /\ \A p \in Processes \ {a} : pc'[p] = pc[p]
      /\ \A s \in Sessions : pc'[s] = pc[s]
      /\ UNCHANGED <<memory, mu, who, invite, doc, drawn, issued, redeemed>>
  BY <1>1 DEF AdminWrite, CredentialsInv, CredentialsTypeOK, Processes
<1>3. \A p \in Processes : ~Writing(p)'
  BY <1>1, <1>2 DEF AdminWrite, CredentialsInv, WriterInv, Writing
<1>4. doc[a] \in Documents /\ AdminDoc(a) /\ LiveInvites(doc[a])
  BY <1>1 DEF AdminWrite, CredentialsInv, CredentialsTypeOK, DocInv, InviteInv
<1>5. /\ file' \in {file, doc[a]} /\ file' \in Documents
      /\ file'.users = file.users /\ file.grants \subseteq file'.grants
  BY <1>4 DEF AdminWrite, AdminDoc, CredentialsInv, CredentialsTypeOK
<1>6. granted' \subseteq file'.grants /\ granted' \in SUBSET Identities
  BY <1>4, <1>5 DEF AdminWrite, AdminDoc, CredentialsInv, CredentialsTypeOK, GrantsAreKept, Documents
<1>7. CredentialsTypeOK'
  <2>1. given' \in SUBSET (Secrets \X Identities)
    BY <1>4 DEF AdminWrite, CredentialsInv, CredentialsTypeOK, Documents
  <2>2. QED
    BY <1>1, <1>2, <1>5, <1>6, <2>1 DEF CredentialsInv, CredentialsTypeOK
<1>8. WriterInv'
  BY <1>1, <1>2, <1>3 DEF CredentialsInv, WriterInv, Answering, Processes
<1>9. DocInv'
  BY <1>2, <1>3, <1>5 DEF CredentialsInv, DocInv, Answering, Processes
<1>10. \A v : Dead(v)' <=> Dead(v)
  BY <1>2 DEF Dead, Answering
<1>11. LiveInvites(file)'
  BY <1>2, <1>4, <1>5, <1>10 DEF CredentialsInv, InviteInv, LiveInvites
<1>12. InviteInv'
  BY <1>2, <1>3, <1>10, <1>11 DEF CredentialsInv, InviteInv, Answering
<1>13. CopyInv' /\ IssuedTokenWorks'
  BY <1>2, <1>5 DEF CredentialsInv, CopyInv, IssuedTokenWorks, AuthenticateToken, Answering
<1>14. InviteWorksOnce' /\ GrantsAreKept'
  BY <1>2, <1>6 DEF CredentialsInv, InviteWorksOnce, GrantsAreKept
<1>15. QED
  BY <1>7, <1>8, <1>9, <1>12, <1>13, <1>14 DEF CredentialsInv

(* A reload makes the cached copy the file's.                                *)
LEMMA ReloadStep ==
  ASSUME CredentialsInv, Reload
  PROVE  CredentialsInv'
<1> USE DEF CredentialsInv, Reload, procVars, histVars
<1>1. CredentialsTypeOK'
  BY DEF CredentialsTypeOK
<1>2. WriterInv' /\ DocInv'
  BY DEF WriterInv, DocInv, AdminDoc, EnrollDoc, ValidInvite, Writing, Answering
<1>3. \A v : Dead(v)' <=> Dead(v)
  BY DEF Dead, Answering
<1>4. LiveInvites(file)' /\ \A p \in Processes : LiveInvites(doc[p]) => LiveInvites(doc[p])'
  BY <1>3 DEF InviteInv, LiveInvites
<1>5. InviteInv'
  BY <1>3, <1>4 DEF InviteInv, Writing, Answering
<1>6. CopyInv' /\ IssuedTokenWorks' /\ InviteWorksOnce' /\ GrantsAreKept'
  BY DEF CopyInv, IssuedTokenWorks, InviteWorksOnce, GrantsAreKept, AuthenticateToken, Answering
<1>7. QED
  BY <1>1, <1>2, <1>5, <1>6

(* A restart ends every session; a stored token that was not answered counts *)
(* as issued to nobody.                                                      *)
LEMMA RestartStep ==
  ASSUME CredentialsInv, Restart
  PROVE  CredentialsInv'
<1>1. /\ \A s \in Sessions : pc'[s] = "idle"
      /\ \A a \in Admins : pc'[a] = pc[a]
      /\ pc' \in [Processes -> {"idle", "invited", "writing", "answering"}]
  BY WriterAssumption DEF Restart, Processes, CredentialsInv, CredentialsTypeOK
<1>2. /\ mu' = Unlocked /\ memory' = file
      /\ UNCHANGED <<file, who, invite, doc, drawn, given, redeemed, granted>>
  BY DEF Restart
<1>3. \A p \in Processes : Writing(p)' => Writing(p) /\ p \in Admins
  BY <1>1 DEF Writing, Processes
<1>4. CredentialsTypeOK'
  <2>1. issued' \in [Identities -> Secrets \cup {NoToken}]
    BY DEF Restart, CredentialsInv, CredentialsTypeOK
  <2>2. QED
    BY <1>1, <1>2, <2>1 DEF CredentialsInv, CredentialsTypeOK
<1>5. WriterInv'
  BY <1>1, <1>2, <1>3 DEF CredentialsInv, WriterInv, Writing, Answering, Processes
<1>6. DocInv'
  BY <1>1, <1>2, <1>3 DEF CredentialsInv, DocInv, AdminDoc, Writing, Answering, Processes
<1>7. \A v : Dead(v)' => Dead(v)
  BY <1>1, <1>2 DEF Dead, Answering
<1>8. LiveInvites(file)' /\ \A p \in Processes : LiveInvites(doc[p]) => LiveInvites(doc[p])'
  BY <1>2, <1>7 DEF CredentialsInv, InviteInv, LiveInvites
<1>9. InviteInv'
  BY <1>1, <1>2, <1>3, <1>7, <1>8 DEF CredentialsInv, InviteInv, Answering
<1>10. CopyInv'
  BY <1>2 DEF CopyInv
<1>11. IssuedTokenWorks'
  <2> SUFFICES ASSUME NEW i \in Identities, issued'[i] # NoToken
               PROVE  file.users[i] = issued'[i]
    BY <1>2 DEF IssuedTokenWorks, AuthenticateToken
  <2>1. issued'[i] = issued[i] /\ \A s \in Sessions : ~(pc[s] = "answering" /\ who[s] = i)
    BY DEF Restart
  <2>2. QED
    BY <2>1 DEF CredentialsInv, IssuedTokenWorks
<1>12. InviteWorksOnce' /\ GrantsAreKept'
  BY <1>2 DEF CredentialsInv, InviteWorksOnce, GrantsAreKept
<1>13. QED
  BY <1>4, <1>5, <1>6, <1>9, <1>10, <1>11, <1>12 DEF CredentialsInv

-----------------------------------------------------------------------------
(* A session that goes back to idle, or on to invited, without a document to *)
(* answer for leaves everybody else's work alone.  Its presented invite may  *)
(* change while it is not writing.                                           *)
LEMMA SessionMoves ==
  ASSUME CredentialsInv, NEW s \in Sessions, NEW k \in {"idle", "invited"},
         ~Answering(s),
         CredentialsTypeOK',
         pc' = [pc EXCEPT ![s] = k],
         \A q \in Processes \ {s} : who'[q] = who[q],
         \A q \in Sessions \ {s} : invite'[q] = invite[q],
         mu' = mu \/ (mu = s /\ mu' = Unlocked),
         memory' \in {file, memory},
         UNCHANGED <<file, doc, drawn, issued, redeemed, granted>>
  PROVE  CredentialsInv'
<1>1. s \in Processes
  BY DEF Processes
<1>2. /\ pc'[s] = k
      /\ \A q \in Processes \ {s} : pc'[q] = pc[q]
  BY <1>1 DEF CredentialsInv, CredentialsTypeOK
<1>3. \A q \in Processes : (Writing(q)' <=> Writing(q) /\ q # s) /\ (Answering(q)' <=> Answering(q))
  BY <1>2 DEF Writing, Answering
<1>4. WriterInv'
  BY <1>3 DEF CredentialsInv, WriterInv, Processes
<1>5. DocInv'
  BY <1>3 DEF CredentialsInv, DocInv, AdminDoc, EnrollDoc, ValidInvite, Processes
<1>6. \A v : Dead(v)' <=> Dead(v)
  BY <1>3 DEF Dead, Processes
<1>7. LiveInvites(file)' /\ \A p \in Processes : LiveInvites(doc[p]) => LiveInvites(doc[p])'
  BY <1>6 DEF CredentialsInv, InviteInv, LiveInvites
<1>8. InviteInv'
  BY <1>3, <1>6, <1>7 DEF CredentialsInv, InviteInv, Processes
<1>9. \A i \in Identities :
        (\A q \in Sessions : ~(Answering(q)' /\ who'[q] = i)) =>
          \A q \in Sessions : ~(Answering(q) /\ who[q] = i)
  BY <1>3 DEF Processes
<1>10. CopyInv'
  BY <1>9 DEF CredentialsInv, CopyInv
<1>11. IssuedTokenWorks'
  BY <1>9 DEF CredentialsInv, IssuedTokenWorks, AuthenticateToken, Answering
<1>12. InviteWorksOnce' /\ GrantsAreKept'
  BY DEF CredentialsInv, InviteWorksOnce, GrantsAreKept
<1>13. QED
  BY <1>4, <1>5, <1>8, <1>10, <1>11, <1>12 DEF CredentialsInv

(* Accepting an invite commits the session to nothing but a reload.          *)
LEMMA AuthenticateInviteStep ==
  ASSUME CredentialsInv, NEW s \in Sessions, NEW x \in given, AuthenticateInvite(s, x)
  PROVE  CredentialsInv'
<1>1. s \in Processes
  BY DEF Processes
<1>2. x \in Secrets \X Identities /\ x[1] \in 0..MaxSecrets /\ x[2] \in Identities
  BY SecretAssumption DEF CredentialsInv, CredentialsTypeOK, Secrets
<1>3. CredentialsTypeOK'
  BY <1>1, <1>2 DEF AuthenticateInvite, histVars, CredentialsInv, CredentialsTypeOK
<1>4. /\ \A q \in Processes \ {s} : who'[q] = who[q]
      /\ \A q \in Sessions \ {s} : invite'[q] = invite[q]
  BY DEF AuthenticateInvite, CredentialsInv, CredentialsTypeOK
<1>5. ~Answering(s)
  BY DEF AuthenticateInvite, Answering
<1>6. QED
  BY <1>3, <1>4, <1>5, SessionMoves DEF AuthenticateInvite, histVars

(* Enroll starts to write: with the mutex free and no other writer, its      *)
(* document differs from the file by one token and one invite.               *)
LEMMA EnrollBegins ==
  ASSUME CredentialsInv, SingleWriter, NEW s \in Sessions,
         pc[s] = "invited", mu = Unlocked, MayWrite(s), ValidInvite(s),
         drawn < MaxSecrets, drawn' = drawn + 1,
         Begin(s, who[s], Redeem(file, who[s], invite[s], drawn + 1)),
         mu' = s, UNCHANGED <<file, memory, invite, histVars>>
  PROVE  CredentialsInv'
<1> DEFINE d == Redeem(file, who[s], invite[s], drawn + 1)
<1>1. /\ s \in Processes /\ who[s] \in Identities /\ invite[s] \in 0..MaxSecrets
      /\ drawn \in Nat /\ drawn + 1 \in Secrets /\ file \in Documents
  BY SecretAssumption DEF CredentialsInv, CredentialsTypeOK, Secrets, Processes
<1>2. /\ d \in Documents
      /\ \A j \in Identities \ {who[s]} : d.users[j] = file.users[j]
      /\ d.invites = file.invites \ {<<invite[s], who[s]>>}
      /\ d.grants = file.grants
  BY <1>1, RedeemDoc
<1>3. Begin(s, who[s], d)
  OBVIOUS
<1> HIDE DEF d
<1>4. /\ pc'[s] = "writing" /\ doc'[s] = d
      /\ \A q \in Processes \ {s} : pc'[q] = pc[q] /\ doc'[q] = doc[q]
      /\ who' = who
  BY <1>1, <1>3 DEF CredentialsInv, CredentialsTypeOK, Begin
<1>5. CredentialsTypeOK'
  BY <1>1, <1>2, <1>3, SecretAssumption DEF CredentialsInv, CredentialsTypeOK, Begin, histVars, Secrets
<1>6. \A q \in Processes : Writing(q)' <=> q = s
  BY <1>1, <1>4 DEF MayWrite, Writing
<1>7. \A q \in Sessions : ~Answering(q) /\ ~Answering(q)'
  BY <1>4, WriterAssumption DEF CredentialsInv, WriterInv, Answering, Processes
<1>8. WriterInv'
  BY <1>1, <1>4, <1>6, <1>7, WriterAssumption DEF CredentialsInv, WriterInv, Answering, Processes
<1>9. \A x \in file.invites : x \in Secrets \X Identities /\ x[1] <= drawn
  BY <1>1 DEF CredentialsInv, InviteInv, LiveInvites, Documents
<1>10. \A x \in d.invites : x[1] # invite[s]
  BY <1>2, <1>9 DEF CredentialsInv, InviteInv, LiveInvites, ValidInvite
<1>11. DocInv'
  BY <1>1, <1>2, <1>4, <1>6, <1>7, <1>10, WriterAssumption
    DEF DocInv, EnrollDoc, ValidInvite, Processes
<1>12. \A v : Dead(v)' <=> Dead(v)
  BY <1>7 DEF Dead, histVars
<1>13. \A x \in file.invites : ~Dead(x[1])' /\ x[1] <= drawn'
  BY <1>1, <1>9, <1>12 DEF CredentialsInv, InviteInv, LiveInvites, Secrets
<1>14. LiveInvites(file)' /\ LiveInvites(doc[s])'
  BY <1>2, <1>4, <1>13 DEF CredentialsInv, InviteInv, LiveInvites
<1>15. InviteInv'
  BY <1>1, <1>6, <1>7, <1>12, <1>14, SecretAssumption DEF CredentialsInv, InviteInv
<1>16. CopyInv' /\ IssuedTokenWorks'
  BY <1>4, <1>7 DEF CredentialsInv, CopyInv, IssuedTokenWorks, AuthenticateToken, Answering, histVars
<1>17. InviteWorksOnce' /\ GrantsAreKept'
  BY DEF CredentialsInv, InviteWorksOnce, GrantsAreKept, histVars
<1>18. QED
  BY <1>5, <1>8, <1>11, <1>15, <1>16, <1>17 DEF CredentialsInv

(* Enroll begins to write, or refuses an invite that is no longer stored.    *)
LEMMA EnrollStep ==
  ASSUME CredentialsInv, SingleWriter, NEW s \in Sessions, Enroll(s)
  PROVE  CredentialsInv'
<1>1. CASE mu' = s
  <2>1. ValidInvite(s) /\ drawn < MaxSecrets
    BY <1>1, WriterAssumption DEF Enroll
  <2>2. QED
    BY <1>1, <2>1, EnrollBegins DEF Enroll
<1>2. CASE ~ValidInvite(s)
  <2>1. CredentialsTypeOK'
    BY <1>2 DEF Enroll, histVars, CredentialsInv, CredentialsTypeOK, Processes
  <2>2. ~Answering(s)
    BY DEF Enroll, Answering
  <2>3. /\ pc' = [pc EXCEPT ![s] = "idle"]
        /\ UNCHANGED <<file, memory, mu, who, invite, doc, drawn, issued, redeemed, granted>>
    BY <1>2 DEF Enroll, histVars
  <2>4. QED
    BY <2>1, <2>2, <2>3, SessionMoves
<1>3. QED
  BY <1>1, <1>2 DEF Enroll

(* The rename kills the invite before the session answers.                   *)
LEMMA EnrollRenames ==
  ASSUME CredentialsInv, NEW s \in Sessions, Writing(s),
         file' = doc[s], pc' = [pc EXCEPT ![s] = "answering"],
         UNCHANGED <<mu, memory, who, invite, doc, drawn, histVars>>
  PROVE  CredentialsInv'
<1>1. s \in Processes /\ doc[s] \in Documents /\ invite[s] \in 0..MaxSecrets /\ who[s] \in Identities
  BY DEF CredentialsInv, CredentialsTypeOK, Processes
<1>2. /\ pc'[s] = "answering"
      /\ \A q \in Processes \ {s} : pc'[q] = pc[q]
  BY <1>1 DEF CredentialsInv, CredentialsTypeOK
<1>3. mu = s /\ EnrollDoc(s) /\ LiveInvites(doc[s])
  BY <1>1 DEF CredentialsInv, WriterInv, DocInv, InviteInv
<1>4. \A q \in Processes : ~Writing(q)'
  BY <1>1, <1>2 DEF CredentialsInv, WriterInv, Writing
<1>5. \A q \in Sessions : ~Answering(q) /\ (Answering(q)' <=> q = s)
  BY <1>1, <1>2, <1>3 DEF CredentialsInv, WriterInv, Writing, Answering, Processes
<1>6. CredentialsTypeOK'
  BY <1>1 DEF CredentialsInv, CredentialsTypeOK, histVars
<1>7. WriterInv'
  BY <1>2, <1>3, <1>4, <1>5, WriterAssumption DEF CredentialsInv, WriterInv, Answering, Processes
<1>8. DocInv'
  BY <1>4, <1>5 DEF DocInv, Processes
<1>9. \A v : Dead(v)' <=> Dead(v) \/ v = invite[s]
  BY <1>5 DEF Dead, histVars
<1>10. ~Dead(invite[s]) /\ invite[s] <= drawn
  BY <1>3 DEF EnrollDoc, ValidInvite, CredentialsInv, InviteInv, LiveInvites
<1>11. \A x \in redeemed : x[1] # invite[s]
  BY <1>10 DEF Dead
<1>12. LiveInvites(file)'
  BY <1>3, <1>9 DEF LiveInvites, EnrollDoc
<1>13. InviteInv'
  BY <1>4, <1>5, <1>9, <1>10, <1>11, <1>12 DEF CredentialsInv, InviteInv, histVars
<1>14. \A i \in Identities :
         (\A q \in Sessions : ~(Answering(q)' /\ who'[q] = i)) =>
           /\ file'.users[i] = file.users[i]
           /\ \A q \in Sessions : ~(Answering(q) /\ who[q] = i)
  BY <1>3, <1>5 DEF EnrollDoc
<1>15. CopyInv'
  BY <1>14 DEF CredentialsInv, CopyInv
<1>16. IssuedTokenWorks'
  BY <1>14 DEF CredentialsInv, IssuedTokenWorks, AuthenticateToken, Answering, histVars
<1>17. InviteWorksOnce' /\ GrantsAreKept'
  BY <1>3 DEF CredentialsInv, InviteWorksOnce, GrantsAreKept, EnrollDoc, histVars
<1>18. QED
  BY <1>6, <1>7, <1>8, <1>13, <1>15, <1>16, <1>17 DEF CredentialsInv

(* A write that fails gives the mutex back and leaves the invite alive.      *)
LEMMA EnrollWriteStep ==
  ASSUME CredentialsInv, NEW s \in Sessions, EnrollWrite(s)
  PROVE  CredentialsInv'
<1>1. CASE file' = doc[s] /\ pc' = [pc EXCEPT ![s] = "answering"] /\ UNCHANGED mu
  BY <1>1, EnrollRenames DEF EnrollWrite
<1>2. CASE pc' = [pc EXCEPT ![s] = "idle"] /\ mu' = Unlocked /\ UNCHANGED file
  <2>1. mu = s /\ ~Answering(s)
    BY DEF EnrollWrite, CredentialsInv, WriterInv, Writing, Answering
  <2>2. CredentialsTypeOK'
    BY <1>2 DEF EnrollWrite, histVars, CredentialsInv, CredentialsTypeOK, Processes
  <2>3. QED
    BY <1>2, <2>1, <2>2, SessionMoves DEF EnrollWrite, histVars
<1>3. QED
  BY <1>1, <1>2 DEF EnrollWrite

(* The answer: the copy is the document, and the invite is redeemed for the  *)
(* first time.                                                               *)
LEMMA EnrollAnswerStep ==
  ASSUME CredentialsInv, NEW s \in Sessions, EnrollAnswer(s)
  PROVE  CredentialsInv'
<1> DEFINE t == doc[s].users[who[s]]
<1>1. /\ s \in Processes /\ doc[s] \in Documents /\ who[s] \in Identities
      /\ invite[s] \in 0..MaxSecrets
  BY DEF CredentialsInv, CredentialsTypeOK, Processes
<1>2. t \in Secrets \cup {NoToken}
  BY <1>1 DEF Documents
<1>3. /\ pc'[s] = "idle"
      /\ \A q \in Processes \ {s} : pc'[q] = pc[q]
      /\ memory' = doc[s] /\ mu' = Unlocked
      /\ UNCHANGED <<file, who, invite, doc, drawn, given, granted>>
  BY <1>1 DEF EnrollAnswer, Refresh, CredentialsInv, CredentialsTypeOK
<1>4. Answering(s) /\ mu = s /\ doc[s].users = file.users /\ \A x \in redeemed : x[1] # invite[s]
  BY DEF EnrollAnswer, Answering, CredentialsInv, WriterInv, DocInv, InviteInv
<1>5. \A q \in Sessions : (Answering(q) <=> q = s) /\ ~Answering(q)' /\ ~Writing(q)'
  BY <1>3, <1>4 DEF CredentialsInv, WriterInv, Writing, Answering, Processes
<1>6. redeemed' = redeemed \cup {<<invite[s], t>>} /\ issued' = [issued EXCEPT ![who[s]] = t]
  BY DEF EnrollAnswer
<1> HIDE DEF t
<1>7. CredentialsTypeOK'
  BY <1>1, <1>2, <1>3, <1>6 DEF EnrollAnswer, CredentialsInv, CredentialsTypeOK
<1>8. \A q \in Processes : Writing(q)' => Writing(q) /\ q \in Admins
  BY <1>3, <1>5 DEF Writing, Processes
<1>9. WriterInv'
  BY <1>3, <1>5, <1>8, WriterAssumption DEF CredentialsInv, WriterInv, Answering, Processes
<1>10. DocInv'
  BY <1>3, <1>5, <1>8 DEF CredentialsInv, DocInv, AdminDoc, Processes
<1>11. \A v : Dead(v)' <=> Dead(v)
  <2> DEFINE z == <<invite[s], t>>
  <2>1. z \in redeemed' /\ z[1] = invite[s] /\ redeemed \subseteq redeemed'
    BY <1>6
  <2>2. \A x \in redeemed' : x \in redeemed \/ x[1] = invite[s]
    BY <1>6
  <2> HIDE DEF z
  <2>3. \A v : (\E x \in redeemed' : x[1] = v) <=> (\E x \in redeemed : x[1] = v) \/ v = invite[s]
    BY <2>1, <2>2
  <2>4. QED
    BY <1>3, <1>5, <2>3 DEF Dead
<1>12. LiveInvites(file)' /\ \A p \in Processes : LiveInvites(doc[p]) => LiveInvites(doc[p])'
  BY <1>3, <1>11 DEF CredentialsInv, InviteInv, LiveInvites
<1>13. InviteInv'
  BY <1>3, <1>5, <1>8, <1>11, <1>12 DEF CredentialsInv, InviteInv
<1>14. CopyInv'
  BY <1>3, <1>4 DEF CopyInv
<1>15. IssuedTokenWorks'
  <2> SUFFICES ASSUME NEW i \in Identities, issued'[i] # NoToken
               PROVE  file.users[i] = issued'[i] /\ memory'.users[i] = issued'[i]
    BY <1>3 DEF IssuedTokenWorks, AuthenticateToken
  <2>1. CASE i = who[s]
    BY <1>1, <1>3, <1>4, <1>6, <2>1 DEF t, CredentialsInv, CredentialsTypeOK
  <2>2. CASE i # who[s]
    <3>1. issued'[i] = issued[i] /\ \A q \in Sessions : ~(pc[q] = "answering" /\ who[q] = i)
      BY <1>5, <1>6, <2>2 DEF Answering, CredentialsInv, CredentialsTypeOK
    <3>2. QED
      BY <1>3, <1>4, <3>1 DEF CredentialsInv, IssuedTokenWorks
  <2>3. QED
    BY <2>1, <2>2
<1>16. InviteWorksOnce'
  BY <1>4, <1>6 DEF CredentialsInv, InviteWorksOnce
<1>17. GrantsAreKept'
  BY <1>3 DEF CredentialsInv, GrantsAreKept
<1>18. QED
  BY <1>7, <1>9, <1>10, <1>13, <1>14, <1>15, <1>16, <1>17 DEF CredentialsInv

-----------------------------------------------------------------------------
(* Every step of a single writer preserves the inductive invariant.          *)
LEMMA NextCredentials ==
  ASSUME SingleWriter, CredentialsInv, [Next]_vars
  PROVE  CredentialsInv'
<1>1. CASE UNCHANGED vars
  <2> USE <1>1 DEF CredentialsInv, vars, procVars, histVars
  <2>1. CredentialsTypeOK' /\ WriterInv'
    BY DEF CredentialsTypeOK, WriterInv, Writing, Answering
  <2>2. DocInv' /\ CopyInv'
    BY DEF DocInv, AdminDoc, EnrollDoc, ValidInvite, CopyInv, Writing, Answering
  <2>3. InviteInv'
    BY DEF InviteInv, LiveInvites, Dead, Writing, Answering
  <2>4. InviteWorksOnce' /\ IssuedTokenWorks' /\ GrantsAreKept'
    BY DEF InviteWorksOnce, IssuedTokenWorks, GrantsAreKept, AuthenticateToken
  <2>5. QED
    BY <2>1, <2>2, <2>3, <2>4
<1>2. QED
  BY <1>1, CreateInviteStep, GrantServiceStep, AdminWriteStep, AuthenticateInviteStep,
     EnrollStep, EnrollWriteStep, EnrollAnswerStep, ReloadStep, RestartStep DEF Next

(* The credential file's inductive invariant, under a single writer.         *)
THEOREM CredentialsInvariant == SingleWriter /\ Spec => []CredentialsInv
<1> SUFFICES ASSUME SingleWriter PROVE Spec => []CredentialsInv
  OBVIOUS
<1>1. CredentialsInv /\ [Next]_vars => CredentialsInv'
  BY NextCredentials
<1>2. QED
  BY <1>1, InitCredentials, PTL DEF Spec

(* An invite is redeemed at most once: two connections that present it at    *)
(* the same time both pass AuthenticateInvite, and Enroll's check under the  *)
(* mutex refuses the second, whatever the commands and restarts do.          *)
THEOREM InvitesWorkOnce == SingleWriter /\ Spec => []InviteWorksOnce
<1>1. CredentialsInv => InviteWorksOnce
  BY DEF CredentialsInv
<1>2. QED
  BY <1>1, CredentialsInvariant, PTL

(* A token that Enroll answered logs in until the identity enrols again,     *)
(* with the copy that AuthenticateToken never reloads.                       *)
THEOREM IssuedTokensWork == SingleWriter /\ Spec => []IssuedTokenWorks
<1>1. CredentialsInv => IssuedTokenWorks
  BY DEF CredentialsInv
<1>2. QED
  BY <1>1, CredentialsInvariant, PTL

(* No rename of another command or of Enroll undoes a grant that succeeded.  *)
THEOREM GrantsKept == SingleWriter /\ Spec => []GrantsAreKept
<1>1. CredentialsInv => GrantsAreKept
  BY DEF CredentialsInv
<1>2. QED
  BY <1>1, CredentialsInvariant, PTL

=============================================================================
