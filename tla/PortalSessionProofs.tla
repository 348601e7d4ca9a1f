------------------------ MODULE PortalSessionProofs ------------------------
(***************************************************************************)
(* Theorems about PortalSession, for any tabs, accounts and roles and any  *)
(* number of moves.                                                        *)
(***************************************************************************)
EXTENDS PortalSession, TLAPS

\* What handleSave and handleLogin keep until the answer comes.
Kept == \A r \in requests : /\ r.kind = "profile" => r.base \in Session
                            /\ r.kind = "login" => r.account \in Account

\* A token RequireAuth holds for valid is one the server confirmed.
HeldValid == \A t \in Tab : valid[t] => validated[t] \in confirmed[t]

IInv == TypeOK /\ Kept /\ HeldValid /\ ConfirmedPages

-----------------------------------------------------------------------------
\* The portal a user is sent to exists.
LEMMA PreferredIsPath == ASSUME NEW u \in User PROVE Preferred(u) \in Path
<1>1. Role[u.account] \in Roles
  BY RoleAssumption DEF User
<1>2. DefaultPortal(u) \in Portals
  BY <1>1 DEF DefaultPortal, Roles, Portals
<1>3. At(DefaultPortal(u), "dashboard") \in Path
  BY <1>2 DEF Guarded, Path
<1>4. Profile \in Path
  BY DEF Guarded, Path
<1>. QED BY <1>3, <1>4 DEF Preferred

LEMMA SomePaths == Login \in Path /\ Root \in Path /\ Guarded \subseteq Path
BY DEF Path

\* What getStoredSession returns is a session or nothing.
LEMMA StoredTyped == ASSUME TypeOK PROVE Stored \in Session \cup {None}
BY DEF TypeOK, Stored

LEMMA SessionParts == ASSUME NEW s \in Session PROVE s.token \in Token /\ s.user \in User
BY DEF Session

LEMMA IgnoredTyped == ASSUME TypeOK, NEW t \in Tab PROVE Ignored(t) \subseteq Check
<1>1. \A c \in Check : [c EXCEPT !.live = FALSE] \in Check
  BY DEF Check
<1>. QED BY <1>1 DEF TypeOK, Ignored

\* The checks of a tab after its effect.
LEMMA CheckedTyped ==
    ASSUME TypeOK, NEW t \in Tab
    PROVE Checked(t, TokenOf(Stored)) \subseteq Check
<1>1. ASSUME TokenOf(Stored) # None
      PROVE [tab |-> t, token |-> TokenOf(Stored), live |-> TRUE] \in Check
  BY <1>1, StoredTyped, SessionParts DEF TokenOf, Check
<1>. QED BY <1>1, IgnoredTyped DEF TypeOK, Checked

-----------------------------------------------------------------------------
LEMMA InitIInv == Init => IInv
<1>. SUFFICES ASSUME Init PROVE IInv
  OBVIOUS
<1>1. TypeOK
  BY SomePaths, BoundAssumption DEF Init, TypeOK
<1>. QED BY <1>1 DEF Init, IInv, Kept, HeldValid, ConfirmedPages

\* Renders of the login page and of the root.
LEMMA RenderOutside ==
    ASSUME IInv, NEW t \in Tab, RenderLogin(t) \/ RenderRoot(t)
    PROVE IInv'
<1>1. /\ Unmounted(t) /\ UNCHANGED <<server, leaving, requests, confirmed, moves>>
      /\ store' = store \/ store' = Stored
  BY DEF RenderLogin, RenderRoot
<1>2. TypeOK' /\ shown'[t] # "page" /\ \A x \in Tab \ {t} : shown'[x] = shown[x] /\ path'[x] = path[x]
  <2>1. CASE RenderLogin(t)
    BY <1>1, <2>1, IgnoredTyped DEF IInv, TypeOK, RenderLogin, Shows, Unmounted, server
  <2>2. CASE RenderRoot(t)
    <3>1. PICK p \in Path : Goes(t, p)
      BY <2>2, StoredTyped, SessionParts, PreferredIsPath, SomePaths DEF RenderRoot, IInv
    <3>. QED BY <1>1, <3>1, StoredTyped, IgnoredTyped DEF IInv, TypeOK, Goes, Unmounted, server
  <2>. QED BY <2>1, <2>2
<1>3. Kept'
  BY <1>1 DEF IInv, Kept
<1>4. HeldValid'
  BY <1>1 DEF IInv, HeldValid, TypeOK, Unmounted
<1>5. ConfirmedPages'
  BY <1>1, <1>2 DEF IInv, ConfirmedPages, TypeOK, Unmounted, Redirected
<1>. QED BY <1>2, <1>3, <1>4, <1>5 DEF IInv

\* Renders of a guarded page.
LEMMA RenderInside == ASSUME IInv, NEW t \in Tab, RenderGuarded(t) PROVE IInv'
<1>1. /\ store' = Stored /\ seen' = [seen EXCEPT ![t] = Stored]
      /\ checks' = Checked(t, TokenOf(Stored))
      /\ UNCHANGED <<server, validated, valid, leaving, requests, confirmed, moves>>
  BY DEF RenderGuarded
<1>2. \/ \E p \in Path : Goes(t, p)
      \/ Shows(t, "checking")
      \/ /\ Shows(t, "page")
         /\ Stored # None /\ validated[t] = Stored.token /\ valid[t]
         /\ ~Redirected(Stored.user, path[t])
  BY StoredTyped, SessionParts, PreferredIsPath, SomePaths DEF RenderGuarded, IInv, Unconfirmed
<1>3. /\ path' \in [Tab -> Path] /\ due' \in [Tab -> BOOLEAN]
      /\ shown' \in [Tab -> {"nothing", "login", "checking", "page"}]
      /\ \A x \in Tab \ {t} : shown'[x] = shown[x] /\ path'[x] = path[x]
      /\ shown'[t] = "page" => /\ Stored # None /\ validated[t] = Stored.token /\ valid[t]
                              /\ path'[t] = path[t] /\ ~Redirected(Stored.user, path[t])
  <2>1. ASSUME NEW p \in Path, Goes(t, p) PROVE <1>3!:
    BY <2>1 DEF IInv, TypeOK, Goes
  <2>2. CASE Shows(t, "checking")
    BY <2>2 DEF IInv, TypeOK, Shows
  <2>3. CASE /\ Shows(t, "page")
             /\ Stored # None /\ validated[t] = Stored.token /\ valid[t]
             /\ ~Redirected(Stored.user, path[t])
    BY <2>3 DEF IInv, TypeOK, Shows
  <2>. QED BY <1>2, <2>1, <2>2, <2>3
<1>4. TypeOK'
  BY <1>1, <1>3, StoredTyped, CheckedTyped DEF IInv, TypeOK, server
<1>5. Kept' /\ HeldValid'
  BY <1>1 DEF IInv, Kept, HeldValid
<1>6. ConfirmedPages'
  <2>. SUFFICES ASSUME NEW x \in Tab, shown'[x] = "page"
                PROVE /\ seen'[x] # None /\ seen'[x].token \in confirmed'[x]
                      /\ ~Redirected(seen'[x].user, path'[x])
    BY DEF ConfirmedPages, Redirected
  <2>1. CASE x = t
    BY <2>1, <1>1, <1>3 DEF IInv, TypeOK, HeldValid
  <2>2. CASE x # t
    BY <2>2, <1>1, <1>3 DEF IInv, TypeOK, ConfirmedPages
  <2>. QED BY <2>1, <2>2
<1>. QED BY <1>4, <1>5, <1>6 DEF IInv

LEMMA MoveCounts == ASSUME TypeOK, Move PROVE moves' \in 0 .. MaxMoves
BY BoundAssumption DEF TypeOK, Move

\* What no tab shows changes: tabs stand still, or show nothing for a while.
LEMMA PagesStay ==
    ASSUME IInv, TypeOK',
           \A t \in Tab : /\ shown'[t] = "page" => /\ shown[t] = "page"
                                                  /\ UNCHANGED <<path[t], seen[t]>>
                                                  /\ confirmed[t] \subseteq confirmed'[t]
    PROVE ConfirmedPages'
BY DEF IInv, ConfirmedPages, Redirected

\* Answers to RequireAuth.
LEMMA AnswerToCheck ==
    ASSUME IInv, NEW c \in checks, Accept(c) \/ Reject(c) \/ ServerError(c) \/ Unreachable(c)
    PROVE IInv'
<1>1. PICK accepted \in BOOLEAN :
         /\ CheckAnswered(c, accepted)
         /\ store' = store \/ store' = None
         /\ moves' \in 0 .. MaxMoves
         /\ confirmed' = IF accepted THEN [confirmed EXCEPT ![c.tab] = @ \cup {c.token}] ELSE confirmed
  <2>1. moves' \in 0 .. MaxMoves
    <3>1. UNCHANGED moves \/ Move
      BY DEF Accept, Reject, ServerError, Unreachable
    <3>. QED BY <3>1, MoveCounts DEF IInv, TypeOK
  <2>2. CASE Accept(c)
    <3>1. CheckAnswered(c, TRUE) /\ store' = store
          /\ confirmed' = [confirmed EXCEPT ![c.tab] = @ \cup {c.token}]
      BY <2>2 DEF Accept
    <3>. QED BY <2>1, <3>1
  <2>3. CASE Reject(c) \/ ServerError(c) \/ Unreachable(c)
    <3>1. CheckAnswered(c, FALSE) /\ (store' = store \/ store' = None) /\ confirmed' = confirmed
      BY <2>3 DEF Reject, ServerError, Unreachable
    <3>. QED BY <2>1, <3>1
  <2>. QED BY <2>2, <2>3
<1>2. c.tab \in Tab /\ c.token \in Token
  BY DEF IInv, TypeOK, Check
<1>3. /\ validated' \in [Tab -> Token \cup {None}]
      /\ valid' \in [Tab -> BOOLEAN] /\ due' \in [Tab -> BOOLEAN]
  BY <1>1, <1>2 DEF IInv, TypeOK, CheckAnswered
<1>4. confirmed' \in [Tab -> SUBSET Token] /\ \A t \in Tab : confirmed[t] \subseteq confirmed'[t]
  BY <1>1, <1>2 DEF IInv, TypeOK
<1>5. TypeOK'
  BY <1>1, <1>3, <1>4 DEF IInv, TypeOK, CheckAnswered, server
<1>6. Kept'
  BY <1>1 DEF IInv, Kept, CheckAnswered
<1>7. HeldValid'
  <2>. SUFFICES ASSUME NEW t \in Tab, valid'[t] PROVE validated'[t] \in confirmed'[t]
    BY DEF HeldValid
  <2>1. CASE c.live /\ t = c.tab
    <3>1. accepted /\ validated'[t] = c.token
      BY <1>1, <1>2, <2>1 DEF IInv, TypeOK, CheckAnswered
    <3>. QED BY <1>1, <1>2, <2>1, <3>1 DEF IInv, TypeOK
  <2>2. CASE ~(c.live /\ t = c.tab)
    <3>1. valid[t] /\ validated'[t] = validated[t]
      BY <1>1, <1>2, <2>2 DEF IInv, TypeOK, CheckAnswered
    <3>. QED BY <1>4, <3>1 DEF IInv, HeldValid
  <2>. QED BY <2>1, <2>2
<1>8. ConfirmedPages'
  BY <1>1, <1>4, <1>5, PagesStay DEF CheckAnswered
<1>. QED BY <1>5, <1>6, <1>7, <1>8 DEF IInv

-----------------------------------------------------------------------------
\* Requests that are sent, and those whose answer leaves the session alone.
LEMMA RequestsSent ==
    ASSUME IInv, NEW t \in Tab, NEW kind \in {"page", "login", "profile"},
           NEW account \in Account \cup {None}, NEW base \in Session \cup {None},
           Sends(t, kind, account, base), Move,
           kind = "profile" => base \in Session, kind = "login" => account \in Account
    PROVE IInv'
<1>1. moves' \in 0 .. MaxMoves
  BY MoveCounts DEF IInv
<1>2. [tab |-> t, kind |-> kind, token |-> TokenOf(Stored), account |-> account, base |-> base] \in Request
  BY StoredTyped, SessionParts DEF TokenOf, Request, IInv
<1>3. TypeOK'
  BY <1>1, <1>2, StoredTyped DEF IInv, TypeOK, Sends, server, tabs, guard
<1>4. Kept'
  BY DEF IInv, Kept, Sends
<1>5. HeldValid' /\ ConfirmedPages'
  BY <1>3, PagesStay DEF IInv, HeldValid, Sends, tabs, guard
<1>. QED BY <1>3, <1>4, <1>5 DEF IInv

LEMMA AnswerLeaves == ASSUME IInv, NEW r \in requests, Answered(r) PROVE IInv'
<1>1. TypeOK'
  BY DEF IInv, TypeOK, Answered, server, tabs, guard
<1>2. Kept' /\ HeldValid' /\ ConfirmedPages'
  BY <1>1, PagesStay DEF IInv, Kept, HeldValid, Answered, tabs, guard
<1>. QED BY <1>1, <1>2 DEF IInv

\* A 401.
LEMMA AnswerSignsOut == ASSUME IInv, NEW r \in requests, Refused(r) \/ WrongPassword(r) PROVE IInv'
<1>1. Unauthorized(r) /\ moves' \in 0 .. MaxMoves
  BY MoveCounts DEF Refused, WrongPassword, IInv, TypeOK
<1>2. TypeOK'
  BY <1>1 DEF IInv, TypeOK, Unauthorized, server, guard
<1>3. Kept' /\ HeldValid' /\ ConfirmedPages'
  BY <1>1, <1>2, PagesStay DEF IInv, Kept, HeldValid, Unauthorized, guard
<1>. QED BY <1>2, <1>3 DEF IInv

LEMMA RequestParts ==
    ASSUME TypeOK, NEW r \in requests
    PROVE r.tab \in Tab /\ r.token \in Token \cup {None}
BY DEF TypeOK, Request

LEMMA LoginSucceeds == ASSUME IInv, NEW r \in requests, handleSuccessfulLogin(r) PROVE IInv'
<1>1. r.tab \in Tab /\ r.account \in Account
  BY RequestParts DEF IInv, Kept, handleSuccessfulLogin
<1>2. PICK s \in Session : store' = s /\ Goes(r.tab, Preferred(s.user))
  <2>. DEFINE user == [account |-> r.account, done |-> r.account \in done]
              s == [token |-> [account |-> r.account, nr |-> issued], user |-> user]
  <2>1. s.token \in Token /\ user \in User
    BY <1>1 DEF Token, User, IInv, TypeOK
  <2>2. s \in Session
    BY <2>1 DEF Session
  <2>3. store' = s /\ Goes(r.tab, Preferred(s.user))
    BY DEF handleSuccessfulLogin
  <2>. QED BY <2>2, <2>3
<1>3. PICK p \in Path : Goes(r.tab, p)
  BY <1>2, SessionParts, PreferredIsPath
<1>4. TypeOK'
  BY <1>1, <1>2, <1>3 DEF IInv, TypeOK, handleSuccessfulLogin, Goes, guard
<1>5. Kept' /\ HeldValid'
  BY DEF IInv, Kept, HeldValid, handleSuccessfulLogin, guard
<1>6. ConfirmedPages'
  BY <1>1, <1>3, <1>4, PagesStay DEF IInv, TypeOK, handleSuccessfulLogin, Goes, guard
<1>. QED BY <1>4, <1>5, <1>6 DEF IInv

\* A tab that is loaded anew.
LEMMA LoadKeeps ==
    ASSUME IInv, NEW t \in Tab, NEW p \in Path, Loads(t, p),
           store' \in Session \cup {None}, UNCHANGED <<issued, dead, expired>>,
           done' \subseteq Account, moves' \in 0 .. MaxMoves
    PROVE IInv'
<1>1. TypeOK'
  BY DEF IInv, TypeOK, Loads, Goes
<1>2. Kept'
  BY DEF IInv, Kept, Loads
<1>3. HeldValid'
  BY DEF IInv, TypeOK, HeldValid, Loads
<1>4. ConfirmedPages'
  BY <1>1, PagesStay DEF IInv, TypeOK, Loads, Goes
<1>. QED BY <1>1, <1>2, <1>3, <1>4 DEF IInv

LEMMA ProfileSaves ==
    ASSUME IInv, NEW r \in requests, NEW complete \in BOOLEAN, ProfileSaved(r, complete)
    PROVE IInv'
<1>. DEFINE user == [account |-> r.token.account,
                     done |-> complete \/ Role[r.token.account] # "employee"]
<1>1. r.tab \in Tab /\ r.token \in Token /\ r.base \in Session
  BY RequestParts DEF IInv, Kept, ProfileSaved
<1>2. user \in User /\ user.account \in Account
  BY <1>1 DEF User, Token
<1>3. done' \subseteq Account /\ UNCHANGED <<issued, dead, expired, moves>>
  BY <1>2 DEF ProfileSaved, IInv, TypeOK
<1>4. CASE r.base.user.account \in SuperAdmins
  <2>1. Loads(r.tab, path[r.tab]) /\ UNCHANGED store
    BY <1>4 DEF ProfileSaved
  <2>2. path[r.tab] \in Path /\ store \in Session \cup {None} /\ moves \in 0 .. MaxMoves
    BY <1>1 DEF IInv, TypeOK
  <2>. QED BY <1>1, <1>3, <2>1, <2>2, LoadKeeps
<1>5. CASE r.base.user.account \notin SuperAdmins
  <2>1. /\ store' = [token |-> r.base.token, user |-> user]
        /\ Goes(r.tab, Preferred(user))
        /\ requests' = requests \ {r}
        /\ UNCHANGED <<guard, leaving, checks, confirmed>>
    BY <1>5 DEF ProfileSaved
  <2>2. store' \in Session
    BY <1>1, <1>2, <2>1, SessionParts DEF Session
  <2>3. PICK p \in Path : Goes(r.tab, p)
    BY <1>2, <2>1, PreferredIsPath
  <2>4. TypeOK'
    BY <1>1, <1>3, <2>1, <2>2, <2>3 DEF IInv, TypeOK, Goes, guard
  <2>5. Kept' /\ HeldValid'
    BY <2>1 DEF IInv, Kept, HeldValid, guard
  <2>6. ConfirmedPages'
    BY <1>1, <2>1, <2>3, <2>4, PagesStay DEF IInv, TypeOK, Goes, guard
  <2>. QED BY <2>4, <2>5, <2>6 DEF IInv
<1>. QED BY <1>4, <1>5

-----------------------------------------------------------------------------
\* Users, the clock and the server.
LEMMA TabMoves ==
    ASSUME IInv, NEW t \in Tab, Unload(t) \/ Logout(t) \/ \E p \in Path : Visit(t, p) \/ Type(t, p)
    PROVE IInv'
<1>1. CASE Unload(t)
  BY <1>1, LoadKeeps, SomePaths DEF Unload, server, IInv, TypeOK
<1>2. CASE Logout(t)
  <2>1. TypeOK'
    BY <1>2, MoveCounts DEF IInv, TypeOK, Logout, server, guard
  <2>. QED BY <1>2, <2>1, PagesStay DEF IInv, Kept, HeldValid, Logout, guard
<1>3. ASSUME NEW p \in Path, Visit(t, p) PROVE IInv'
  <2>1. TypeOK'
    BY <1>3, MoveCounts DEF IInv, TypeOK, Visit, Goes, server, guard
  <2>2. ConfirmedPages'
    BY <1>3, <2>1, PagesStay DEF IInv, TypeOK, Visit, Goes, guard
  <2>. QED BY <1>3, <2>1, <2>2 DEF IInv, Kept, HeldValid, Visit, guard
<1>4. ASSUME NEW p \in Path, Type(t, p) PROVE IInv'
  BY <1>4, LoadKeeps, MoveCounts DEF Type, server, IInv, TypeOK
<1>. QED BY <1>1, <1>2, <1>3, <1>4

LEMMA TokenMoves == ASSUME IInv, NEW k \in Issued, Expire(k) \/ Revoke(k) PROVE IInv'
<1>1. k \in Token
  BY DEF Issued, Token, IInv, TypeOK
<1>2. TypeOK'
  BY <1>1, MoveCounts DEF IInv, TypeOK, Expire, Revoke, tabs, guard
<1>. QED BY <1>2, PagesStay DEF IInv, Kept, HeldValid, Expire, Revoke, tabs, guard

LEMMA StepIInv == IInv /\ [Next]_vars => IInv'
<1>. SUFFICES ASSUME IInv, [Next]_vars PROVE IInv'
  OBVIOUS
<1>1. ASSUME NEW t \in Tab, Render(t) \/ Unload(t) \/ Logout(t) PROVE IInv'
  BY <1>1, RenderOutside, RenderInside, TabMoves DEF Render
<1>2. ASSUME NEW t \in Tab, PageRequests(t) PROVE IInv'
  BY <1>2, RequestsSent DEF PageRequests
<1>3. ASSUME NEW t \in Tab, NEW a \in Account, handleLogin(t, a) PROVE IInv'
  BY <1>3, RequestsSent DEF handleLogin
<1>4. ASSUME NEW t \in Tab, NEW base \in {seen[t], Stored}, SaveProfile(t, base) PROVE IInv'
  <2>1. base \in Session
    BY <1>4, StoredTyped DEF SaveProfile, IInv, TypeOK
  <2>. QED BY <1>4, <2>1, RequestsSent DEF SaveProfile
<1>5. ASSUME NEW t \in Tab, NEW p \in Path, Visit(t, p) \/ Type(t, p) PROVE IInv'
  BY <1>5, TabMoves
<1>6. ASSUME NEW c \in checks, Accept(c) \/ Reject(c) \/ ServerError(c) \/ Unreachable(c) PROVE IInv'
  BY <1>6, AnswerToCheck
<1>7. ASSUME NEW r \in requests,
             Answered(r) \/ Refused(r) \/ WrongPassword(r) \/ handleSuccessfulLogin(r)
      PROVE IInv'
  BY <1>7, AnswerLeaves, AnswerSignsOut, LoginSucceeds
<1>8. ASSUME NEW r \in requests, NEW complete \in BOOLEAN, ProfileSaved(r, complete) PROVE IInv'
  BY <1>8, ProfileSaves
<1>9. ASSUME NEW k \in Issued, Expire(k) \/ Revoke(k) PROVE IInv'
  BY <1>9, TokenMoves
<1>10. CASE UNCHANGED vars
  BY <1>10 DEF vars, server, tabs, guard, IInv, TypeOK, Kept, HeldValid, ConfirmedPages, Redirected
<1>. QED BY <1>1, <1>2, <1>3, <1>4, <1>5, <1>6, <1>7, <1>8, <1>9, <1>10 DEF Next

LEMMA InvariantHolds == Spec => []IInv
BY InitIInv, StepIInv, PTL DEF Spec

-----------------------------------------------------------------------------
\* The stored session, the guards' memory and the messages under way keep
\* their shape (lib/session.ts, App.tsx): whatever a late answer writes, it
\* writes a session and sends no tab to a page that does not exist.
THEOREM SessionTypes == Spec => []TypeOK
BY InvariantHolds, PTL DEF IInv

\* RequireAuth and RequireRoles (App.tsx): a page is shown only for a session
\* whose token the server confirmed since the tab was loaded, and only a page
\* the guards allow to its user, for any number of tabs that sign in and out.
THEOREM PagesAreConfirmed == Spec => []ConfirmedPages
BY InvariantHolds, PTL DEF IInv
=============================================================================
