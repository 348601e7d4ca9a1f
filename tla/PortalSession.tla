--------------------------- MODULE PortalSession ---------------------------
(***************************************************************************)
(* Who is signed in, in a browser with several tabs: the stored session    *)
(* (lib/session.ts), which all tabs share and every one reads at each      *)
(* render; the guards of the routes (App.tsx, lib/portalGuards.ts), which  *)
(* let the server confirm a token before they show a page; and apiRequest  *)
(* (lib/api.ts), which signs out when a request is refused, whatever token *)
(* it was sent with.  Answers reach a tab long after the session they were *)
(* asked for is gone.                                                      *)
(*                                                                         *)
(* A render of a tab is one step with its effects.  Of a page the model    *)
(* keeps that it makes requests; the one that writes the session itself is *)
(* the form on /emp/profile (live/UserProfilePage.tsx).                    *)
(***************************************************************************)
EXTENDS Naturals

CONSTANTS Tab, Account, None,
          Role,     \* [Account -> role]
          MaxMoves  \* bound on what users, clocks and the network do

Roles == {"super_admin", "it_team", "auditor", "employee"}
ASSUME RoleAssumption == Role \in [Account -> Roles]
ASSUME BoundAssumption == MaxMoves \in Nat
ASSUME NoneAssumption == None \notin Tab \cup Account

VARIABLES store,     \* the stored session, None if there is none
          issued,    \* server: how many tokens were issued
          dead,      \* server: tokens it does not accept any more
          expired,   \* tokens that are expired by the clock of the browser
          done,      \* server: accounts with a department and a location; only
                     \*   those of employees are ever asked for
          path,      \* of a tab
          due,       \* it has to render
          shown,     \* what it showed last
          seen,      \* RequireAuth: the session of its last render
          validated, \*   validatedToken
          valid,     \*   isTokenValid
          leaving,   \* authRedirectInFlight: the tab is loading /login
          checks,    \* calls of validateStoredSession on their way
          requests,  \* calls of apiRequest on their way
          confirmed, \* history: tokens the server confirmed to this load of a tab
          moves

server  == <<issued, dead, expired, done>>
guard   == <<seen, validated, valid>>
tabs    == <<path, due, shown, guard, leaving>>
vars    == <<store, server, tabs, checks, requests, confirmed, moves>>

-----------------------------------------------------------------------------
Portals == {"admin", "it", "audit", "emp"}
At(seg, page) == [portal |-> seg, page |-> page]
Login    == At("none", "login")
Root     == At("none", "root")
Terminal == At("none", "terminal")
Profile  == At("emp", "profile")
AuditChat == At("audit", "chat")
Guarded  == {At(seg, "dashboard") : seg \in Portals} \cup {Profile, AuditChat, Terminal}
Path     == Guarded \cup {Login, Root}

Token   == [account : Account, nr : Nat]
User    == [account : Account, done : BOOLEAN]
Session == [token : Token, user : User]
Check   == [tab : Tab, token : Token, live : BOOLEAN]
Request == [tab : Tab, kind : {"page", "login", "profile"}, token : Token \cup {None},
            account : Account \cup {None}, base : Session \cup {None}]

\* The portals and the default portal that userAuthPayload names.
Allowed(u) == [super_admin |-> {"admin", "it", "emp"}, it_team |-> {"it", "emp"},
               auditor |-> {"audit"}, employee |-> {"emp"}][Role[u.account]]
DefaultPortal(u) == [super_admin |-> "admin", it_team |-> "it",
                     auditor |-> "audit", employee |-> "emp"][Role[u.account]]

\* getPreferredPortalPath.
Preferred(u) == IF Role[u.account] = "employee" /\ ~u.done THEN Profile
                ELSE At(DefaultPortal(u), "dashboard")

\* Mutant of Redirected: the pages auditors do not get are only those of other
\* roles' portals, and their own portal's start page is one.
Redirected_Audit(u, p) ==
    \/ p.portal \in Portals \ Allowed(u)
    \/ Role[u.account] = "auditor" /\ p.portal = "audit"
    \/ p = Terminal /\ Role[u.account] \notin {"super_admin", "it_team"}
\* getPortalAccessRedirect, getPageAccessRedirect, getRoleAccessRedirect.
Redirected(u, p) ==
    \/ p.portal \in Portals \ Allowed(u)
    \/ Role[u.account] = "auditor" /\ p = AuditChat
    \/ p = Terminal /\ Role[u.account] \notin {"super_admin", "it_team"}

\* getStoredSession, which forgets an expired session.
Stored == IF store # None /\ store.token \in expired THEN None ELSE store
TokenOf(s) == IF s = None THEN None ELSE s.token

Init == /\ store = None
        /\ issued = 0 /\ dead = {} /\ expired = {}
        /\ done \in {d \in SUBSET Account : \A a \in Account : Role[a] # "employee" => a \in d}
        /\ path \in [Tab -> {Root}]
        /\ due = [t \in Tab |-> TRUE]
        /\ shown = [t \in Tab |-> "nothing"]
        /\ seen = [t \in Tab |-> None]
        /\ validated = [t \in Tab |-> None]
        /\ valid = [t \in Tab |-> FALSE]
        /\ leaving = [t \in Tab |-> FALSE]
        /\ checks = {} /\ requests = {}
        /\ confirmed = [t \in Tab |-> {}]
        /\ moves = 0

Move == moves < MaxMoves /\ moves' = moves + 1

-----------------------------------------------------------------------------
(* Renders.                                                                *)

Goes(t, p) == /\ path' = [path EXCEPT ![t] = p]
              /\ due' = [due EXCEPT ![t] = TRUE]
              /\ shown' = [shown EXCEPT ![t] = "nothing"]
Shows(t, what) == /\ shown' = [shown EXCEPT ![t] = what]
                  /\ due' = [due EXCEPT ![t] = FALSE]
                  /\ UNCHANGED path

\* RequireAuth is not mounted on these two: its answers are cancelled.
Ignored(t) == {IF c.tab = t THEN [c EXCEPT !.live = FALSE] ELSE c : c \in checks}
Unmounted(t) == /\ seen' = [seen EXCEPT ![t] = None]
                /\ validated' = [validated EXCEPT ![t] = None]
                /\ valid' = [valid EXCEPT ![t] = FALSE]
                /\ checks' = Ignored(t)

RenderLogin(t) == /\ due[t] /\ path[t] = Login
                  /\ Unmounted(t)
                  /\ Shows(t, "login")
                  /\ UNCHANGED <<store, server, leaving, requests, confirmed, moves>>

RenderRoot(t) == /\ due[t] /\ path[t] = Root
                 /\ Unmounted(t)
                 /\ Goes(t, IF Stored = None THEN Login ELSE Preferred(Stored.user))
                 /\ store' = Stored
                 /\ UNCHANGED <<server, leaving, requests, confirmed, moves>>

\* Mutant of Checked: the effect without its early return.
Checked_NoToken(t, token) ==
    IF TokenOf(seen[t]) = token THEN checks
    ELSE Ignored(t) \cup {[tab |-> t, token |-> token, live |-> TRUE]}
\* The effect of RequireAuth: another token is checked by the server.
Checked(t, token) ==
    IF TokenOf(seen[t]) = token THEN checks
    ELSE Ignored(t) \cup (IF token = None THEN {} ELSE {[tab |-> t, token |-> token, live |-> TRUE]})

\* Mutant of Unconfirmed: any token that was confirmed will do.
Unconfirmed_Any(t, s) == validated[t] = None
Unconfirmed(t, s) == validated[t] # s.token

RenderGuarded(t) ==
    /\ due[t] /\ path[t] \in Guarded
    /\ store' = Stored
    /\ seen' = [seen EXCEPT ![t] = Stored]
    /\ checks' = Checked(t, TokenOf(Stored))
    /\ IF Stored = None THEN Goes(t, Login)
       ELSE IF Unconfirmed(t, Stored) THEN Shows(t, "checking")
       ELSE IF ~valid[t] THEN Goes(t, Login)
       ELSE IF Redirected(Stored.user, path[t]) THEN Goes(t, Preferred(Stored.user))
       ELSE Shows(t, "page")
    /\ UNCHANGED <<server, validated, valid, leaving, requests, confirmed, moves>>

\* validateStoredSession returns.
CheckAnswered(c, accepted) ==
    /\ checks' = checks \ {c}
    /\ IF c.live
       THEN /\ validated' = [validated EXCEPT ![c.tab] = c.token]
            /\ valid' = [valid EXCEPT ![c.tab] = accepted]
            /\ due' = [due EXCEPT ![c.tab] = TRUE]
       ELSE UNCHANGED <<validated, valid, due>>
    /\ UNCHANGED <<server, path, shown, seen, leaving, requests>>

Accept(c) == /\ c.token \notin dead
             /\ CheckAnswered(c, TRUE)
             /\ confirmed' = [confirmed EXCEPT ![c.tab] = @ \cup {c.token}]
             /\ UNCHANGED <<store, moves>>

\* The session that is stored by now is removed.
Reject(c) == /\ c.token \in dead
             /\ CheckAnswered(c, FALSE)
             /\ store' = None
             /\ UNCHANGED <<confirmed, moves>>

\* The server has an error, or it cannot be reached within eight seconds.
ServerError(c) == /\ Move
                  /\ CheckAnswered(c, FALSE)
                  /\ store' = None
                  /\ UNCHANGED confirmed
Unreachable(c) == /\ Move
                  /\ CheckAnswered(c, FALSE)
                  /\ UNCHANGED <<store, confirmed>>

-----------------------------------------------------------------------------
(* Requests.                                                               *)

Sends(t, kind, account, base) ==
    /\ store' = Stored
    /\ requests' = requests \cup {[tab |-> t, kind |-> kind, token |-> TokenOf(Stored),
                                   account |-> account, base |-> base]}
    /\ UNCHANGED <<server, tabs, checks, confirmed>>

PageRequests(t) == Move /\ shown[t] = "page" /\ Sends(t, "page", None, None)

handleLogin(t, a) == Move /\ shown[t] = "login" /\ Sends(t, "login", a, None)

\* handleSave keeps the session of the render it was clicked in: the one
\* RequireAuth saw, or, if the form was rendered again since, the one stored by
\* now; the request itself carries the token that is stored when it is sent.
SaveProfile(t, base) ==
    /\ Move
    /\ shown[t] = "page" /\ path[t] = Profile
    /\ base \in {seen[t], Stored} \ {None}
    /\ Sends(t, "profile", None, base)

\* An answer that leaves the session alone: the page shows it, or any error but
\* a 401, or that the server was not reached.
Answered(r) == /\ requests' = requests \ {r}
               /\ UNCHANGED <<store, server, tabs, checks, confirmed, moves>>

\* A 401 signs out and loads /login.
Unauthorized(r) == /\ store' = None
                   /\ requests' = requests \ {r}
                   /\ leaving' = [leaving EXCEPT ![r.tab] = TRUE]
                   /\ UNCHANGED <<server, path, due, shown, guard, checks, confirmed>>

Refused(r) == /\ r.kind # "login" /\ r.token \in dead \cup {None}
              /\ Unauthorized(r)
              /\ UNCHANGED moves

WrongPassword(r) == /\ r.kind = "login" /\ Move /\ Unauthorized(r)

handleSuccessfulLogin(r) ==
    LET user == [account |-> r.account, done |-> r.account \in done] IN
    /\ r.kind = "login"
    /\ issued' = issued + 1
    /\ store' = [token |-> [account |-> r.account, nr |-> issued], user |-> user]
    /\ Goes(r.tab, Preferred(user))
    /\ requests' = requests \ {r}
    /\ UNCHANGED <<dead, expired, done, guard, leaving, checks, confirmed, moves>>

\* The tab is loaded anew: nothing is left of it but its address.
Loads(t, p) == /\ Goes(t, p)
               /\ seen' = [seen EXCEPT ![t] = None]
               /\ validated' = [validated EXCEPT ![t] = None]
               /\ valid' = [valid EXCEPT ![t] = FALSE]
               /\ leaving' = [leaving EXCEPT ![t] = FALSE]
               /\ confirmed' = [confirmed EXCEPT ![t] = {}]
               /\ checks' = {c \in checks : c.tab # t}
               /\ requests' = {r \in requests : r.tab # t}

\* A super admin's form goes to a route that refuses everybody else.
SuperAdmins == {a \in Account : Role[a] = "super_admin"}
Forbidden(r) == /\ r.kind = "profile"
                /\ r.base.user.account \in SuperAdmins /\ r.token.account \notin SuperAdmins

\* handleSave writes the user of the answer, whose department and location may
\* have been left out, beside the token it had.  After a super admin's form the
\* page is loaded again instead.
ProfileSaved(r, complete) ==
    LET user == [account |-> r.token.account,
                 done |-> complete \/ Role[r.token.account] # "employee"] IN
    /\ r.kind = "profile" /\ r.token \notin dead \cup {None}
    /\ ~Forbidden(r)
    /\ done' = IF user.done THEN done \cup {user.account} ELSE done \ {user.account}
    /\ IF r.base.user.account \in SuperAdmins
       THEN Loads(r.tab, path[r.tab]) /\ UNCHANGED store
       ELSE /\ store' = [token |-> r.base.token, user |-> user]
            /\ Goes(r.tab, Preferred(user))
            /\ requests' = requests \ {r}
            /\ UNCHANGED <<guard, leaving, checks, confirmed>>
    /\ UNCHANGED <<issued, dead, expired, moves>>

-----------------------------------------------------------------------------
(* What else happens to a tab, and to a token.                             *)

Unload(t) == /\ leaving[t]
             /\ Loads(t, Login)
             /\ UNCHANGED <<store, server, moves>>

Logout(t) == /\ Move
             /\ shown[t] = "page"
             /\ store' = None
             /\ leaving' = [leaving EXCEPT ![t] = TRUE]
             /\ UNCHANGED <<server, path, due, shown, guard, checks, requests, confirmed>>

\* A link of the page, or an address that is typed in.
Visit(t, p) == /\ Move
               /\ shown[t] = "page" /\ p # path[t]
               /\ Goes(t, p)
               /\ UNCHANGED <<store, server, guard, leaving, checks, requests, confirmed>>
Type(t, p)  == /\ Move
               /\ Loads(t, p)
               /\ UNCHANGED <<store, server>>

Issued == [account : Account, nr : 0 .. issued - 1]
Expire(k) == /\ Move /\ k \notin expired
             /\ expired' = expired \cup {k}
             /\ UNCHANGED <<store, issued, dead, done, tabs, checks, requests, confirmed>>
Revoke(k) == /\ Move /\ k \notin dead
             /\ dead' = dead \cup {k}
             /\ UNCHANGED <<store, issued, expired, done, tabs, checks, requests, confirmed>>

-----------------------------------------------------------------------------
Render(t) == RenderLogin(t) \/ RenderRoot(t) \/ RenderGuarded(t)

Next == \/ \E t \in Tab : \/ Render(t) \/ Unload(t) \/ Logout(t) \/ PageRequests(t)
                          \/ \E a \in Account : handleLogin(t, a)
                          \/ \E base \in {seen[t], Stored} : SaveProfile(t, base)
                          \/ \E p \in Path : Visit(t, p) \/ Type(t, p)
        \/ \E c \in checks : Accept(c) \/ Reject(c) \/ ServerError(c) \/ Unreachable(c)
        \/ \E r \in requests : \/ Answered(r) \/ Refused(r) \/ WrongPassword(r)
                               \/ handleSuccessfulLogin(r)
                               \/ \E complete \in BOOLEAN : ProfileSaved(r, complete)
        \/ \E k \in Issued : Expire(k) \/ Revoke(k)

Spec == Init /\ [][Next]_vars

\* React renders, the browser loads, and a check is answered or times out.
Fairness == /\ \A t \in Tab : WF_vars(Render(t)) /\ WF_vars(Unload(t))
            /\ \A t \in Tab : WF_vars(\E c \in checks : c.tab = t /\ c.live /\ (Accept(c) \/ Reject(c)))

FairSpec == Spec /\ Fairness

-----------------------------------------------------------------------------
TypeOK ==
    /\ store \in Session \cup {None}
    /\ issued \in Nat /\ dead \subseteq Token /\ expired \subseteq Token /\ done \subseteq Account
    /\ path \in [Tab -> Path] /\ due \in [Tab -> BOOLEAN]
    /\ shown \in [Tab -> {"nothing", "login", "checking", "page"}]
    /\ seen \in [Tab -> Session \cup {None}]
    /\ validated \in [Tab -> Token \cup {None}]
    /\ valid \in [Tab -> BOOLEAN] /\ leaving \in [Tab -> BOOLEAN]
    /\ checks \subseteq Check /\ requests \subseteq Request
    /\ confirmed \in [Tab -> SUBSET Token]
    /\ moves \in 0 .. MaxMoves

\* A tab shows a page only for a session whose token the server has confirmed
\* to this load of the tab, however often the stored session was replaced while
\* the check was on its way, and only a page its guards allow to that user.
ConfirmedPages ==
    \A t \in Tab : shown[t] = "page" =>
        /\ seen[t] # None /\ seen[t].token \in confirmed[t]
        /\ ~Redirected(seen[t].user, path[t])

\* The guards of no two routes send each other the same user, and no tab keeps
\* showing that it is loading: in the end each one shows a page or the login.
Settles == <>[](\A t \in Tab : shown[t] \in {"login", "page"} /\ ~due[t] /\ ~leaving[t])

\* The stored token belongs to the stored user.  Untrue: while the form on
\* /emp/profile is open or being saved, another tab may sign in somebody else;
\* handleSave then puts that user beside the token of the first, or the reverse.
TokenIsUsers == store # None => store.token.account = store.user.account

\* "validates stored sessions and clears them when the backend rejects the
\* token": the session that is cleared is the one whose token was rejected.
\* Untrue: the answer may come when another session is stored.
OwnRejectionEnds ==
    [][\A c \in checks : Reject(c) => store = None \/ store.token = c.token]_vars
=============================================================================
