-------------------------------- MODULE Session --------------------------------
(***************************************************************************)
(* Who the pages believe is signed in, and where they send the visitor:    *)
(* the header in the root layout (components/Header.tsx), the home page    *)
(* (app/page.tsx), the sign-in page (components/ui/sign-in-flow-1.tsx) and *)
(* the dashboard's handshake (app/dashboard/page.tsx).                     *)
(*                                                                         *)
(* The session itself is the Supabase client's: a getSession() is answered *)
(* some time later with the session as it is then, a change of it calls    *)
(* every component subscribed, and a request may fail.  No page cancels    *)
(* what it asked when it is left: the answer to a page that is gone still  *)
(* pushes a route, and so does the timer of a sign-in that succeeded.      *)
(***************************************************************************)
EXTENDS Naturals

CONSTANTS MaxVisitorActs  (* bound on what visitor, other tabs and expiry do *)

ASSUME SessionAssumption == MaxVisitorActs \in Nat

VARIABLES
  page,        (* the route: "home", "login" or "dashboard"                *)
  session,     (* the client's session: "none" or "user"                   *)
  headerUser,  (* Header's user                                            *)
  viewer,      (* dashboard: "absent", "loading", "guest" or "user"        *)
  asks,        (* getSession() calls not answered yet, by who asked        *)
  signin,      (* the sign-in form: mode, loading, error, step             *)
  request,     (* its request in flight: "none", "signin" or "signup"      *)
  orphans,     (* requests in flight of sign-in pages that were left       *)
  pushes,      (* timers that will push /dashboard                         *)
  signouts,    (* signOut() calls in flight                                *)
  acts

sessionVars == <<page, session, headerUser, viewer, asks, signin, request,
                 orphans, pushes, signouts, acts>>
requestVars == <<signin, request, orphans>>

Routes == {"home", "login", "dashboard"}
Sessions == {"none", "user"}
RequestKinds == {"signin", "signup"}

FreshForm == [mode |-> "signin", loading |-> "off", error |-> "none", step |-> "form"]
NoOrphans == [kind \in RequestKinds |-> 0]
AsksAtLoad(p) == [who \in {"header"} \cup Routes |-> IF who \in {"header", p} THEN 1 ELSE 0]

(* What the dashboard makes of an answer or of an event.                   *)
ShownAs(s) == IF s = "user" THEN "user" ELSE "guest"

-----------------------------------------------------------------------------
(* router.push: a page that is already there stays mounted; otherwise the  *)
(* old page is unmounted, its request goes on without it, and the new one  *)
(* runs its effect, which asks for the session.  The dashboard's questions *)
(* of an earlier visit have nothing left to update.                        *)
GoTo(p, remaining) ==
  IF p = page
  THEN asks' = remaining /\ UNCHANGED <<page, viewer, requestVars>>
  ELSE /\ page' = p
       /\ asks' = [remaining EXCEPT ![p] = IF p = "dashboard" THEN 1 ELSE @ + 1]
       /\ viewer' = IF p = "dashboard" THEN "loading" ELSE "absent"
       /\ signin' = FreshForm
       /\ request' = "none"
       /\ orphans' = [kind \in RequestKinds |->
            IF kind = request THEN orphans[kind] + 1 ELSE orphans[kind]]

(* A new document: nothing of the old one is left but the stored session.  *)
Load(p) ==
  /\ page' = p /\ headerUser' = "none" /\ asks' = AsksAtLoad(p)
  /\ viewer' = IF p = "dashboard" THEN "loading" ELSE "absent"
  /\ signin' = FreshForm /\ request' = "none" /\ orphans' = NoOrphans
  /\ pushes' = 0 /\ signouts' = 0

(* onAuthStateChange: the header and, when mounted, the dashboard.         *)
FaultyNotify(s) ==
  /\ session' = s /\ headerUser' = s
  /\ viewer' = IF page = "dashboard" /\ s = "user" THEN "user" ELSE viewer

Notify(s) ==
  /\ session' = s /\ headerUser' = s
  /\ viewer' = IF page = "dashboard" THEN ShownAs(s) ELSE viewer

Act == acts < MaxVisitorActs /\ acts' = acts + 1

SessionInit ==
  /\ page \in Routes /\ session \in Sessions
  /\ headerUser = "none" /\ viewer = (IF page = "dashboard" THEN "loading" ELSE "absent")
  /\ asks = AsksAtLoad(page)
  /\ signin = FreshForm /\ request = "none" /\ orphans = NoOrphans
  /\ pushes = 0 /\ signouts = 0 /\ acts = 0

-----------------------------------------------------------------------------
(* Links, among them the guest access and the success step's button.       *)
Visit ==
  /\ Act
  /\ \E p \in Routes \ {page} : GoTo(p, asks)
  /\ UNCHANGED <<session, headerUser, pushes, signouts>>

Reload == Act /\ Load(page) /\ UNCHANGED session

(* Another tab signs in or out, or the token ends.                         *)
SessionChanges ==
  /\ Act
  /\ \E s \in Sessions \ {session} : Notify(s)
  /\ UNCHANGED <<page, asks, requestVars, pushes, signouts>>

Asked(who) == asks[who] > 0
Answered(who) == [asks EXCEPT ![who] = @ - 1]

HeaderAnswered ==
  /\ Asked("header") /\ headerUser' = session /\ asks' = Answered("header")
  /\ UNCHANGED <<page, session, viewer, requestVars, pushes, signouts, acts>>

DashboardAnswered ==
  /\ Asked("dashboard") /\ page = "dashboard"
  /\ viewer' = ShownAs(session) /\ asks' = Answered("dashboard")
  /\ UNCHANGED <<page, session, headerUser, requestVars, pushes, signouts, acts>>

(* The home page and the sign-in page send a signed-in visitor on.         *)
FaultyRedirectAnswered(who) ==
  /\ Asked(who)
  /\ IF session = "user" /\ headerUser = "user"
     THEN GoTo("dashboard", Answered(who))
     ELSE asks' = Answered(who) /\ UNCHANGED <<page, viewer, requestVars>>
  /\ UNCHANGED <<session, headerUser, pushes, signouts, acts>>

RedirectAnswered(who) ==
  /\ Asked(who)
  /\ IF session = "user"
     THEN GoTo("dashboard", Answered(who))
     ELSE asks' = Answered(who) /\ UNCHANGED <<page, viewer, requestVars>>
  /\ UNCHANGED <<session, headerUser, pushes, signouts, acts>>

-----------------------------------------------------------------------------
FormShown == page = "login" /\ signin.step = "form"

ToggleMode ==
  /\ FormShown /\ Act
  /\ signin' = [signin EXCEPT !.mode = IF @ = "signin" THEN "signup" ELSE "signin",
                              !.error = "none"]
  /\ UNCHANGED <<page, session, headerUser, viewer, asks, request, orphans, pushes, signouts>>

(* handleEmailSignIn, handleEmailSignUp, up to the await.                  *)
SubmitForm ==
  /\ FormShown /\ signin.loading = "off" /\ Act
  /\ signin' = [signin EXCEPT !.error = "none", !.loading = "on"]
  /\ request' = signin.mode
  /\ UNCHANGED <<page, session, headerUser, viewer, asks, orphans, pushes, signouts>>

(* What the service does of a request before it answers: a sign-in makes   *)
(* the session, a sign-up only where no confirmation is required.          *)
Granted(kind) ==
  \/ Notify("user")
  \/ kind = "signup" /\ UNCHANGED <<session, headerUser, viewer>>

(* The rest of the handlers.                                               *)
FaultyRequestRefused ==
  /\ request # "none" /\ request' = "none"
  /\ signin' = [signin EXCEPT !.error = "shown"]
  /\ UNCHANGED <<page, session, headerUser, viewer, asks, orphans, pushes, signouts, acts>>

RequestRefused ==
  /\ request # "none" /\ request' = "none"
  /\ signin' = [signin EXCEPT !.loading = "off", !.error = "shown"]
  /\ UNCHANGED <<page, session, headerUser, viewer, asks, orphans, pushes, signouts, acts>>

RequestGranted ==
  /\ request # "none" /\ request' = "none" /\ Granted(request)
  /\ signin' = [signin EXCEPT !.loading = "off", !.step = "success"]
  /\ pushes' = pushes + 1
  /\ UNCHANGED <<page, asks, orphans, signouts, acts>>

(* The same, when the page was left: only the session and the timer tell.  *)
OrphanAnswered(kind) ==
  /\ orphans[kind] > 0 /\ orphans' = [orphans EXCEPT ![kind] = @ - 1]
  /\ \/ UNCHANGED <<session, headerUser, viewer, pushes>>
     \/ Granted(kind) /\ pushes' = pushes + 1
  /\ UNCHANGED <<page, asks, signin, request, signouts, acts>>

PushFires ==
  /\ pushes > 0 /\ pushes' = pushes - 1
  /\ GoTo("dashboard", asks)
  /\ UNCHANGED <<session, headerUser, signouts, acts>>

(* The provider's page takes over and returns to /dashboard, signed in or  *)
(* not; or it cannot be reached.                                           *)
GoogleSignIn ==
  /\ FormShown /\ Act
  /\ \/ Load("dashboard") /\ session' \in {"user", session}
     \/ /\ signin' = [signin EXCEPT !.error = "shown"]
        /\ UNCHANGED <<page, session, headerUser, viewer, asks, request, orphans, pushes, signouts>>

PressLogOut ==
  /\ headerUser = "user" /\ Act /\ signouts' = signouts + 1
  /\ UNCHANGED <<page, session, headerUser, viewer, asks, requestVars, pushes>>

(* The error of signOut() is not looked at: refused, the session stays and *)
(* the visitor is pushed to the sign-in page all the same.                 *)
SignOutAnswered ==
  /\ signouts > 0 /\ signouts' = signouts - 1
  /\ \/ session' = "none" /\ headerUser' = "none"
     \/ UNCHANGED <<session, headerUser>>
  /\ GoTo("login", asks)
  /\ UNCHANGED <<pushes, acts>>

SessionNext ==
  \/ Visit \/ Reload \/ SessionChanges \/ ToggleMode \/ SubmitForm \/ GoogleSignIn
  \/ PressLogOut \/ HeaderAnswered \/ DashboardAnswered
  \/ \E who \in {"home", "login"} : RedirectAnswered(who)
  \/ RequestRefused \/ RequestGranted \/ PushFires \/ SignOutAnswered
  \/ \E kind \in RequestKinds : OrphanAnswered(kind)

-----------------------------------------------------------------------------
SessionTypeOK ==
  /\ page \in Routes /\ session \in Sessions /\ headerUser \in Sessions
  /\ viewer \in {"absent", "loading", "guest", "user"}
  /\ viewer = "absent" <=> page # "dashboard"
  /\ asks \in [{"header"} \cup Routes -> Nat] /\ orphans \in [RequestKinds -> Nat]
  /\ signin \in [mode : RequestKinds, loading : {"on", "off"},
                 error : {"none", "shown"}, step : {"form", "success"}]
  /\ request \in RequestKinds \cup {"none"}
  /\ pushes \in Nat /\ signouts \in Nat /\ acts \in 0..MaxVisitorActs

(* Once its question is answered, each of the two places that show who is  *)
(* signed in shows the session, whatever tab, expiry, sign-in, sign-out or *)
(* late answer changed it and in whichever order (Header.tsx:53-65,        *)
(* dashboard/page.tsx:165-202).                                            *)
EveryoneAgrees ==
  /\ asks["header"] = 0 => headerUser = session
  /\ viewer \in {"guest", "user"} => viewer = ShownAs(session)

(* A sign-in ends: the spinner of a request goes, and a success leads to   *)
(* the dashboard unless the visitor reloads or turns elsewhere             *)
(* (sign-in-flow-1.tsx:366-416).                                           *)
SignInEnds ==
  /\ signin.loading = "on" ~> signin.loading = "off"
  /\ signin.step = "success" ~> (page = "dashboard" \/ signin.step = "form")

(* A signed-in visitor who comes to the home or the sign-in page is taken  *)
(* to the dashboard, and there sees it open, unless the session ends       *)
(* meanwhile (page.tsx:183-189, sign-in-flow-1.tsx:358-364).               *)
SignedInReachDashboard ==
  /\ \A who \in {"home", "login"} :
       page = who /\ Asked(who) /\ session = "user" ~> (page = "dashboard" \/ session = "none")
  /\ viewer = "loading" ~> viewer # "loading"
=============================================================================
