---------------------------- MODULE SupportWidget ----------------------------
(***************************************************************************)
(* The support widget (frontend/src/support/SupportWidgetBridge.tsx): one  *)
(* component above every screen of the mobile application.  On the login   *)
(* screen it gives guidance, on four screens of a signed-in customer it    *)
(* prepares an assisted order or points at the orders; elsewhere it shows  *)
(* nothing, but its state lives on, which is the difficulty.               *)
(***************************************************************************)
CONSTANTS
  None,
  Customers, Staff,  \* bound: the users of the phone
  Paths              \* bound: the screens visited besides those named here

CustomerPaths == {"/customer", "/customer/orders"}  \* bound: two of the four
AllPaths == Paths \cup CustomerPaths \cup {"/login", "/support", "/new-order"}

VARIABLES
  hydrating, user, path,
  publicHelpOpen, customerHelpOpen,
  publicFlow, customerFlow,
  details,     \* the order's grade, location and window: who typed them
  openedFor    \* ghost: the user and the screen a panel was opened on

session == <<hydrating, user, path>>
panels == <<publicHelpOpen, customerHelpOpen, publicFlow, customerFlow>>
vars == <<session, panels, details, openedFor>>

Init ==
  /\ hydrating = TRUE /\ user = None /\ path = "/login"
  /\ publicHelpOpen = FALSE /\ customerHelpOpen = FALSE
  /\ publicFlow = None /\ customerFlow = None
  /\ details = None /\ openedFor = None

\* Mutant: the effect follows the screen alone.
EffectOfPath(u, p) == p # path

\* The effect's dependencies: it closes every panel when one of them changes.
Effect(u, p) == p # path \/ u # user

Become(u, p) ==
  /\ user' = u /\ path' = p
  /\ IF Effect(u, p)
       THEN /\ publicHelpOpen' = FALSE /\ customerHelpOpen' = FALSE
            /\ publicFlow' = None /\ customerFlow' = None
       ELSE UNCHANGED panels

\* The session and the router, which the widget only reads.
Hydrate ==
  /\ hydrating /\ hydrating' = FALSE /\ \E u \in {None} \cup Customers : Become(u, path)
  /\ UNCHANGED <<details, openedFor>>

SignInOrOut ==
  /\ ~hydrating /\ UNCHANGED hydrating
  /\ \E u \in {None} \cup Customers \cup Staff :
       /\ u # user /\ (u = None \/ user = None) /\ Become(u, path)
  /\ UNCHANGED <<details, openedFor>>

Navigate(p) ==
  /\ p # path /\ Become(user, p) /\ UNCHANGED <<hydrating, details, openedFor>>

-----------------------------------------------------------------------------
ShowPublicLoginHelp == ~hydrating /\ user = None /\ path = "/login"
ShowCustomerSupport == ~hydrating /\ user \in Customers /\ path \in CustomerPaths

Open == openedFor' = <<user, path>>

\* The launchers open and close; only the button in the panel also folds it.
TogglePublicHelp ==
  /\ ShowPublicLoginHelp /\ publicHelpOpen' = ~publicHelpOpen /\ Open
  /\ UNCHANGED <<session, customerHelpOpen, publicFlow, customerFlow, details>>

ToggleCustomerHelp ==
  /\ ShowCustomerSupport /\ customerHelpOpen' = ~customerHelpOpen /\ Open
  /\ UNCHANGED <<session, publicHelpOpen, publicFlow, customerFlow, details>>

CloseHelp ==
  \/ /\ ShowPublicLoginHelp /\ publicHelpOpen /\ publicHelpOpen' = FALSE /\ publicFlow' = None
     /\ UNCHANGED <<session, customerHelpOpen, customerFlow, details, openedFor>>
  \/ /\ ShowCustomerSupport /\ customerHelpOpen /\ customerHelpOpen' = FALSE /\ customerFlow' = None
     /\ UNCHANGED <<session, publicHelpOpen, publicFlow, details, openedFor>>

Toggled(flow, f) == IF flow = f THEN None ELSE f

\* The sections of the public panel, each with its guidance.
PublicFlow(f) ==
  /\ ShowPublicLoginHelp /\ publicHelpOpen /\ publicFlow' = Toggled(publicFlow, f)
  /\ UNCHANGED <<session, publicHelpOpen, customerHelpOpen, customerFlow, details, openedFor>>

CustomerFlow(f) ==
  /\ ShowCustomerSupport /\ customerHelpOpen /\ customerFlow' = Toggled(customerFlow, f)
  /\ UNCHANGED <<session, publicHelpOpen, customerHelpOpen, publicFlow, details, openedFor>>

\* The order's grade, location and window stay in the component until typed over.
TypeDetails ==
  /\ ShowCustomerSupport /\ customerHelpOpen /\ customerFlow = "order" /\ details' = user
  /\ UNCHANGED <<session, panels, openedFor>>

\* The second, explicit actions leave for another screen.
Leave(p) ==
  /\ \/ ShowCustomerSupport /\ customerHelpOpen
        /\ \/ customerFlow = "order" /\ p = "/new-order"
           \/ customerFlow = "tracking" /\ p = "/customer/orders"
           \/ p = "/support"
     \/ ShowPublicLoginHelp /\ publicHelpOpen /\ publicFlow \in {"onboarding", "delete"} /\ p \in Paths
  /\ Become(user, p) /\ UNCHANGED <<hydrating, details, openedFor>>

Next ==
  \/ Hydrate \/ SignInOrOut \/ TogglePublicHelp \/ ToggleCustomerHelp \/ CloseHelp \/ TypeDetails
  \/ \E p \in AllPaths : Navigate(p) \/ Leave(p)
  \/ (\E f \in {"login", "onboarding", "delete"} : PublicFlow(f))
  \/ \E f \in {"order", "tracking"} : CustomerFlow(f)

Spec == Init /\ [][Next]_vars

-----------------------------------------------------------------------------
\* The "strict authentication boundary" of the widget: what is open, or would
\* open unfolded, was opened by the user of the phone on the screen of now; no
\* panel survives a sign-in, a sign-out or a change of the screen.
PanelBoundary ==
  publicHelpOpen \/ customerHelpOpen \/ publicFlow # None \/ customerFlow # None
    => openedFor = <<user, path>>
=============================================================================
