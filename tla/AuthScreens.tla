----------------------------- MODULE AuthScreens -----------------------------
(***************************************************************************)
(* The auth screens of the mobile app and what drives them: RootNavigator, *)
(* AuthNavigator, SplashScreen, OnboardingScreen, LoginScreen,             *)
(* RegisterScreen and the biometric sign-in, over the flags of authStore.  *)
(*                                                                         *)
(* RootNavigator renders a loader instead of the screens while isLoading   *)
(* is set.  That unmounts the auth navigator: its stack and the state of   *)
(* its screens are gone, and it starts again at Splash.  Renders are part  *)
(* of the step that sets the store.  The keychain and the API client are   *)
(* those of modules Keychain and ApiClient; here an operation of the store *)
(* succeeds or fails, whatever tokens there are.                           *)
(***************************************************************************)
EXTENDS Naturals, Sequences, SequencesExt

CONSTANTS MaxLogouts      \* bound on the logout() under way

ASSUME LogoutsAssumption == MaxLogouts \in Nat

VARIABLES
    isInitialized, isLoading, isAuthenticated,   \* authStore
    stack,                \* the routes of the mounted auth navigator, <<>> if there is none
    apiError,             \* LoginScreen shows an error
    step,                 \* RegisterScreen: step of the form
    bio,                  \* biometric sign-in: "prompt" if the effect of LoginScreen began
                          \* it and awaits the system's prompt, "button" if a tap did
    biometricEnabled,     \* BIOMETRIC_ENABLED_KEY in the storage
    running,              \* number of login(), register() and loadUser() under way
    logouts,              \* number of logout() under way
    rejected              \* history: a login() was rejected just now

storeVars == <<isInitialized, isLoading, isAuthenticated>>
uiVars    == <<stack, apiError, step, bio>>
vars      == <<storeVars, uiVars, biometricEnabled, running, logouts, rejected>>

Operations == {"login", "register", "loadUser"}
Routes     == {"Splash", "Onboarding", "Login", "Register", "ForgotPassword"}

\* Types of the store's flags and of the screens' state.
TypeOK ==
    /\ isInitialized \in BOOLEAN /\ isLoading \in BOOLEAN /\ isAuthenticated \in BOOLEAN
    /\ apiError \in BOOLEAN /\ step \in 1 .. 3
    /\ stack \in Seq(Routes) /\ Len(stack) <= 3
    /\ bio \in {"none", "checking", "prompt", "button"} /\ biometricEnabled \in BOOLEAN
    /\ running \in [Operations -> Nat] /\ logouts \in Nat /\ rejected \in BOOLEAN

OnlyLoadUser == [f \in Operations |-> IF f = "loadUser" THEN 1 ELSE 0]

\* RootNavigator has mounted and called loadUser().
Init ==
    /\ isInitialized = FALSE /\ isLoading = TRUE /\ isAuthenticated = FALSE
    /\ biometricEnabled \in BOOLEAN
    /\ stack = <<>> /\ apiError = FALSE /\ step = 1 /\ bio = "none"
    /\ running = OnlyLoadUser
    /\ logouts = 0 /\ rejected = FALSE

-----------------------------------------------------------------------------
(* Rendering.                                                              *)

Mounted(r) == Contains(stack, r)
Top(r)     == stack # <<>> /\ Last(stack) = r

\* Variation: the effect of LoginScreen has no clean-up.
Cleanup_NotCancelled(b) == b

\* The effect's biometric sign-in is cancelled when its LoginScreen is unmounted; the
\* button's is not.
Cleanup(b) == IF b = "button" \/ Contains(stack', "Login") THEN b ELSE "none"

\* What is left of the screens' state after the stack has changed; a LoginScreen that
\* is still there shows the error e, and its biometric sign-in is at b.
ScreensKeep(e, b) ==
    /\ apiError' = (e /\ Contains(stack', "Login"))
    /\ bio' = Cleanup(b)
    /\ step' = IF Contains(stack', "Register") THEN step ELSE 1

\* RootNavigator after the store has changed: the loader, the app or the auth screens.
Renders(e, b) ==
    /\ stack' = IF ~isInitialized' \/ isLoading' \/ isAuthenticated' THEN <<>>
                ELSE IF stack = <<>> THEN <<"Splash">> ELSE stack
    /\ ScreensKeep(e, b)

\* Variation: every navigation.navigate(r) pushes.
Navigate_Pushes(r) ==
    /\ stack' = Append(stack, r)
    /\ ScreensKeep(apiError, IF r = "Login" THEN "checking" ELSE bio)

\* navigation.navigate(r): back to r if it is on the stack, where it is the first route.
Navigate(r) ==
    /\ stack' = IF Contains(stack, r) THEN <<r>> ELSE Append(stack, r)
    /\ ScreensKeep(apiError, IF ~Contains(stack, r) /\ r = "Login" THEN "checking" ELSE bio)

\* navigation.replace(r), from a stack of one screen.
Replace(r) ==
    /\ stack' = <<r>>
    /\ ScreensKeep(FALSE, IF r = "Login" THEN "checking" ELSE bio)

-----------------------------------------------------------------------------
(* The screens.  The prompt is the operating system's, and modal: it is    *)
(* assumed that no screen can be used from the call of authenticate() to   *)
(* its result.                                                             *)

Prompted == bio \in {"prompt", "button"}
Usable   == ~Prompted

Moves(do) ==
    /\ do /\ rejected' = FALSE
    /\ UNCHANGED <<storeVars, biometricEnabled, running, logouts>>

SplashTimer      == Top("Splash") /\ Moves(Replace("Onboarding"))
OnboardingNext   == Top("Onboarding") /\ Moves(Replace("Register"))
OnboardingSignIn == Top("Onboarding") /\ Moves(Replace("Login"))
CreateAccount    == Top("Login") /\ Usable /\ Moves(Navigate("Register"))
ForgotPassword   == Top("Login") /\ Usable /\ Moves(Navigate("ForgotPassword"))
AlreadyMember    == Top("Register") /\ Usable /\ Moves(Navigate("Login"))

\* handleStep1 and handleStep2.
NextStep ==
    /\ Top("Register") /\ Usable /\ step < 3
    /\ step' = step + 1 /\ rejected' = FALSE
    /\ UNCHANGED <<storeVars, stack, apiError, bio, biometricEnabled, running, logouts>>

\* The back button of RegisterScreen, from its second step on.
StepBack ==
    /\ Top("Register") /\ Usable /\ step > 1
    /\ step' = step - 1 /\ rejected' = FALSE
    /\ UNCHANGED <<storeVars, stack, apiError, bio, biometricEnabled, running, logouts>>

\* navigation.goBack() by a button of the screen, by the device's button or by a swipe.
GoBack ==
    /\ Len(stack) > 1 /\ Usable
    /\ Moves(stack' = Front(stack) /\ ScreensKeep(apiError, bio))

\* Variation: isLoading is not set.
Starts_Silently(f, b) ==
    /\ rejected' = FALSE
    /\ running' = [running EXCEPT ![f] = @ + 1]
    /\ UNCHANGED <<storeVars, biometricEnabled, logouts>>
    /\ Renders(FALSE, b)

\* login(), register() or loadUser() up to its first await.
Starts(f, b) ==
    /\ isLoading' = TRUE /\ rejected' = FALSE
    /\ running' = [running EXCEPT ![f] = @ + 1]
    /\ UNCHANGED <<isInitialized, isAuthenticated, biometricEnabled, logouts>>
    /\ Renders(FALSE, b)

SubmitLogin    == Top("Login") /\ Usable /\ Starts("login", bio)
SubmitRegister == Top("Register") /\ Usable /\ step = 3 /\ Starts("register", bio)

\* The first effect of LoginScreen has asked for the sensor and the setting.
BiometricChecked ==
    /\ bio = "checking"
    /\ bio' \in (IF biometricEnabled THEN {"prompt", "none"} ELSE {"none"})
    /\ UNCHANGED <<storeVars, stack, apiError, step, biometricEnabled, running, logouts, rejected>>

\* handleBiometricLogin, the button.
BiometricButton ==
    /\ Top("Login") /\ bio = "none" /\ biometricEnabled
    /\ bio' = "button" /\ rejected' = FALSE
    /\ UNCHANGED <<storeVars, stack, apiError, step, biometricEnabled, running, logouts>>

PromptRefused ==
    /\ Prompted /\ bio' = "none"
    /\ UNCHANGED <<storeVars, stack, apiError, step, biometricEnabled, running, logouts, rejected>>

PromptAccepted == Prompted /\ Starts("loadUser", "none")

-----------------------------------------------------------------------------
(* The store's operations end.                                             *)

Ends(f) == running[f] > 0 /\ running' = [running EXCEPT ![f] = @ - 1]

\* login() or register() succeeds.
SignsIn(f) ==
    /\ f \in {"login", "register"} /\ Ends(f)
    /\ isAuthenticated' = TRUE /\ isInitialized' = TRUE /\ isLoading' = FALSE
    /\ Renders(FALSE, bio)
    /\ rejected' = FALSE /\ UNCHANGED <<biometricEnabled, logouts>>

\* login() is rejected: isLoading is cleared, then onSubmit sets apiError.  A wrong
\* password is a 401, whose failed refresh also starts a logout().
LoginFails ==
    /\ Ends("login")
    /\ isLoading' = FALSE
    /\ logouts' \in {logouts, logouts + 1} \cap 0 .. MaxLogouts
    /\ UNCHANGED <<isInitialized, isAuthenticated>>
    /\ Renders(TRUE, bio)
    /\ rejected' = TRUE
    /\ UNCHANGED biometricEnabled

\* register() is rejected.  The server's 400 carries no error.message, so it is never
\* taken for an existing account, and RegisterScreen does not navigate.
RegisterFails ==
    /\ Ends("register")
    /\ isLoading' = FALSE
    /\ UNCHANGED <<isInitialized, isAuthenticated>>
    /\ Renders(FALSE, bio)
    /\ rejected' = FALSE /\ UNCHANGED <<biometricEnabled, logouts>>

\* loadUser() ends, with a user or without.  A biometric sign-in then sets apiError.  A
\* 401 whose refresh failed also starts a logout().
LoadUserEnds(ok) ==
    /\ Ends("loadUser")
    /\ isAuthenticated' = ok /\ isInitialized' = TRUE /\ isLoading' = FALSE
    /\ logouts' \in (IF ~ok THEN {logouts, logouts + 1} ELSE {logouts}) \cap 0 .. MaxLogouts
    /\ Renders(~ok, bio)
    /\ rejected' = FALSE /\ UNCHANGED biometricEnabled

\* Sign Out, or a refresh that failed, also that of a call made before the last sign-out.
StartLogout ==
    /\ logouts < MaxLogouts
    /\ logouts' = logouts + 1 /\ rejected' = FALSE
    /\ UNCHANGED <<storeVars, uiVars, biometricEnabled, running>>

LogoutEnds ==
    /\ logouts > 0 /\ logouts' = logouts - 1
    /\ isAuthenticated' = FALSE
    /\ UNCHANGED <<isInitialized, isLoading>>
    /\ Renders(apiError, bio)
    /\ UNCHANGED <<biometricEnabled, running, rejected>>

\* The alert after a login, or the switch in Settings.
SetBiometric ==
    /\ isAuthenticated /\ ~isLoading
    /\ biometricEnabled' \in BOOLEAN /\ rejected' = FALSE
    /\ UNCHANGED <<storeVars, uiVars, running, logouts>>

\* The app is killed and started again: what is stored is left.
Restart ==
    /\ isInitialized' = FALSE /\ isLoading' = TRUE /\ isAuthenticated' = FALSE
    /\ stack' = <<>> /\ apiError' = FALSE /\ step' = 1 /\ bio' = "none"
    /\ running' = OnlyLoadUser
    /\ logouts' = 0 /\ rejected' = FALSE
    /\ UNCHANGED biometricEnabled

Finishes == LoginFails \/ RegisterFails \/ (\E f \in Operations : SignsIn(f))
                \/ (\E ok \in BOOLEAN : LoadUserEnds(ok))

Next ==
    \/ SplashTimer \/ OnboardingNext \/ OnboardingSignIn \/ CreateAccount \/ ForgotPassword
    \/ AlreadyMember \/ NextStep \/ StepBack \/ GoBack \/ SubmitLogin \/ SubmitRegister
    \/ BiometricChecked \/ BiometricButton \/ PromptRefused \/ PromptAccepted
    \/ Finishes \/ StartLogout \/ LogoutEnds \/ SetBiometric \/ Restart

Spec == Init /\ [][Next]_vars

-----------------------------------------------------------------------------
(* Properties.                                                             *)

\* The loader keeps the operations apart: while login(), register() or loadUser() is
\* under way the loader is shown and none of them can be started a second time, neither
\* by a tap nor by the biometric sign-in that a LoginScreen began before.
OneAtATime ==
    /\ \A f, g \in Operations : running[f] > 0 /\ running[g] > 0 => f = g /\ running[f] = 1
    /\ isLoading <=> \E f \in Operations : running[f] > 0

\* The biometric prompt is shown only over an auth navigator whose LoginScreen asked
\* for it, never over the loader or the app.
PromptBelongs == Prompted => Mounted("Login") /\ ~isLoading /\ ~isAuthenticated

\* A rejected login shows its error (QA_FULL_MANUAL_CHECKLIST.md: "Wrong password shows
\* error").  The LoginScreen that would show it was unmounted by the loader.
WrongPasswordShowsError == rejected => Top("Login") /\ apiError
=============================================================================
