-------------------------- MODULE AuthScreensProofs --------------------------
(***************************************************************************)
(* TLAPS proofs about AuthScreens, for any number of logouts under way.    *)
(***************************************************************************)
EXTENDS AuthScreens, TLAPS, SequenceTheorems

\* The stacks that the screens can build.  LoginScreen and RegisterScreen lead to each
\* other; ForgotPasswordScreen is opened by LoginScreen alone.
WithLogin == {<<"Login">>, <<"Login", "Register">>, <<"Register", "Login">>,
              <<"Login", "ForgotPassword">>, <<"Register", "Login", "ForgotPassword">>}
Stacks    == WithLogin \cup {<<>>, <<"Splash">>, <<"Onboarding">>, <<"Register">>}

BioStates == {"none", "checking", "prompt", "button"}

FlagsOK ==
    /\ isInitialized \in BOOLEAN /\ isLoading \in BOOLEAN /\ isAuthenticated \in BOOLEAN
    /\ biometricEnabled \in BOOLEAN
    /\ running \in [Operations -> Nat] /\ logouts \in Nat /\ rejected \in BOOLEAN

\* The screens' state, and that a biometric sign-in has its LoginScreen.
ScreensOK ==
    /\ stack \in Stacks /\ apiError \in BOOLEAN /\ step \in 1 .. 3
    /\ bio \in BioStates
    /\ bio # "none" => stack \in WithLogin

\* The auth navigator is mounted exactly when RootNavigator renders it.
NavigatorMounted == stack = <<>> <=> ~isInitialized \/ isLoading \/ isAuthenticated

ScreenInv == FlagsOK /\ ScreensOK /\ NavigatorMounted /\ OneAtATime

LEMMA LoginInStack ==
  ASSUME NEW s \in Stacks
  PROVE  Contains(s, "Login") <=> s \in WithLogin
<1>1. CASE s = <<>>
  BY <1>1 DEF Contains, WithLogin
<1>2. CASE s \in {<<"Splash">>, <<"Onboarding">>, <<"Register">>}
  BY <1>2 DEF Contains, WithLogin
<1>3. CASE s = <<"Login">> \/ s = <<"Login", "Register">> \/ s = <<"Login", "ForgotPassword">>
  <2>1. s[1] = "Login" /\ 1 \in 1 .. Len(s)
    BY <1>3
  <2> QED
    BY <1>3, <2>1 DEF Contains, WithLogin
<1>4. CASE s = <<"Register", "Login">> \/ s = <<"Register", "Login", "ForgotPassword">>
  <2>1. s[2] = "Login" /\ 2 \in 1 .. Len(s)
    BY <1>4
  <2> QED
    BY <1>4, <2>1 DEF Contains, WithLogin
<1> QED
  BY <1>1, <1>2, <1>3, <1>4 DEF Stacks, WithLogin

LEMMA StackTypes ==
  ASSUME NEW s \in Stacks
  PROVE  s \in Seq(Routes) /\ Len(s) <= 3
<1>1. ASSUME NEW r \in Routes, s = <<r>> PROVE s \in Seq(Routes) /\ Len(s) <= 3
  BY <1>1
<1>2. ASSUME NEW r \in Routes, NEW q \in Routes, s = <<r, q>>
      PROVE  s \in Seq(Routes) /\ Len(s) <= 3
  BY <1>2
<1>3. CASE s = <<"Register", "Login", "ForgotPassword">>
  BY <1>3 DEF Routes
<1>4. CASE s = <<>>
  BY <1>4
<1>5. \/ \E r \in Routes : s = <<r>>
      \/ \E r, q \in Routes : s = <<r, q>>
      \/ s = <<"Register", "Login", "ForgotPassword">> \/ s = <<>>
  BY DEF Stacks, WithLogin, Routes
<1> QED
  BY <1>1, <1>2, <1>3, <1>4, <1>5

\* Which stacks have a given screen on top.
LEMMA TopOf ==
  ASSUME ScreensOK
  PROVE  /\ Top("Splash") => stack = <<"Splash">>
         /\ Top("Onboarding") => stack = <<"Onboarding">>
         /\ Top("Login") => stack \in {<<"Login">>, <<"Register", "Login">>}
         /\ Top("Register") => stack \in {<<"Register">>, <<"Login", "Register">>}
  BY DEF ScreensOK, Stacks, WithLogin, Top, Last

\* Going back takes one route off the stack.
LEMMA FrontOf ==
  ASSUME NEW s \in Seq(Routes), NEW t \in Seq(Routes), Len(s) = Len(t) + 1,
         \A i \in 1 .. Len(t) : s[i] = t[i]
  PROVE  Front(s) = t
<1> DEFINE f == SubSeq(s, 1, Len(t))
<1>1. Len(t) \in Nat /\ Front(s) = f
  BY DEF Front
<1>2. f \in Seq(Routes) /\ Len(f) = Len(t) /\ \A i \in 1 .. Len(t) : f[i] = s[i]
  BY <1>1, SubSeqProperties
<1> HIDE DEF f
<1>3. f = t
  BY <1>2, SeqEqual
<1> QED
  BY <1>1, <1>3

\* Where going back leads.
LEMMA BackFrom ==
  ASSUME NEW s \in Stacks, Len(s) > 1
  PROVE  Front(s) \in Stacks \ {<<>>}
<1>1. ASSUME NEW r \in Routes, NEW q \in Routes, s = <<r, q>> PROVE Front(s) = <<r>>
  <2>1. s \in Seq(Routes) /\ Len(s) = 2 /\ s[1] = r
    BY <1>1
  <2> DEFINE t == <<r>>
  <2>2. t \in Seq(Routes) /\ Len(t) = 1 /\ t[1] = r
    OBVIOUS
  <2> HIDE DEF t
  <2>3. Len(s) = Len(t) + 1 /\ \A i \in 1 .. Len(t) : s[i] = t[i]
    BY <2>1, <2>2
  <2>4. Front(s) = t
    BY <2>1, <2>2, <2>3, FrontOf, Zenon
  <2> QED
    BY <2>4 DEF t
<1>2. CASE s = <<"Register", "Login", "ForgotPassword">>
  <2>1. s \in Seq(Routes) /\ Len(s) = 3 /\ s[1] = "Register" /\ s[2] = "Login"
    BY <1>2, StackTypes
  <2> DEFINE t == <<"Register", "Login">>
  <2>2. t \in Seq(Routes) /\ Len(t) = 2 /\ t[1] = "Register" /\ t[2] = "Login"
    BY StackTypes DEF Stacks, WithLogin
  <2> HIDE DEF t
  <2>3. Len(s) = Len(t) + 1 /\ \A i \in 1 .. Len(t) : s[i] = t[i]
    BY <2>1, <2>2
  <2>4. Front(s) = t
    BY <2>1, <2>2, <2>3, FrontOf, Zenon
  <2> QED
    BY <2>4 DEF t, Stacks, WithLogin
<1>3. \/ s = <<"Login", "Register">> \/ s = <<"Register", "Login">>
      \/ s = <<"Login", "ForgotPassword">> \/ s = <<"Register", "Login", "ForgotPassword">>
  <2>1. Len(<<>>) = 0 /\ \A r \in Routes : Len(<<r>>) = 1
    OBVIOUS
  <2> QED
    BY <2>1 DEF Stacks, WithLogin, Routes
<1> QED
  BY <1>1, <1>2, <1>3 DEF Stacks, WithLogin, Routes

\* The state of the screens follows the stack.
LEMMA KeepsScreens ==
  ASSUME step \in 1 .. 3, stack' \in Stacks, NEW e \in BOOLEAN,
         NEW b \in BioStates, ScreensKeep(e, b),
         b = "button" => stack' \in WithLogin
  PROVE  ScreensOK'
<1>1. Contains(stack', "Login") <=> stack' \in WithLogin
  BY LoginInStack
<1>2. apiError' \in BOOLEAN
  BY DEF ScreensKeep
<1>3. step' \in 1 .. 3
  BY DEF ScreensKeep
<1>4. bio' \in {"none", b} /\ (bio' # "none" => stack' \in WithLogin)
  BY <1>1 DEF ScreensKeep, Cleanup
<1> QED
  BY <1>2, <1>3, <1>4 DEF ScreensOK, WithLogin, BioStates

LEMMA RendersScreens ==
  ASSUME ScreensOK, NEW e \in BOOLEAN, NEW b \in BioStates, Renders(e, b),
         b = "button" => stack' \in WithLogin
  PROVE  ScreensOK' /\ NavigatorMounted'
<1>1. stack' \in Stacks /\ NavigatorMounted'
  BY DEF Renders, ScreensOK, Stacks, NavigatorMounted
<1> QED
  BY <1>1, KeepsScreens DEF Renders, ScreensOK

-----------------------------------------------------------------------------
(* Moves between the screens.                                              *)

\* A step that keeps the store and stays in the auth navigator.
LEMMA StaysInNavigator ==
  ASSUME ScreenInv, ScreensOK', stack # <<>>, stack' # <<>>, rejected' \in BOOLEAN,
         UNCHANGED <<storeVars, biometricEnabled, running, logouts>>
  PROVE  ScreenInv'
<1>1. /\ UNCHANGED <<isInitialized, isLoading, isAuthenticated>>
      /\ UNCHANGED <<biometricEnabled, running, logouts>>
  BY DEF storeVars
<1>2. FlagsOK'
  BY <1>1 DEF ScreenInv, FlagsOK
<1>3. NavigatorMounted'
  BY <1>1 DEF ScreenInv, NavigatorMounted
<1>4. OneAtATime'
  BY <1>1 DEF ScreenInv, OneAtATime
<1> QED
  BY <1>2, <1>3, <1>4 DEF ScreenInv

LEMMA ReplaceScreens ==
  ASSUME ScreenInv, NEW r \in {"Onboarding", "Register", "Login"}, Usable, stack # <<>>,
         Moves(Replace(r))
  PROVE  ScreenInv'
<1>1. stack' \in Stacks /\ stack' # <<>>
  BY DEF Moves, Replace, Stacks, WithLogin
<1>2. PICK b \in BioStates \ {"button"} : ScreensKeep(FALSE, b)
  BY DEF Moves, Replace, ScreenInv, ScreensOK, BioStates, Usable, Prompted
<1>3. ScreensOK'
  BY <1>1, <1>2, KeepsScreens DEF ScreenInv, ScreensOK
<1>4. rejected' \in BOOLEAN /\ UNCHANGED <<storeVars, biometricEnabled, running, logouts>>
  BY DEF Moves
<1> QED
  BY <1>1, <1>3, <1>4, StaysInNavigator

LEMMA AppendTo ==
  ASSUME NEW s \in Seq(Routes), NEW t \in Seq(Routes), NEW r \in Routes,
         Len(t) = Len(s) + 1, \A i \in 1 .. Len(s) : t[i] = s[i], t[Len(s) + 1] = r
  PROVE  Append(s, r) = t
<1> DEFINE f == Append(s, r)
<1>1. /\ Len(s) \in Nat /\ f \in Seq(Routes) /\ Len(f) = Len(s) + 1
      /\ \A i \in 1 .. Len(s) : f[i] = s[i]
      /\ f[Len(s) + 1] = r
  OBVIOUS
<1> HIDE DEF f
<1>2. \A i \in 1 .. Len(f) : f[i] = t[i]
  BY <1>1
<1>3. f = t
  BY <1>1, <1>2, SeqEqual
<1> QED
  BY <1>3 DEF f

\* A route pushed on one or on two others.
LEMMA PushOnOne ==
  ASSUME NEW q \in Routes, NEW r \in Routes
  PROVE  Append(<<q>>, r) = <<q, r>>
<1> DEFINE s == <<q>>
           t == <<q, r>>
<1>1. /\ s \in Seq(Routes) /\ Len(s) = 1 /\ s[1] = q
      /\ t \in Seq(Routes) /\ Len(t) = 2 /\ t[1] = q /\ t[2] = r
  OBVIOUS
<1> HIDE DEF s, t
<1>2. Len(t) = Len(s) + 1 /\ (\A i \in 1 .. Len(s) : t[i] = s[i]) /\ t[Len(s) + 1] = r
  BY <1>1
<1>3. Append(s, r) = t
  BY <1>1, <1>2, AppendTo, Zenon
<1> QED
  BY <1>3 DEF s, t

LEMMA PushOnTwo ==
  ASSUME NEW p \in Routes, NEW q \in Routes, NEW r \in Routes
  PROVE  Append(<<p, q>>, r) = <<p, q, r>>
<1> DEFINE s == <<p, q>>
           t == <<p, q, r>>
<1>1. /\ s \in Seq(Routes) /\ Len(s) = 2 /\ s[1] = p /\ s[2] = q
      /\ t \in Seq(Routes) /\ Len(t) = 3 /\ t[1] = p /\ t[2] = q /\ t[3] = r
  OBVIOUS
<1> HIDE DEF s, t
<1>2. Len(t) = Len(s) + 1 /\ (\A i \in 1 .. Len(s) : t[i] = s[i]) /\ t[Len(s) + 1] = r
  BY <1>1
<1>3. Append(s, r) = t
  BY <1>1, <1>2, AppendTo, Zenon
<1> QED
  BY <1>3 DEF s, t

\* navigate pushes a route or goes back to the first one.
LEMMA NavigateLeadsTo ==
  ASSUME ScreensOK, NEW r \in Routes, Navigate(r),
         \/ Top("Login") /\ r \in {"Register", "ForgotPassword"}
         \/ Top("Register") /\ r = "Login"
  PROVE  stack' \in Stacks /\ stack # <<>> /\ stack' # <<>>
<1>1. CASE stack = <<"Login">> /\ r \in {"Register", "ForgotPassword"}
  <2>1. Append(stack, r) = <<"Login", r>>
    BY <1>1, PushOnOne DEF Routes
  <2>2. Len(stack) = 1 /\ stack[1] = "Login"
    BY <1>1
  <2>3. ~Contains(stack, r)
    BY <1>1, <2>2 DEF Contains
  <2> QED
    BY <1>1, <2>1, <2>3 DEF Navigate, Stacks, WithLogin
<1>2. CASE stack = <<"Register", "Login">> /\ r \in {"Register", "ForgotPassword"}
  <2>1. Append(stack, r) = <<"Register", "Login", r>>
    BY <1>2, PushOnTwo DEF Routes
  <2>2. Len(stack) = 2 /\ stack[1] = "Register" /\ stack[2] = "Login"
    BY <1>2
  <2>3. Contains(stack, r) <=> r = "Register"
    BY <1>2, <2>2 DEF Contains
  <2> QED
    BY <1>2, <2>1, <2>3 DEF Navigate, Stacks, WithLogin
<1>3. CASE stack = <<"Register">> /\ r = "Login"
  <2>1. Append(stack, r) = <<"Register", "Login">>
    BY <1>3, PushOnOne DEF Routes
  <2> QED
    BY <1>3, <2>1 DEF Navigate, Stacks, WithLogin
<1>4. CASE stack = <<"Login", "Register">> /\ r = "Login"
  <2>1. stack[1] = "Login" /\ 1 \in 1 .. Len(stack)
    BY <1>4
  <2>2. Contains(stack, r)
    BY <1>4, <2>1 DEF Contains
  <2> QED
    BY <1>4, <2>2 DEF Navigate, Stacks, WithLogin
<1> QED
  BY <1>1, <1>2, <1>3, <1>4, TopOf

LEMMA NavigateScreens ==
  ASSUME ScreenInv, NEW r \in Routes, Moves(Navigate(r)), Usable,
         \/ Top("Login") /\ r \in {"Register", "ForgotPassword"}
         \/ Top("Register") /\ r = "Login"
  PROVE  ScreenInv'
<1>1. /\ Navigate(r) /\ rejected' \in BOOLEAN
      /\ UNCHANGED <<storeVars, biometricEnabled, running, logouts>>
  BY DEF Moves
<1>2. stack' \in Stacks /\ stack # <<>> /\ stack' # <<>>
  BY <1>1, NavigateLeadsTo DEF ScreenInv
<1>3. apiError \in BOOLEAN /\ step \in 1 .. 3 /\ bio \in BioStates \ {"button"}
  BY DEF ScreenInv, ScreensOK, Usable, Prompted
<1>4. PICK b \in BioStates \ {"button"} : ScreensKeep(apiError, b)
  BY <1>1, <1>3 DEF Navigate, BioStates
<1>5. ScreensOK'
  BY <1>2, <1>3, <1>4, KeepsScreens
<1> QED
  BY <1>1, <1>2, <1>5, StaysInNavigator

LEMMA GoBackScreens ==
  ASSUME ScreenInv, GoBack
  PROVE  ScreenInv'
<1>1. /\ Len(stack) > 1 /\ stack' = Front(stack) /\ ScreensKeep(apiError, bio) /\ bio # "button"
      /\ rejected' \in BOOLEAN /\ UNCHANGED <<storeVars, biometricEnabled, running, logouts>>
  BY DEF GoBack, Moves, Usable, Prompted
<1>2. stack' \in Stacks /\ stack' # <<>> /\ stack # <<>>
  BY <1>1, BackFrom DEF ScreenInv, ScreensOK
<1>3. ScreensOK'
  BY <1>1, <1>2, KeepsScreens DEF ScreenInv, ScreensOK
<1> QED
  BY <1>1, <1>2, <1>3, StaysInNavigator

\* Steps on a screen that leave the stack alone.
LEMMA ScreenSteps ==
  ASSUME ScreenInv, NextStep \/ StepBack \/ BiometricChecked \/ BiometricButton \/ PromptRefused
  PROVE  ScreenInv'
<1>1. /\ stack' = stack /\ apiError' = apiError /\ rejected' \in BOOLEAN
      /\ UNCHANGED <<storeVars, biometricEnabled, running, logouts>>
  BY DEF NextStep, StepBack, BiometricChecked, BiometricButton, PromptRefused, Prompted, ScreenInv, FlagsOK
<1>2. /\ step \in 1 .. 3 /\ bio \in BioStates
      /\ bio # "none" => stack \in WithLogin
  BY DEF ScreenInv, ScreensOK
<1>3. stack # <<>> /\ (Top("Login") => stack \in WithLogin)
  <2>1. bio # "none" => stack # <<>>
    BY <1>2 DEF WithLogin
  <2>2. Top("Login") => stack \in WithLogin
    BY TopOf DEF ScreenInv, WithLogin
  <2> QED
    BY <2>1, <2>2 DEF NextStep, StepBack, BiometricChecked, BiometricButton, PromptRefused, Prompted, Top
<1>4. step' \in 1 .. 3
  BY <1>2 DEF NextStep, StepBack, BiometricChecked, BiometricButton, PromptRefused
<1>5. bio' \in BioStates /\ (bio' # "none" => stack \in WithLogin)
  BY <1>2, <1>3 DEF NextStep, StepBack, BiometricChecked, BiometricButton, PromptRefused,
                    Prompted, BioStates
<1>6. ScreensOK'
  BY <1>1, <1>4, <1>5 DEF ScreenInv, ScreensOK
<1> QED
  BY <1>1, <1>3, <1>6, StaysInNavigator

-----------------------------------------------------------------------------
(* The store's operations.                                                 *)

\* An operation starts only from a screen, hence while none is under way.
LEMMA StartsScreens ==
  ASSUME ScreenInv, stack # <<>>, NEW f \in Operations, NEW b \in BioStates \ {"button"},
         Starts(f, b)
  PROVE  ScreenInv'
<1>1. ~isLoading /\ running \in [Operations -> Nat]
  BY DEF ScreenInv, NavigatorMounted, FlagsOK
<1>2. \A g \in Operations : running[g] = 0
  BY <1>1 DEF ScreenInv, OneAtATime
<1>3. /\ isLoading' = TRUE /\ running' = [running EXCEPT ![f] = running[f] + 1]
      /\ rejected' = FALSE /\ Renders(FALSE, b)
      /\ UNCHANGED <<isInitialized, isAuthenticated, biometricEnabled, logouts>>
  BY DEF Starts
<1>4. ScreensOK' /\ NavigatorMounted'
  BY <1>3, RendersScreens DEF ScreenInv
<1>5. \A g \in Operations : running'[g] = IF g = f THEN 1 ELSE 0
  BY <1>1, <1>2, <1>3
<1>6. FlagsOK'
  <2>1. running' \in [Operations -> Nat] /\ logouts' \in Nat
    BY <1>1, <1>3 DEF ScreenInv, FlagsOK
  <2> QED
    BY <1>3, <2>1, Zenon DEF ScreenInv, FlagsOK
<1>7. OneAtATime'
  BY <1>3, <1>5 DEF OneAtATime
<1> QED
  BY <1>4, <1>6, <1>7 DEF ScreenInv

\* When the operation under way ends, none is left.
LEMMA EndsLast ==
  ASSUME ScreenInv, NEW f \in Operations, Ends(f)
  PROVE  /\ running' \in [Operations -> Nat] /\ \A g \in Operations : running'[g] = 0
         /\ isLoading
<1>1. running \in [Operations -> Nat] /\ running[f] > 0
  BY DEF ScreenInv, FlagsOK, Ends
<1>2. running[f] = 1 /\ isLoading
  BY <1>1 DEF ScreenInv, OneAtATime
<1>3. \A g \in Operations \ {f} : running[g] = 0
  BY <1>1 DEF ScreenInv, OneAtATime
<1> QED
  BY <1>1, <1>2, <1>3 DEF Ends

LEMMA FinishesScreens ==
  ASSUME ScreenInv, Finishes
  PROVE  ScreenInv'
<1>1. PICK f \in Operations : Ends(f)
  BY DEF Finishes, LoginFails, RegisterFails, SignsIn, LoadUserEnds, Operations
<1>2. /\ running' \in [Operations -> Nat] /\ \A g \in Operations : running'[g] = 0
  BY <1>1, EndsLast
<1>3. isLoading' = FALSE
  BY DEF Finishes, LoginFails, RegisterFails, SignsIn, LoadUserEnds
<1>4. PICK e \in BOOLEAN : Renders(e, bio)
  BY DEF Finishes, LoginFails, RegisterFails, SignsIn, LoadUserEnds
<1>b. bio = "none"
  <2>1. stack = <<>>
    BY <1>1, EndsLast DEF ScreenInv, NavigatorMounted
  <2> QED
    BY <2>1 DEF ScreenInv, ScreensOK, WithLogin
<1>5. ScreensOK' /\ NavigatorMounted'
  BY <1>4, <1>b, RendersScreens DEF ScreenInv, BioStates
<1>6. OneAtATime'
  BY <1>2, <1>3 DEF OneAtATime
<1>7. /\ isInitialized' \in BOOLEAN /\ isAuthenticated' \in BOOLEAN
      /\ rejected' \in BOOLEAN /\ biometricEnabled' \in BOOLEAN
  <2>0. /\ isInitialized \in BOOLEAN /\ isAuthenticated \in BOOLEAN
        /\ biometricEnabled \in BOOLEAN
    BY DEF ScreenInv, FlagsOK
  <2>1. CASE LoginFails
    BY <2>0, <2>1, Zenon DEF LoginFails
  <2>2. CASE RegisterFails
    BY <2>0, <2>2, Zenon DEF RegisterFails
  <2>3. ASSUME NEW g \in Operations, SignsIn(g)
        PROVE  /\ isInitialized' \in BOOLEAN /\ isAuthenticated' \in BOOLEAN
               /\ rejected' \in BOOLEAN
               /\ biometricEnabled' \in BOOLEAN
    BY <2>0, <2>3, Zenon DEF SignsIn
  <2>4. ASSUME NEW ok \in BOOLEAN, LoadUserEnds(ok)
        PROVE  /\ isInitialized' \in BOOLEAN /\ isAuthenticated' \in BOOLEAN
               /\ rejected' \in BOOLEAN
               /\ biometricEnabled' \in BOOLEAN
    BY <2>0, <2>4, Zenon DEF LoadUserEnds
  <2> QED
    BY <2>1, <2>2, <2>3, <2>4 DEF Finishes
<1>8. logouts' \in Nat
  <2>1. logouts \in Nat
    BY DEF ScreenInv, FlagsOK
  <2>2. logouts' \in {logouts, logouts + 1}
    BY Zenon DEF Finishes, LoginFails, RegisterFails, SignsIn, LoadUserEnds
  <2> QED
    BY <2>1, <2>2
<1>9. FlagsOK'
  BY <1>2, <1>3, <1>7, <1>8 DEF FlagsOK
<1> QED
  BY <1>5, <1>6, <1>9 DEF ScreenInv

LEMMA LogoutScreens ==
  ASSUME ScreenInv, LogoutEnds
  PROVE  ScreenInv'
<1>1. /\ logouts > 0 /\ logouts' = logouts - 1 /\ isAuthenticated' = FALSE
      /\ UNCHANGED <<isInitialized, isLoading, biometricEnabled, running, rejected>>
      /\ Renders(apiError, bio)
  BY DEF LogoutEnds
<1>2. apiError \in BOOLEAN
  BY DEF ScreenInv, ScreensOK
<1>b. bio = "button" => stack' \in WithLogin
  <2> SUFFICES ASSUME bio = "button" PROVE stack' \in WithLogin
    OBVIOUS
  <2>1. stack \in WithLogin /\ stack # <<>>
    BY DEF ScreenInv, ScreensOK, WithLogin
  <2>2. isInitialized' /\ ~isLoading' /\ ~isAuthenticated'
    BY <1>1, <2>1 DEF ScreenInv, NavigatorMounted
  <2> QED
    BY <1>1, <2>1, <2>2 DEF Renders
<1>3. ScreensOK' /\ NavigatorMounted'
  BY <1>1, <1>2, <1>b, RendersScreens DEF ScreenInv, ScreensOK
<1>4. FlagsOK'
  <2>1. logouts' \in Nat
    BY <1>1 DEF ScreenInv, FlagsOK
  <2> QED
    BY <1>1, <2>1, Zenon DEF ScreenInv, FlagsOK
<1>5. OneAtATime'
  BY <1>1 DEF ScreenInv, OneAtATime
<1> QED
  BY <1>3, <1>4, <1>5 DEF ScreenInv

\* Steps that leave the flags and the screens alone.
LEMMA AppScreens ==
  ASSUME ScreenInv, StartLogout \/ SetBiometric
  PROVE  ScreenInv'
<1>1. /\ UNCHANGED <<isInitialized, isLoading, isAuthenticated, running>>
      /\ UNCHANGED <<stack, apiError, step, bio>>
  BY DEF StartLogout, SetBiometric, storeVars, uiVars
<1>2. ScreensOK' /\ NavigatorMounted'
  BY <1>1 DEF ScreenInv, ScreensOK, NavigatorMounted
<1>3. FlagsOK'
  <2>1. logouts' \in Nat
    BY DEF StartLogout, SetBiometric, ScreenInv, FlagsOK
  <2>2. rejected' \in BOOLEAN /\ biometricEnabled' \in BOOLEAN
    BY Zenon DEF StartLogout, SetBiometric, ScreenInv, FlagsOK
  <2> QED
    BY <1>1, <2>1, <2>2, Zenon DEF ScreenInv, FlagsOK
<1>4. OneAtATime'
  BY <1>1 DEF ScreenInv, OneAtATime
<1> QED
  BY <1>2, <1>3, <1>4 DEF ScreenInv

LEMMA OnlyLoadUserRuns ==
  /\ OnlyLoadUser \in [Operations -> Nat]
  /\ \A f \in Operations : OnlyLoadUser[f] = IF f = "loadUser" THEN 1 ELSE 0
  BY DEF OnlyLoadUser

LEMMA RestartScreens ==
  ASSUME ScreenInv, Restart
  PROVE  ScreenInv'
<1>1. FlagsOK'
  BY OnlyLoadUserRuns DEF Restart, ScreenInv, FlagsOK
<1>2. ScreensOK'
  <2>1. apiError' \in BOOLEAN
    BY Zenon DEF Restart
  <2>2. step' \in 1 .. 3
    BY DEF Restart
  <2>3. stack' \in Stacks
    BY DEF Restart, Stacks
  <2> QED
    BY <2>1, <2>2, <2>3 DEF Restart, ScreensOK, BioStates
<1>3. NavigatorMounted'
  BY DEF Restart, NavigatorMounted
<1>4. OneAtATime'
  BY OnlyLoadUserRuns DEF Restart, OneAtATime, Operations
<1> QED
  BY <1>1, <1>2, <1>3, <1>4 DEF ScreenInv

LEMMA InitScreens == Init => ScreenInv
<1> SUFFICES ASSUME Init PROVE ScreenInv
  OBVIOUS
<1>1. FlagsOK
  BY OnlyLoadUserRuns DEF Init, FlagsOK
<1>2. ScreensOK
  <2>1. apiError \in BOOLEAN
    BY Zenon DEF Init
  <2>2. step \in 1 .. 3
    BY DEF Init
  <2>3. stack \in Stacks
    BY DEF Init, Stacks
  <2> QED
    BY <2>1, <2>2, <2>3 DEF Init, ScreensOK, BioStates
<1>3. NavigatorMounted
  BY DEF Init, NavigatorMounted
<1>4. OneAtATime
  BY OnlyLoadUserRuns DEF Init, OneAtATime, Operations
<1> QED
  BY <1>1, <1>2, <1>3, <1>4 DEF ScreenInv

LEMMA NextScreens == ScreenInv /\ [Next]_vars => ScreenInv'
<1> SUFFICES ASSUME ScreenInv, [Next]_vars PROVE ScreenInv'
  OBVIOUS
<1>1. CASE SplashTimer \/ OnboardingNext \/ OnboardingSignIn
  <2>1. stack \in {<<"Splash">>, <<"Onboarding">>}
    BY <1>1, TopOf DEF SplashTimer, OnboardingNext, OnboardingSignIn, ScreenInv
  <2>2. Usable
    BY <2>1 DEF ScreenInv, ScreensOK, WithLogin, Usable, Prompted
  <2> QED
    BY <1>1, <2>2, ReplaceScreens DEF SplashTimer, OnboardingNext, OnboardingSignIn, Top
<1>2. CASE CreateAccount \/ ForgotPassword \/ AlreadyMember
  BY <1>2, NavigateScreens DEF CreateAccount, ForgotPassword, AlreadyMember, Routes
<1>3. CASE NextStep \/ StepBack \/ BiometricChecked \/ BiometricButton \/ PromptRefused
  BY <1>3, ScreenSteps
<1>4. CASE GoBack
  BY <1>4, GoBackScreens
<1>5. CASE SubmitLogin \/ SubmitRegister
  <2>1. bio \in BioStates \ {"button"}
    BY <1>5 DEF SubmitLogin, SubmitRegister, Usable, Prompted, ScreenInv, ScreensOK
  <2> QED
    BY <1>5, <2>1, StartsScreens DEF SubmitLogin, SubmitRegister, Top, Operations
<1>6. CASE PromptAccepted
  <2>1. stack # <<>>
    BY <1>6 DEF PromptAccepted, Prompted, ScreenInv, ScreensOK, WithLogin
  <2> QED
    BY <1>6, <2>1, StartsScreens DEF PromptAccepted, Operations, BioStates
<1>7. CASE Finishes
  BY <1>7, FinishesScreens
<1>8. CASE LogoutEnds
  BY <1>8, LogoutScreens
<1>9. CASE StartLogout \/ SetBiometric
  BY <1>9, AppScreens
<1>10. CASE Restart
  BY <1>10, RestartScreens
<1>11. CASE UNCHANGED vars
  BY <1>11 DEF vars, storeVars, uiVars, ScreenInv, FlagsOK, ScreensOK, NavigatorMounted, OneAtATime
<1> QED
  BY <1>1, <1>2, <1>3, <1>4, <1>5, <1>6, <1>7, <1>8, <1>9, <1>10, <1>11 DEF Next

-----------------------------------------------------------------------------

LEMMA ScreensHold == Spec => []ScreenInv
  BY InitScreens, NextScreens, PTL DEF Spec

\* The store's flags and the screens' state keep their types; the auth navigator is never
\* more than three screens deep.
THEOREM TypeCorrect == Spec => []TypeOK
<1>1. ScreenInv => TypeOK
  <2> SUFFICES ASSUME ScreenInv PROVE TypeOK
    OBVIOUS
  <2>1. stack \in Seq(Routes) /\ Len(stack) <= 3
    BY StackTypes DEF ScreenInv, ScreensOK
  <2> QED
    BY <2>1 DEF ScreenInv, FlagsOK, ScreensOK, BioStates, TypeOK
<1> QED
  BY <1>1, ScreensHold, PTL

\* login(), register() and loadUser() are never under way together or twice, and the
\* loader is shown exactly while one of them is, however many logouts overlap.
THEOREM OperationsKeptApart == Spec => []OneAtATime
<1>1. ScreenInv => OneAtATime
  BY DEF ScreenInv
<1> QED
  BY <1>1, ScreensHold, PTL

\* A biometric prompt always has its LoginScreen under it.
THEOREM PromptHasItsScreen == Spec => []PromptBelongs
<1>1. ScreenInv => PromptBelongs
  <2> SUFFICES ASSUME ScreenInv, Prompted
               PROVE  Mounted("Login") /\ ~isLoading /\ ~isAuthenticated
    BY DEF PromptBelongs
  <2>1. stack \in Stacks /\ stack \in WithLogin /\ stack # <<>>
    BY DEF ScreenInv, ScreensOK, WithLogin, Prompted
  <2>2. Mounted("Login")
    BY <2>1, LoginInStack DEF Mounted
  <2> QED
    BY <2>1, <2>2 DEF ScreenInv, NavigatorMounted
<1> QED
  BY <1>1, ScreensHold, PTL
=============================================================================
