------------------------------ MODULE OneRequest ------------------------------
(***************************************************************************)
(* What useFetch promises a page (web/src/lib/useFetch.ts): it reads as if *)
(* there were one request at a time, the one for the question the page has *)
(* now, and asking anew made the request before it vanish.  An answer is   *)
(* what the server held at one moment between the question and its arrival;*)
(* it stays on the screen, under its own question, until the next is there *)
(* or a request is lost.                                                   *)
(***************************************************************************)
CONSTANTS Question,
          AnswersTo(_, _)   \* what may be answered to a question from a store

VARIABLES
    store,     \* what the server answers from
    question,  \* what the page asks for
    screen,    \* the last answer, with the question it is to, if there is one
    loading,   \* there is a request ...
    reply,     \* ... and the server has answered it so
    failed     \* the last request was lost

vars == <<store, question, screen, loading, reply, failed>>
pageVars == <<question, screen, loading, reply, failed>>

Ask ==
    /\ question' \in Question
    /\ loading' = TRUE /\ failed' = FALSE /\ reply' = {}
    /\ screen' \in {screen, {}}     \* the page may have been opened anew
    /\ UNCHANGED store

Init ==
    /\ question \in Question
    /\ screen = {} /\ loading = TRUE /\ reply = {} /\ failed = FALSE

Answer ==
    /\ loading /\ reply = {}
    /\ reply' \in {{a} : a \in AnswersTo(store, question)}
    /\ UNCHANGED <<store, question, screen, loading, failed>>

Show ==
    /\ loading
    /\ \E a \in reply : screen' = {[q |-> question, answer |-> a]}
    /\ loading' = FALSE /\ reply' = {}
    /\ UNCHANGED <<store, question, failed>>

Lose ==
    /\ loading
    /\ loading' = FALSE /\ reply' = {} /\ failed' = TRUE /\ screen' = {}
    /\ UNCHANGED <<store, question>>

\* The store goes its own way.
Change == UNCHANGED pageVars

Next == Ask \/ Answer \/ Show \/ Lose \/ Change

Spec == Init /\ [][Next]_vars
===============================================================================
