----------------------------- MODULE MCServices -----------------------------
(***************************************************************************)
(* Five parts that share no state, checked in one run: each behaviour is   *)
(* one of a single part, the others stay where they begin.                 *)
(***************************************************************************)
EXTENDS MCWorker, StatusComments, SignIn, RateLimiter, Supervision

VARIABLE part   \* the part that moves

Parts == {"worker", "comments", "signin", "limiter", "supervision"}
servicesVars ==
  <<part, vars, commentVars, signInVars, limiterVars, supervisionVars>>

ServicesInit ==
  /\ part \in Parts
  /\ Init /\ CommentsInit /\ SignInInit /\ LimiterInit /\ SupervisionInit

ServicesNext ==
  /\ UNCHANGED part
  /\ \/ /\ part = "worker" /\ Next
        /\ UNCHANGED <<commentVars, signInVars, limiterVars, supervisionVars>>
     \/ /\ part = "comments" /\ CommentsNext
        /\ UNCHANGED <<vars, signInVars, limiterVars, supervisionVars>>
     \/ /\ part = "signin" /\ SignInNext
        /\ UNCHANGED <<vars, commentVars, limiterVars, supervisionVars>>
     \/ /\ part = "limiter" /\ LimiterNext
        /\ UNCHANGED <<vars, commentVars, signInVars, supervisionVars>>
     \/ /\ part = "supervision" /\ SupervisionNext
        /\ UNCHANGED <<vars, commentVars, signInVars, limiterVars>>

\* A part that does not move stays where none of its fair steps is enabled.
ServicesSpec ==
  /\ ServicesInit /\ [][ServicesNext]_servicesVars
  /\ SupervisorRuns /\ DispatcherRuns /\ LoopRuns
=============================================================================
