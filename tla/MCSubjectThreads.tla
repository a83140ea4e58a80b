-------------------------- MODULE MCSubjectThreads --------------------------
(* A small instance of SubjectThreads: somebody the subject reached, and   *)
(* another, whom the host's Answerers names, answering for it or not.      *)
EXTENDS SubjectThreads

CONSTANTS a1, a2

MemberFirst == {s \in [Actors -> Standings] :
                  s[a1] = "audience" /\ s[a2] = "answerer"}
=============================================================================
