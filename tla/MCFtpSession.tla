------------------------------ MODULE MCFtpSession ------------------------------
(* Instances of FtpSession.  DataSpec starts where a login has just ended.      *)
EXTENDS FtpSession

LoggedIn == [Connected EXCEPT !.event = FALSE, !.waiting = FALSE,
                              !.user = TRUE, !.authed = TRUE]

DataSpec == ses = LoggedIn /\ [][Next]_ses /\ Fairness
================================================================================
