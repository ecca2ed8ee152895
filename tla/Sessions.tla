------------------------------- MODULE Sessions -------------------------------
(* The RefreshToken table, as a function from token to row.  revokedAt is  *)
(* set by a rotation and by nothing else: a row is live, rotated within    *)
(* the grace of REFRESH_ROTATION_GRACE_MS, or rotated before it.  Whatever *)
(* else ends a token deletes its row.                                      *)
EXTENDS Naturals

Gone      == [uid |-> 0, state |-> "gone"]
RowStates == {"gone", "live", "graced", "rotated"}

NoSessions(Token) == [t \in Token |-> Gone]

Sessions(Token, Uid) == [Token -> [uid : Uid \cup {0}, state : RowStates]]

(* A token is 256 bits of randomness: never one handed out before.         *)
IssueTokens(rows, t, uid) == [rows EXCEPT ![t] = [uid |-> uid, state |-> "live"]]

RotateToken(rows, t) == [rows EXCEPT ![t].state = "graced"]

GraceEnds(rows, t) == [rows EXCEPT ![t].state = "rotated"]

Logout(rows, t) == [rows EXCEPT ![t] = Gone]

EndAllSessions(rows, uid) ==
  [t \in DOMAIN rows |->
     IF rows[t].uid = uid /\ rows[t].state = "live" THEN Gone ELSE rows[t]]

(* The User row took its tokens with it (onDelete: Cascade).               *)
CascadeSessions(rows, uids) ==
  [t \in DOMAIN rows |-> IF rows[t].uid \in uids THEN Gone ELSE rows[t]]

Live(rows) == {t \in DOMAIN rows : rows[t].state = "live"}
=============================================================================
