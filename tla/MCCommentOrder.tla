--------------------------- MODULE MCCommentOrder ---------------------------
(* The instances of MCCommentHub, with the senders of comments.            *)
EXTENDS MCCommentHub, CommentOrder
=============================================================================
