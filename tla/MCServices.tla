----------------------------- MODULE MCServices -----------------------------
(* Instances of Services for TLC. *)
EXTENDS Services, TLC

CONSTANTS p1, c1, c2, u1, u2, u3

\* The services never move together, so they share names: {c1, c2} are the sessions,
\* requests and generators in progress and the Telegram entities, u1 and u2 the clients,
\* the handles and, with u3, the watched values.
Post(chat, id, by, reply, text, url, dated) ==
    [chat |-> chat, id |-> id, by |-> by, reply |-> reply, text |-> text, url |-> url,
     dated |-> dated]

\* One message of each kind the classifier tells apart, in one chat, another or none, with
\* two that share a key.
MCPosts == {Post("c", 1, "target", FALSE, {}, TRUE, TRUE),
            Post("c", 2, "other", TRUE, {"mention"}, TRUE, FALSE),
            Post("d", 1, "other", FALSE, {"mention", "indicator"}, TRUE, TRUE),
            Post("d", 2, "other", FALSE, {"name"}, FALSE, TRUE),
            Post(NoChat, 1, "other", FALSE, {"mention"}, FALSE, TRUE),
            Post(NoChat, 1, "other", TRUE, {"indicator"}, FALSE, FALSE)}

Symmetry == Permutations({c1, c2}) \cup Permutations({u1, u2})
=============================================================================
