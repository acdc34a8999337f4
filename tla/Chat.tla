--------------------------------- MODULE Chat ---------------------------------
(***************************************************************************)
(* Sockets, the presence cache, conversations and messages.  The cache is   *)
(* in memory and keeps one entry for each email, whatever socket wrote it.  *)
(***************************************************************************)
EXTENDS Naturals, FiniteSets

CONSTANTS Talkers, Writers,       \* users and clients; the users, who start conversations
          Sockets, OwnerOf,
          Authentic,              \* sockets that come with a valid token
          MaxChats, MaxMessages   \* bounds on what is created

\* who has a copy sent: messages.service.ts, or a socket on its own account
Origins == {"service", "socket"}

ASSUME ChatOK == /\ OwnerOf \in [Sockets -> Talkers] /\ "none" \notin Sockets
                 /\ MaxChats \in Nat /\ MaxMessages \in Nat

Nobody == [socket |-> "none", isActive |-> FALSE]

VARIABLES link,      \* state of a socket: new, open, closed
          cache,     \* "user <email>"
          members,   \* participants of the conversations
          chats,     \* creations of conversations in flight
          messages,  \* rows of messages: [id, chat, from]
          posts,     \* messages on their way
          got,       \* the copies a socket was sent: [id, by]
          mixed,     \* history: people who were connected twice at once
          excused    \* history: who was not at one open socket all the time, by message
chatVars == <<link, cache, members, chats, messages, posts, got, mixed, excused>>

presenceVars == <<link, cache, mixed>>
talkVars == <<members, chats, messages, posts, got>>

Chats == 1 .. MaxChats
OpenSockets(p) == {s \in Sockets : OwnerOf[s] = p /\ link[s] = "open"}
ChatsOf(p) == {c \in Chats : p \in members[c]}

\* chats.gateway.ts sendMessage: to the one socket in the cache, which
\* receives it if it is still open; no conversation is looked at
Reached(p) == {s \in Sockets : s = cache[p].socket /\ link[s] = "open"}
Online(p) == Reached(p) # {} /\ p \notin mixed

Deliver(m, p, by) ==
    got' = [s \in Sockets |-> IF s \in Reached(p) THEN got[s] \cup {[id |-> m, by |-> by]} ELSE got[s]]

\* whoever comes or goes is excused from the messages under way
Excuse(p) == excused' = [m \in DOMAIN excused |->
                            IF \E post \in posts : post.id = m THEN excused[m] \cup {p} ELSE excused[m]]

----------------------------------------------------------------------------
\* chats.gateway.ts: connections

SetActiveStatus(p, s, isActive) ==
    cache' = [cache EXCEPT ![p] = [socket |-> s, isActive |-> isActive]]

HandleConnection(s) ==
    /\ link[s] = "new" /\ s \in Authentic
    /\ link' = [link EXCEPT ![s] = "open"]
    /\ SetActiveStatus(OwnerOf[s], s, TRUE)
    /\ mixed' = IF OpenSockets(OwnerOf[s]) = {} THEN mixed ELSE mixed \cup {OwnerOf[s]}
    /\ Excuse(OwnerOf[s])
    /\ UNCHANGED talkVars

\* without a user handleDisconnect only closes the socket
RefuseConnection(s) ==
    /\ link[s] = "new" /\ s \notin Authentic
    /\ link' = [link EXCEPT ![s] = "closed"]
    /\ UNCHANGED <<cache, mixed, talkVars, excused>>

HandleDisconnect(s) ==
    /\ link[s] = "open"
    /\ link' = [link EXCEPT ![s] = "closed"]
    /\ SetActiveStatus(OwnerOf[s], s, FALSE)
    /\ Excuse(OwnerOf[s])
    /\ UNCHANGED <<mixed, talkVars>>

UpdateActiveStatus(s, isActive) ==
    /\ link[s] = "open"
    /\ SetActiveStatus(OwnerOf[s], s, isActive)
    /\ UNCHANGED <<link, mixed, talkVars, excused>>

----------------------------------------------------------------------------
\* chats.controller.ts, chats.service.ts: a conversation of the sender and the receivers

NewChat(c, from, receivers) ==
    /\ \A d \in Chats : d < c => \E k \in chats : k.id = d
    /\ \A k \in chats : k.id # c
    /\ chats' = chats \cup {[id |-> c, from |-> from, all |-> receivers \cup {from}, left |-> {},
                             pc |-> IF Cardinality(receivers) <= 1 THEN "common" ELSE "create"]}
    /\ UNCHANGED <<presenceVars, members, messages, posts, got, excused>>

GoTo(k, pc) == chats' = (chats \ {k}) \cup {[k EXCEPT !.pc = pc]}

\* the conversations are compared by a column they do not have: whenever both have any, they
\* have one in common
FindCommonConversation(k) ==
    /\ k.pc = "common"
    /\ GoTo(k, IF \A p \in k.all : ChatsOf(p) # {} /\ Cardinality(k.all) = 2
               THEN "conflict" ELSE "create")
    /\ UNCHANGED <<presenceVars, members, messages, posts, got, excused>>

CreateConversation(k) ==
    /\ k.pc = "create"
    /\ chats' = (chats \ {k}) \cup {[k EXCEPT !.pc = "participants", !.left = k.all]}
    /\ UNCHANGED <<presenceVars, members, messages, posts, got, excused>>

\* all at once, in any order
CreateParticipant(k, p) ==
    /\ k.pc = "participants" /\ p \in k.left
    /\ members' = [members EXCEPT ![k.id] = @ \cup {p}]
    /\ chats' = (chats \ {k}) \cup {[k EXCEPT !.left = @ \ {p}]}
    /\ excused' = [m \in DOMAIN excused |->
                      IF \E x \in messages : x.id = m /\ x.chat = k.id
                      THEN excused[m] \cup {p} ELSE excused[m]]
    /\ UNCHANGED <<presenceVars, messages, posts, got>>

\* participantCount, and the first message if there is one
EndChat(k) ==
    /\ k.pc = "participants" /\ k.left = {}
    /\ GoTo(k, "done")
    /\ UNCHANGED <<presenceVars, members, messages, posts, got, excused>>

----------------------------------------------------------------------------
\* messages.service.ts create

CreateMessage(c, p) ==
    /\ p \in members[c]
    /\ LET m == Cardinality(messages) + 1
       IN  /\ m <= MaxMessages
           /\ messages' = messages \cup {[id |-> m, chat |-> c, from |-> p]}
           /\ posts' = posts \cup {[id |-> m, chat |-> c, from |-> p, pc |-> "list", to |-> {}]}
           /\ excused' = [excused EXCEPT ![m] = {q \in Talkers : ~Online(q)}]
    /\ UNCHANGED <<presenceVars, members, chats, got>>

ListOthers(post) ==
    /\ post.pc = "list"
    /\ posts' = (posts \ {post})
                  \cup {[post EXCEPT !.pc = "send", !.to = members[post.chat] \ {post.from}]}
    /\ UNCHANGED <<presenceVars, members, chats, messages, got, excused>>

\* a mutant: only the active are sent the message
SendToActive(post, p) ==
    /\ post.pc = "send" /\ p \in post.to
    /\ IF cache[p].isActive THEN Deliver(post.id, p, "service") ELSE UNCHANGED got
    /\ posts' = (posts \ {post}) \cup {[post EXCEPT !.to = @ \ {p}]}
    /\ UNCHANGED <<presenceVars, members, chats, messages, excused>>

\* each receiver's entry is awaited on its own; an inactive one is sent the message too
SendMessage(post, p) ==
    /\ post.pc = "send" /\ p \in post.to
    /\ Deliver(post.id, p, "service")
    /\ posts' = (posts \ {post}) \cup {[post EXCEPT !.to = @ \ {p}]}
    /\ UNCHANGED <<presenceVars, members, chats, messages, excused>>

\* the event of that name: any open socket has any message sent to anybody, made up or copied,
\* before the message of that number exists or after
RelayMessage(s, m, p) ==
    /\ link[s] = "open"
    /\ Deliver(m, p, "socket")
    /\ UNCHANGED <<presenceVars, members, chats, messages, posts, excused>>

EndPost(post) ==
    /\ post.pc = "send" /\ post.to = {}
    /\ posts' = posts \ {post}
    /\ UNCHANGED <<presenceVars, members, chats, messages, got, excused>>

ChatInit ==
    /\ link = [s \in Sockets |-> "new"]
    /\ cache = [p \in Talkers |-> Nobody]
    /\ chats = {} /\ messages = {} /\ posts = {}
    /\ members = [c \in Chats |-> {}]
    /\ got = [s \in Sockets |-> {}]
    /\ mixed = {} /\ excused = [m \in 1 .. MaxMessages |-> {}]

ChatNext ==
    \/ \E s \in Sockets : \/ HandleConnection(s) \/ RefuseConnection(s) \/ HandleDisconnect(s)
                          \/ \E b \in BOOLEAN : UpdateActiveStatus(s, b)
                          \/ \E m \in 1 .. MaxMessages, p \in Talkers : RelayMessage(s, m, p)
    \/ \E c \in Chats : \/ \E p \in Talkers : CreateMessage(c, p)
                        \/ \E p \in Writers : \E R \in SUBSET (Talkers \ {p}) : NewChat(c, p, R)
    \/ \E k \in chats : \/ FindCommonConversation(k) \/ CreateConversation(k) \/ EndChat(k)
                        \/ \E p \in Talkers : CreateParticipant(k, p)
    \/ \E post \in posts : \/ ListOthers(post) \/ EndPost(post)
                           \/ \E p \in Talkers : SendMessage(post, p)

ChatSpec == ChatInit /\ [][ChatNext]_chatVars

----------------------------------------------------------------------------
\* messages.service sends a message to every other member of its conversation who, from its
\* creation until the last copy is sent, sits at one open socket and never had two at once, active
\* or not, whatever the sockets relay meanwhile; and to nobody outside the conversation and not to
\* its sender. A member who comes, goes or joins meanwhile may miss it. What a socket emits as
\* sendMessage on its own account goes to whomever it names: nothing is claimed of that.
OnlineMembersGetTheMessage ==
    \A m \in messages : (\A post \in posts : post.id # m.id) =>
        \A p \in Talkers :
            LET has == \E s \in Sockets : OwnerOf[s] = p /\ [id |-> m.id, by |-> "service"] \in got[s]
            IN  /\ p \in members[m.chat] \ (excused[m.id] \cup {m.from}) => has
                /\ has => p \in members[m.chat] \ {m.from}
=============================================================================
