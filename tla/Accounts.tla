------------------------------ MODULE Accounts ------------------------------
(***************************************************************************)
(* Accounts of the v4 server (kelan/api/server.py): organisations are kept *)
(* in memory only, while the tokens that name them are valid for a day and *)
(* the entities that belong to them are in the database, so that a restart *)
(* forgets the first and neither of the others.  No handler awaits between *)
(* its look at the organisations and its change of them.                   *)
(*                                                                         *)
(* The rate limit, checked first, is module RateLimiter's; a sign-in whose *)
(* password is not the one that was hashed changes nothing.                *)
(***************************************************************************)
EXTENDS Integers, FiniteSets

CONSTANTS
    Emails,
    Orgs,      \* ids of organisations, drawn at random, never twice
    Entities,  \* ids of entities, drawn at random
    Lifetime,  \* of a token, 24 h
    LastTick,  \* bound on the clock
    None       \* no organisation

VARIABLES
    now,            \* time.time()
    organisations,  \* _organisations: the id of each email's organisation
    tokens,         \* tokens issued: claims, and the life of the server in which
    rows,           \* the table of entities: org_id
    drawn,          \* history: for whom each id was drawn
    life            \* history: how often the server has been started

vars == <<now, organisations, tokens, rows, drawn, life>>

TypeOK ==
    /\ now \in 0..LastTick
    /\ organisations \in [Emails -> Orgs \cup {None}]
    /\ tokens \subseteq [email : Emails, org : Orgs, exp : Nat, life : Nat]
    /\ rows \in [Entities -> Orgs \cup {None}]
    /\ drawn \in [Orgs -> Emails \cup {None}]
    /\ life \in Nat

Init ==
    /\ now = 0
    /\ organisations = [e \in Emails |-> None]
    /\ tokens = {}
    /\ rows = [x \in Entities |-> None]
    /\ drawn = [o \in Orgs |-> None]
    /\ life = 1

Issue(e, o) ==
    tokens' = tokens \cup {[email |-> e, org |-> o, exp |-> now + Lifetime, life |-> life]}

SignupM_RegistersAgain(e, o) ==
    /\ drawn[o] = None
    /\ drawn' = [drawn EXCEPT ![o] = e]
    /\ organisations' = [organisations EXCEPT ![e] = o]
    /\ Issue(e, o)
    /\ UNCHANGED <<now, rows, life>>

\* signup: 409 for an email that is registered.
Signup(e, o) ==
    /\ organisations[e] = None
    /\ drawn[o] = None
    /\ drawn' = [drawn EXCEPT ![o] = e]
    /\ organisations' = [organisations EXCEPT ![e] = o]
    /\ Issue(e, o)
    /\ UNCHANGED <<now, rows, life>>

\* signin, with the right password.
Signin(e) ==
    /\ organisations[e] # None
    /\ Issue(e, organisations[e])
    /\ UNCHANGED <<now, organisations, rows, drawn, life>>

\* decode_jwt: a token may still be used in the second in which it expires.
Valid(t) == now <= t.exp

\* create_entity, of which every other handler is in module EntityRegistry.
CreateEntity(t, x) ==
    /\ Valid(t)
    /\ rows[x] = None
    /\ rows' = [rows EXCEPT ![x] = t.org]
    /\ UNCHANGED <<now, organisations, tokens, drawn, life>>

\* list_entities
Listed(t) == {x \in Entities : rows[x] = t.org}

\* The secret is a setting, so tokens outlive the process.
Restart ==
    /\ organisations' = [e \in Emails |-> None]
    /\ life' = life + 1
    /\ UNCHANGED <<now, tokens, rows, drawn>>

Tick == now < LastTick /\ now' = now + 1 /\ UNCHANGED <<organisations, tokens, rows, drawn, life>>

MostLives == 2

Next ==
    \/ \E e \in Emails : Signin(e) \/ \E o \in Orgs : Signup(e, o)
    \/ \E t \in tokens, x \in Entities : CreateEntity(t, x)
    \/ (life < MostLives /\ Restart)
    \/ Tick

Spec == Init /\ [][Next]_vars

-----------------------------------------------------------------------------
\* A token that this life of the server issued names the organisation that is
\* registered under its email, which /api/auth/me shows; two tokens with
\* different emails list no entity in common, even across a restart that
\* forgot the organisations.
OneOrganisation ==
    /\ \A t \in tokens : t.life = life => t.org = organisations[t.email]
    /\ \A t, u \in tokens : t.email # u.email => Listed(t) \cap Listed(u) = {}
=============================================================================
