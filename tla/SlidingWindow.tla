--------------------------- MODULE SlidingWindow ---------------------------
(***************************************************************************)
(* Counting events in a window that ends now, the way the rate limiter     *)
(* (kelan/api/server.py) and the sentinels (kelan/sentinel/detector.py,    *)
(* kelan-python/kelan/sentinel/anomaly.py) do: a queue of time stamps,     *)
(* of which those younger than the window are counted.                     *)
(***************************************************************************)
EXTENDS Integers, Sequences, FiniteSets

Within(t, now, window) == now - t < window

RecentM_Inclusive(q, now, window) == SelectSeq(q, LAMBDA t : now - t <= window)

\* [t for t in q if now - t < window]
Recent(q, now, window) ==
    LET Kept[i \in 0..Len(q)] ==
          IF i = 0 THEN << >>
          ELSE IF Within(q[i], now, window) THEN Append(Kept[i - 1], q[i]) ELSE Kept[i - 1]
    IN  Kept[Len(q)]

\* Reference: how many of all the events of a history are in the window.
InWindow(history, now, window) ==
    Cardinality({i \in DOMAIN history : Within(history[i], now, window)})

PushM_NeverDrops(q, t, most) == Append(q, t)

\* append to a deque(maxlen = most).
Push(q, t, most) ==
    LET longer == Append(q, t)
    IN  IF Len(longer) > most THEN Tail(longer) ELSE longer

Least(a, b) == IF a < b THEN a ELSE b
=============================================================================
