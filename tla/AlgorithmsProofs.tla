------------------------- MODULE AlgorithmsProofs -------------------------
(***************************************************************************)
(* Theorems about the parts of the program that compute, for every input   *)
(* and not only for the samples that MCAlgorithms picks.                   *)
(***************************************************************************)
EXTENDS MCAlgorithms, SequenceTheorems, FiniteSetTheorems, WellFoundedInduction, TLAPS

-----------------------------------------------------------------------------
(* UdpNat: the sockets of the udp proxy and of a mapped port, for any      *)
(* number of sources, hosts, sockets and datagrams.                        *)

Partial(S, T) == UNION {[D -> T] : D \in SUBSET S}
Tasks == [source : Sources, to : Hosts, at : {"recv", "inner", "nat", "done"}]
Machines ==
    [fixed : Hosts \cup {NO_DEST}, nat : Partial(Sources, Hosts), inner : Partial(Sources, Nat),
     tasks : Seq(Tasks), queue : Seq(Sources \X Hosts),
     opening : [source : Sources \cup {NO_DEST}, to : Hosts \cup {NO_DEST}],
     wrote : [Sources -> SUBSET Hosts],
     last : [source : Sources \cup {NO_DEST}, host : Hosts \cup {NO_DEST}, as : Hosts \cup {NO_DEST}]]

(* Source s has written to d, on a mapped port to its destination. *)
Wrote(m, s, d) == d \in m.wrote[s] /\ (m.fixed # NO_DEST => d = m.fixed)

(* nat_map, the datagrams that wait and the sockets lead where their       *)
(* sources have written to.                                                *)
LeadsRight(m) ==
    /\ \A s \in DOMAIN m.nat : m.nat[s] \in m.wrote[s]
    /\ \A i \in 1 .. Len(m.queue) : Wrote(m, m.queue[i][1], m.queue[i][2])
    /\ \A i \in 1 .. Len(m.tasks) : Wrote(m, m.tasks[i].source, m.tasks[i].to)

(* A socket is opened for a source that has none. *)
OpensOnce(m) ==
    m.opening # NO_OPENING =>
        /\ m.opening.source \in Sources \ DOMAIN m.inner
        /\ Wrote(m, m.opening.source, m.opening.to)

(* inner_map and the tasks that have not left it are each other's inverse. *)
Owned(m) ==
    /\ \A s \in DOMAIN m.inner :
          /\ m.inner[s] \in 1 .. Len(m.tasks) /\ m.tasks[m.inner[s]].source = s
          /\ m.tasks[m.inner[s]].at \in {"recv", "inner"}
    /\ \A i \in 1 .. Len(m.tasks) :
          m.tasks[i].at \in {"recv", "inner"} =>
             m.tasks[i].source \in DOMAIN m.inner /\ m.inner[m.tasks[i].source] = i

Sound(m) ==
    /\ m \in Machines /\ LeadsRight(m) /\ OpensOnce(m) /\ Owned(m)
    /\ m.last # NOTHING => m.last.source \in Sources
    /\ KeptApart(m)

(* A function with one argument more, or less. *)
LEMMA WithPartial ==
    ASSUME NEW S, NEW T, NEW f \in Partial(S, T), NEW s \in S, NEW d \in T
    PROVE  With(f, s, d) \in Partial(S, T)
<1>1. PICK D \in SUBSET S : f \in [D -> T]
  BY DEF Partial
<1>2. With(f, s, d) \in [D \cup {s} -> T] /\ D \cup {s} \in SUBSET S
  BY <1>1 DEF With
<1> QED
  BY <1>2 DEF Partial

LEMMA WithoutPartial ==
    ASSUME NEW S, NEW T, NEW f \in Partial(S, T), NEW s
    PROVE  Without(f, s) \in Partial(S, T)
<1>1. PICK D \in SUBSET S : f \in [D -> T]
  BY DEF Partial
<1>2. Without(f, s) \in [D \ {s} -> T] /\ D \ {s} \in SUBSET S
  BY <1>1 DEF Without
<1> QED
  BY <1>2 DEF Partial

LEMMA PartialFacts ==
    ASSUME NEW S, NEW T, NEW f \in Partial(S, T)
    PROVE  DOMAIN f \subseteq S /\ \A x \in DOMAIN f : f[x] \in T
BY DEF Partial

LEMMA MachineSound ==
    ASSUME NEW fixed \in Hosts \cup {NO_DEST}
    PROVE  Sound(Machine(fixed))
<1> DEFINE m == Machine(fixed)
<1>1. << >> \in Seq(Tasks) /\ << >> \in Seq(Sources \X Hosts) /\ Len(<< >>) = 0
  OBVIOUS
<1>2. \A T : << >> \in Partial(Sources, T) /\ DOMAIN << >> = {}
  <2>1. << >> = [x \in {} |-> 0]
    OBVIOUS
  <2>2. \A T : << >> \in [{} -> T]
    BY <2>1
  <2> QED
    BY <2>2 DEF Partial
<1>3. m \in Machines
  BY <1>1, <1>2 DEF Machine, Machines, NO_OPENING, NOTHING
<1> QED
  BY <1>1, <1>2, <1>3 DEF Machine, Sound, LeadsRight, OpensOnce, Owned, KeptApart

(* The types of the fields. *)
LEMMA Fields ==
    ASSUME NEW m \in Machines
    PROVE  /\ m.fixed \in Hosts \cup {NO_DEST} /\ m.nat \in Partial(Sources, Hosts)
           /\ m.inner \in Partial(Sources, Nat) /\ m.tasks \in Seq(Tasks)
           /\ m.queue \in Seq(Sources \X Hosts) /\ m.wrote \in [Sources -> SUBSET Hosts]
           /\ DOMAIN m.nat \subseteq Sources /\ DOMAIN m.inner \subseteq Sources
           /\ \A i \in 1 .. Len(m.tasks) : m.tasks[i] \in Tasks
           /\ \A i \in 1 .. Len(m.queue) : m.queue[i] \in Sources \X Hosts
           /\ Len(m.tasks) \in Nat /\ Len(m.queue) \in Nat
<1>1. /\ m.fixed \in Hosts \cup {NO_DEST} /\ m.nat \in Partial(Sources, Hosts)
      /\ m.inner \in Partial(Sources, Nat) /\ m.tasks \in Seq(Tasks)
      /\ m.queue \in Seq(Sources \X Hosts) /\ m.wrote \in [Sources -> SUBSET Hosts]
  BY DEF Machines
<1>2. DOMAIN m.nat \subseteq Sources /\ DOMAIN m.inner \subseteq Sources
  BY <1>1, PartialFacts
<1> QED
  BY <1>1, <1>2

(* A source may have written to more, nat_map may know more of it, and the *)
(* rest stays as it is.                                                    *)
LEMMA ArrivesSound ==
    ASSUME NEW m, Sound(m), NEW n \in Arrives(m)
    PROVE  Sound(n)
<1>1. PICK s \in Sources, d \in Destinations(m) : n = Arrived(m, s, d)
  BY DEF Arrives
<1>2. m \in Machines
  BY DEF Sound
<1>3. d \in Hosts /\ (m.fixed # NO_DEST => d = m.fixed)
  BY <1>1, <1>2, Fields DEF Destinations
<1>4. /\ n.fixed = m.fixed /\ n.inner = m.inner /\ n.tasks = m.tasks /\ n.opening = m.opening
      /\ n.last = m.last /\ n.queue = Append(m.queue, <<s, d>>)
      /\ n.wrote = [m.wrote EXCEPT ![s] = @ \cup {d}]
      /\ n.nat = IF m.fixed = NO_DEST THEN With(m.nat, s, d) ELSE m.nat
  BY <1>1, <1>2 DEF Machines, Arrived
<1>5. n.wrote \in [Sources -> SUBSET Hosts]
      /\ \A x \in Sources : m.wrote[x] \subseteq n.wrote[x] /\ d \in n.wrote[s]
  BY <1>2, <1>3, <1>4, Fields
<1>6. /\ n.nat \in Partial(Sources, Hosts)
      /\ \A x \in DOMAIN n.nat : n.nat[x] \in n.wrote[x]
  <2>1. CASE m.fixed = NO_DEST
    <3>1. m.nat \in Partial(Sources, Hosts) /\ n.nat = With(m.nat, s, d)
      BY <1>2, <1>4, <2>1, Fields
    <3>2. /\ n.nat \in Partial(Sources, Hosts) /\ DOMAIN n.nat = DOMAIN m.nat \cup {s}
          /\ n.nat[s] = d /\ \A x \in DOMAIN m.nat : x # s => n.nat[x] = m.nat[x]
      <4>1. With(m.nat, s, d) \in Partial(Sources, Hosts)
        BY <1>3, <3>1, WithPartial
      <4> QED
        BY <3>1, <4>1 DEF With
    <3> QED
      BY <1>2, <1>5, <3>2, Fields DEF Sound, LeadsRight
  <2>2. CASE m.fixed # NO_DEST
    BY <1>2, <1>4, <1>5, <2>2, Fields DEF Sound, LeadsRight
  <2> QED
    BY <2>1, <2>2
<1>7. /\ n.queue \in Seq(Sources \X Hosts) /\ Len(n.queue) = Len(m.queue) + 1
      /\ n.queue[Len(m.queue) + 1] = <<s, d>>
      /\ \A i \in 1 .. Len(m.queue) : n.queue[i] = m.queue[i]
  BY <1>2, <1>3, <1>4, Fields
<1>8. n \in Machines
  BY <1>1, <1>2, <1>5, <1>6, <1>7 DEF Machines, Arrived
<1>9. \A x \in Sources : \A y : Wrote(m, x, y) => Wrote(n, x, y)
  BY <1>4, <1>5 DEF Wrote
<1>10. LeadsRight(n)
  <2>1. \A i \in 1 .. Len(n.tasks) : Wrote(n, n.tasks[i].source, n.tasks[i].to)
    BY <1>2, <1>4, <1>9, Fields DEF Sound, LeadsRight, Tasks
  <2>2. Wrote(n, s, d)
    BY <1>3, <1>4, <1>5 DEF Wrote
  <2>3. \A i \in 1 .. Len(m.queue) : Wrote(n, n.queue[i][1], n.queue[i][2])
    BY <1>2, <1>7, <1>9, Fields DEF Sound, LeadsRight
  <2>4. \A i \in 1 .. Len(n.queue) : i \in 1 .. Len(m.queue) \/ i = Len(m.queue) + 1
    BY <1>2, <1>7, Fields
  <2> QED
    BY <1>6, <1>7, <2>1, <2>2, <2>3, <2>4 DEF LeadsRight
<1>11. OpensOnce(n)
  BY <1>4, <1>9 DEF Sound, OpensOnce
<1>12. Owned(n)
  BY <1>4 DEF Sound, Owned
<1>13. (n.last # NOTHING => n.last.source \in Sources) /\ KeptApart(n)
  BY <1>4, <1>5 DEF Sound, KeptApart
<1> QED
  BY <1>8, <1>10, <1>11, <1>12, <1>13 DEF Sound

(* Where a source's datagrams go is where it has written to. *)
LEMMA ToWrote ==
    ASSUME NEW m, Sound(m), NEW s \in Sources, To(m, s) # NO_DEST,
           m.fixed # NO_DEST => m.fixed \in m.wrote[s]
    PROVE  Wrote(m, s, To(m, s)) /\ To(m, s) \in Hosts
<1>1. m \in Machines
  BY DEF Sound
<1>2. CASE m.fixed # NO_DEST
  BY <1>1, <1>2, Fields DEF To, Wrote
<1>3. CASE m.fixed = NO_DEST
  <2>1. s \in DOMAIN m.nat /\ To(m, s) = m.nat[s]
    BY <1>3 DEF To
  <2>2. m.nat[s] \in m.wrote[s] /\ m.wrote[s] \subseteq Hosts
    BY <1>1, <2>1, Fields DEF Sound, LeadsRight
  <2> QED
    BY <1>3, <2>1, <2>2 DEF Wrote
<1> QED
  BY <1>2, <1>3

(* What reaches a host or an application is noted. *)
LEMMA LastSound ==
    ASSUME NEW m, Sound(m), NEW s \in Sources, NEW h \in m.wrote[s], NEW a \in m.wrote[s] \cup {NO_DEST},
           NEW n, n = [m EXCEPT !.last = [source |-> s, host |-> h, as |-> a]]
    PROVE  Sound(n)
<1>1. m \in Machines
  BY DEF Sound
<1>2. m.wrote[s] \subseteq Hosts
  BY <1>1, Fields
<1>3. n \in Machines
  BY <1>1, <1>2 DEF Machines
<1>4. /\ n.fixed = m.fixed /\ n.inner = m.inner /\ n.tasks = m.tasks /\ n.opening = m.opening
      /\ n.queue = m.queue /\ n.wrote = m.wrote /\ n.nat = m.nat
      /\ n.last = [source |-> s, host |-> h, as |-> a]
  BY <1>1 DEF Machines
<1>5. LeadsRight(n)
  BY <1>4 DEF Sound, LeadsRight, Wrote
<1>6. OpensOnce(n) /\ Owned(n)
  BY <1>4 DEF Sound, OpensOnce, Owned, Wrote
<1>7. n.last.source \in Sources /\ KeptApart(n)
  BY <1>4 DEF KeptApart
<1> QED
  BY <1>3, <1>5, <1>6, <1>7 DEF Sound

(* The loop begins or ends to open a socket. *)
LEMMA OpeningSound ==
    ASSUME NEW m, Sound(m),
           NEW o \in [source : Sources \cup {NO_DEST}, to : Hosts \cup {NO_DEST}],
           o # NO_OPENING => o.source \in Sources \ DOMAIN m.inner /\ Wrote(m, o.source, o.to),
           NEW n, n = [m EXCEPT !.opening = o]
    PROVE  Sound(n)
<1>1. m \in Machines
  BY DEF Sound
<1>2. n \in Machines
  BY <1>1 DEF Machines
<1>3. /\ n.fixed = m.fixed /\ n.inner = m.inner /\ n.tasks = m.tasks /\ n.opening = o
      /\ n.queue = m.queue /\ n.wrote = m.wrote /\ n.nat = m.nat /\ n.last = m.last
  BY <1>1 DEF Machines
<1>4. LeadsRight(n)
  BY <1>3 DEF Sound, LeadsRight, Wrote
<1>5. OpensOnce(n) /\ Owned(n)
  BY <1>3 DEF Sound, OpensOnce, Owned, Wrote
<1>6. (n.last # NOTHING => n.last.source \in Sources) /\ KeptApart(n)
  BY <1>3 DEF Sound, KeptApart
<1> QED
  BY <1>2, <1>4, <1>5, <1>6 DEF Sound

(* The loop takes the first datagram. *)
LEMMA TakenSound ==
    ASSUME NEW m, Sound(m), m.queue # << >>, NEW n, n = [m EXCEPT !.queue = Tail(@)]
    PROVE  Sound(n)
<1>1. m \in Machines
  BY DEF Sound
<1>2. /\ Tail(m.queue) \in Seq(Sources \X Hosts) /\ Len(Tail(m.queue)) = Len(m.queue) - 1
      /\ \A i \in 1 .. Len(Tail(m.queue)) : Tail(m.queue)[i] = m.queue[i + 1]
  BY <1>1, Fields, HeadTailProperties
<1>3. n \in Machines
  BY <1>1, <1>2 DEF Machines
<1>4. /\ n.fixed = m.fixed /\ n.inner = m.inner /\ n.tasks = m.tasks /\ n.opening = m.opening
      /\ n.queue = Tail(m.queue) /\ n.wrote = m.wrote /\ n.nat = m.nat /\ n.last = m.last
  BY <1>1 DEF Machines
<1>5. LeadsRight(n)
  <2>1. \A i \in 1 .. Len(n.queue) : n.queue[i] = m.queue[i + 1] /\ i + 1 \in 1 .. Len(m.queue)
    BY <1>1, <1>2, <1>4, Fields
  <2> QED
    BY <1>4, <2>1 DEF Sound, LeadsRight, Wrote
<1>6. OpensOnce(n) /\ Owned(n)
  BY <1>4 DEF Sound, OpensOnce, Owned, Wrote
<1>7. (n.last # NOTHING => n.last.source \in Sources) /\ KeptApart(n)
  BY <1>4 DEF Sound, KeptApart
<1> QED
  BY <1>3, <1>5, <1>6, <1>7 DEF Sound

LEMMA LooksSound ==
    ASSUME NEW m, Sound(m), NEW n \in Looks(m)
    PROVE  Sound(n)
<1> DEFINE s == Head(m.queue)[1]
           rest == [m EXCEPT !.queue = Tail(@)]
<1>1. m \in Machines
  BY DEF Sound
<1>2. m.queue # << >> /\ m.opening = NO_OPENING
  BY DEF Looks
<1>3. Sound(rest) /\ rest \in Machines
  BY <1>2, TakenSound DEF Sound
<1>4. s \in Sources /\ Wrote(m, s, m.queue[1][2])
  <2>1. Head(m.queue) = m.queue[1] /\ 1 \in 1 .. Len(m.queue)
    BY <1>1, <1>2, Fields
  <2> QED
    BY <1>1, <2>1, Fields DEF Sound, LeadsRight
<1>5. /\ rest.inner = m.inner /\ rest.wrote = m.wrote /\ rest.fixed = m.fixed /\ rest.nat = m.nat
  BY <1>1, SMTT(60) DEF Machines
<1>6. CASE s \in DOMAIN m.inner
  <2>1. n = Reached(rest, s, m.tasks[m.inner[s]].to)
    BY <1>2, <1>6 DEF Looks
  <2>2. m.tasks[m.inner[s]].to \in m.wrote[s]
    BY <1>6, ZenonT(60) DEF Sound, Owned, LeadsRight, Wrote
  <2> QED
    BY <1>3, <1>4, <1>5, <2>1, <2>2, LastSound, ZenonT(60) DEF Reached
<1>7. CASE s \notin DOMAIN m.inner /\ To(m, s) = NO_DEST
  BY <1>2, <1>3, <1>7 DEF Looks
<1>8. CASE s \notin DOMAIN m.inner /\ To(m, s) # NO_DEST
  <2> DEFINE o == [source |-> s, to |-> To(m, s)]
  <2>1. n = [rest EXCEPT !.opening = o]
    BY <1>2, <1>8 DEF Looks
  <2>2. Wrote(m, s, To(m, s)) /\ To(m, s) \in Hosts
    BY <1>4, <1>8, ToWrote DEF Wrote
  <2>3. o.source \in Sources \ DOMAIN rest.inner /\ Wrote(rest, o.source, o.to)
    BY <1>4, <1>5, <1>8, <2>2 DEF Wrote
  <2> QED
    BY <1>3, <1>4, <2>1, <2>2, <2>3, OpeningSound
<1> QED
  BY <1>6, <1>7, <1>8

LEMMA OpenFailsSound ==
    ASSUME NEW m, Sound(m), NEW n \in OpenFails(m)
    PROVE  Sound(n)
<1>1. n = [m EXCEPT !.opening = NO_OPENING]
  BY DEF OpenFails
<1> QED
  BY <1>1, OpeningSound DEF NO_OPENING

LEMMA AnswersSound ==
    ASSUME NEW m, Sound(m), NEW n \in Answers(m)
    PROVE  Sound(n)
<1>1. PICK i \in TasksAt(m, "recv") :
        n = [m EXCEPT !.last = [source |-> m.tasks[i].source, host |-> m.tasks[i].to,
                                as |-> To(m, m.tasks[i].source)]]
  BY DEF Answers
<1>2. m \in Machines
  BY DEF Sound
<1>3. i \in 1 .. Len(m.tasks)
  BY <1>2, Fields DEF TasksAt
<1>4. m.tasks[i].source \in Sources /\ Wrote(m, m.tasks[i].source, m.tasks[i].to)
  BY <1>2, <1>3, Fields DEF Sound, LeadsRight, Tasks
<1>5. To(m, m.tasks[i].source) \in m.wrote[m.tasks[i].source] \cup {NO_DEST}
  BY <1>4, ToWrote DEF Wrote
<1> QED
  BY <1>1, <1>4, <1>5, LastSound DEF Wrote

LEMMA OpensSound ==
    ASSUME NEW m, Sound(m), NEW n \in Opens(m)
    PROVE  Sound(n)
<1> DEFINE o == m.opening
           k == Len(m.tasks) + 1
           t == [source |-> o.source, to |-> o.to, at |-> "recv"]
           r == Reached(m, o.source, o.to)
<1>1. /\ m.opening # NO_OPENING
      /\ n = [r EXCEPT !.opening = NO_OPENING, !.inner = With(@, o.source, k), !.tasks = Append(@, t)]
  BY DEF Opens
<1>2. o.source \in Sources \ DOMAIN m.inner /\ Wrote(m, o.source, o.to)
  BY <1>1 DEF Sound, OpensOnce
<1>3. Sound(r) /\ r \in Machines
  BY <1>2, LastSound DEF Sound, Reached, Wrote
<1>4. m \in Machines /\ k \in Nat /\ o.to \in Hosts
  <2>1. m \in Machines
    BY DEF Sound
  <2> QED
    BY <1>2, <2>1, Fields DEF Wrote
<1>5. /\ r.fixed = m.fixed /\ r.inner = m.inner /\ r.tasks = m.tasks
      /\ r.queue = m.queue /\ r.wrote = m.wrote /\ r.nat = m.nat
  BY <1>4 DEF Machines, Reached
<1>6. /\ n.fixed = m.fixed /\ n.inner = With(m.inner, o.source, k) /\ n.tasks = Append(m.tasks, t)
      /\ n.opening = NO_OPENING /\ n.queue = m.queue /\ n.wrote = m.wrote /\ n.nat = m.nat
      /\ n.last = r.last
  BY <1>1, <1>3, <1>5 DEF Machines
<1>7. n.inner \in Partial(Sources, Nat)
  <2>1. m.inner \in Partial(Sources, Nat)
    BY <1>4, Fields
  <2> QED
    BY <1>2, <1>4, <1>6, <2>1, WithPartial
<1>8. DOMAIN n.inner = DOMAIN m.inner \cup {o.source} /\ n.inner[o.source] = k
      /\ \A x \in DOMAIN m.inner : n.inner[x] = m.inner[x]
  BY <1>2, <1>6 DEF With
<1>9. /\ n.tasks \in Seq(Tasks) /\ Len(n.tasks) = k /\ n.tasks[k] = t
      /\ \A i \in 1 .. Len(m.tasks) : n.tasks[i] = m.tasks[i]
  <2>1. t \in Tasks
    BY <1>2, <1>4 DEF Tasks
  <2> QED
    BY <1>4, <1>6, <2>1, Fields
<1>10. \A i \in 1 .. Len(n.tasks) : i = k \/ i \in 1 .. Len(m.tasks)
  BY <1>4, <1>9, Fields, SMTT(60)
<1>11. n \in Machines
  BY <1>1, <1>3, <1>7, <1>9, ZenonT(60) DEF Machines, NO_OPENING
<1>12. LeadsRight(n)
  <2>1. \A x, y : Wrote(n, x, y) <=> Wrote(m, x, y)
    BY <1>6 DEF Wrote
  <2>2. \A i \in 1 .. Len(n.tasks) : Wrote(n, n.tasks[i].source, n.tasks[i].to)
    BY <1>2, <1>9, <1>10, <2>1 DEF Sound, LeadsRight
  <2> QED
    BY <1>6, <2>1, <2>2 DEF Sound, LeadsRight
<1>13. Owned(n)
  <2>1. k \in 1 .. Len(n.tasks) /\ k \notin 1 .. Len(m.tasks) /\ 1 .. Len(m.tasks) \subseteq 1 .. Len(n.tasks)
    BY <1>4, <1>9, Fields
  <2>2. ASSUME NEW x \in DOMAIN n.inner
        PROVE  /\ n.inner[x] \in 1 .. Len(n.tasks) /\ n.tasks[n.inner[x]].source = x
               /\ n.tasks[n.inner[x]].at \in {"recv", "inner"}
    <3>1. CASE x = o.source
      BY <1>8, <1>9, <2>1, <3>1
    <3>2. CASE x # o.source
      BY <1>8, <1>9, <2>1, <3>2, SMTT(60) DEF Sound, Owned
    <3> QED
      BY <3>1, <3>2
  <2>3. ASSUME NEW i \in 1 .. Len(n.tasks), n.tasks[i].at \in {"recv", "inner"}
        PROVE  n.tasks[i].source \in DOMAIN n.inner /\ n.inner[n.tasks[i].source] = i
    <3>1. CASE i = k
      BY <1>8, <1>9, <3>1
    <3>2. CASE i \in 1 .. Len(m.tasks)
      BY <1>8, <1>9, <2>3, <3>2, SMTT(60) DEF Sound, Owned
    <3> QED
      BY <1>10, <3>1, <3>2
  <2> QED
    BY <2>2, <2>3 DEF Owned
<1>14. OpensOnce(n)
  BY <1>6 DEF OpensOnce
<1>15. (n.last # NOTHING => n.last.source \in Sources) /\ KeptApart(n)
  BY <1>3, <1>5, <1>6 DEF Sound, KeptApart
<1> QED
  BY <1>11, <1>12, <1>13, <1>14, <1>15 DEF Sound

(* A task moves on. *)
LEMMA TaskMoves ==
    ASSUME NEW ts \in Seq(Tasks), NEW i \in 1 .. Len(ts), NEW a \in {"recv", "inner", "nat", "done"},
           NEW us, us = [ts EXCEPT ![i].at = a]
    PROVE  /\ us \in Seq(Tasks) /\ Len(us) = Len(ts) /\ us[i].at = a
           /\ \A j \in 1 .. Len(ts) : us[j].source = ts[j].source /\ us[j].to = ts[j].to
           /\ \A j \in 1 .. Len(ts) : j # i => us[j].at = ts[j].at
<1>1. ts[i] \in Tasks /\ [ts[i] EXCEPT !.at = a] \in Tasks
  <2>1. ts[i] \in Tasks
    OBVIOUS
  <2> QED
    BY <2>1 DEF Tasks
<1>2. us = [ts EXCEPT ![i] = [ts[i] EXCEPT !.at = a]]
  OBVIOUS
<1>3. us \in Seq(Tasks) /\ Len(us) = Len(ts)
  BY <1>1, <1>2, ExceptSeq
<1>4. us[i] = [ts[i] EXCEPT !.at = a] /\ \A j \in 1 .. Len(ts) : j # i => us[j] = ts[j]
  BY <1>2
<1> QED
  BY <1>1, <1>3, <1>4 DEF Tasks

(* What an ending task leaves alone: only its own place, and what it takes *)
(* out of inner_map and of nat_map, are to be looked at.                   *)
LEMMA MovedSound ==
    ASSUME NEW m, Sound(m), NEW i \in 1 .. Len(m.tasks), NEW a \in {"recv", "inner", "nat", "done"},
           NEW n, n = [m EXCEPT !.tasks = [@ EXCEPT ![i].at = a], !.inner = n.inner, !.nat = n.nat],
           n.inner \in Partial(Sources, Nat), DOMAIN n.inner \subseteq DOMAIN m.inner,
           n.nat \in Partial(Sources, Hosts), DOMAIN n.nat \subseteq DOMAIN m.nat,
           \A s \in DOMAIN n.nat : n.nat[s] = m.nat[s],
           Owned(n)
    PROVE  Sound(n)
<1>1. m \in Machines
  BY DEF Sound
<1>2. /\ n.fixed = m.fixed /\ n.opening = m.opening /\ n.queue = m.queue /\ n.wrote = m.wrote
      /\ n.last = m.last /\ n.tasks = [m.tasks EXCEPT ![i].at = a]
  BY <1>1 DEF Machines
<1>3. /\ n.tasks \in Seq(Tasks) /\ Len(n.tasks) = Len(m.tasks)
      /\ \A j \in 1 .. Len(m.tasks) : n.tasks[j].source = m.tasks[j].source /\ n.tasks[j].to = m.tasks[j].to
  <2>1. m.tasks \in Seq(Tasks)
    BY <1>1, Fields
  <2> QED
    BY <1>2, <2>1, TaskMoves, SMTT(60)
<1>4. n \in Machines
  BY <1>1, <1>3 DEF Machines
<1>5. \A x, y : Wrote(n, x, y) <=> Wrote(m, x, y)
  BY <1>2 DEF Wrote
<1>6. LeadsRight(n)
  BY <1>2, <1>3, <1>5 DEF Sound, LeadsRight
<1>7. OpensOnce(n)
  BY <1>2, <1>5 DEF Sound, OpensOnce
<1>8. (n.last # NOTHING => n.last.source \in Sources) /\ KeptApart(n)
  BY <1>2 DEF Sound, KeptApart
<1> QED
  BY <1>4, <1>6, <1>7, <1>8 DEF Sound

LEMMA BreaksSound ==
    ASSUME NEW m, Sound(m), NEW n \in Breaks(m)
    PROVE  Sound(n)
<1>1. PICK i \in TasksAt(m, "recv") : n = [m EXCEPT !.tasks[i].at = "inner"]
  BY DEF Breaks
<1>2. m \in Machines
  BY DEF Sound
<1>3. i \in 1 .. Len(m.tasks) /\ m.tasks[i].at = "recv"
  BY <1>2, Fields DEF TasksAt
<1>4. n.tasks = [m.tasks EXCEPT ![i].at = "inner"] /\ n.inner = m.inner /\ n.nat = m.nat
  BY <1>1, <1>2 DEF Machines
<1>5. n = [m EXCEPT !.tasks = [@ EXCEPT ![i].at = "inner"], !.inner = n.inner, !.nat = n.nat]
  BY <1>1, <1>2, <1>4 DEF Machines
<1>6. /\ Len(n.tasks) = Len(m.tasks) /\ n.tasks[i].at = "inner"
      /\ \A j \in 1 .. Len(m.tasks) : n.tasks[j].source = m.tasks[j].source
      /\ \A j \in 1 .. Len(m.tasks) : j # i => n.tasks[j].at = m.tasks[j].at
  BY <1>2, <1>3, <1>4, Fields, TaskMoves
<1>7. Owned(n)
  BY <1>3, <1>4, <1>6 DEF Sound, Owned
<1>8. n.inner \in Partial(Sources, Nat) /\ n.nat \in Partial(Sources, Hosts)
  BY <1>2, <1>4, Fields
<1> QED
  BY <1>3, <1>4, <1>5, <1>7, <1>8, MovedSound

LEMMA RemovesInnerSound ==
    ASSUME NEW m, Sound(m), NEW n \in RemovesInner(m)
    PROVE  Sound(n)
<1>1. PICK i \in TasksAt(m, "inner") :
        n = [m EXCEPT !.tasks[i].at = "nat", !.inner = Without(@, m.tasks[i].source)]
  BY DEF RemovesInner
<1>2. m \in Machines
  BY DEF Sound
<1>3. i \in 1 .. Len(m.tasks) /\ m.tasks[i].at = "inner"
  BY <1>2, Fields DEF TasksAt
<1> DEFINE s == m.tasks[i].source
<1>4. n.tasks = [m.tasks EXCEPT ![i].at = "nat"] /\ n.inner = Without(m.inner, s) /\ n.nat = m.nat
  BY <1>1, <1>2 DEF Machines
<1>5. n = [m EXCEPT !.tasks = [@ EXCEPT ![i].at = "nat"], !.inner = n.inner, !.nat = n.nat]
  BY <1>1, <1>2, <1>4 DEF Machines
<1>6. /\ Len(n.tasks) = Len(m.tasks) /\ n.tasks[i].at = "nat"
      /\ \A j \in 1 .. Len(m.tasks) : n.tasks[j].source = m.tasks[j].source
      /\ \A j \in 1 .. Len(m.tasks) : j # i => n.tasks[j].at = m.tasks[j].at
  BY <1>2, <1>3, <1>4, Fields, TaskMoves
<1>7. DOMAIN n.inner = DOMAIN m.inner \ {s} /\ \A x \in DOMAIN n.inner : n.inner[x] = m.inner[x]
  BY <1>4 DEF Without
<1>8. s \in DOMAIN m.inner /\ m.inner[s] = i
  BY <1>3 DEF Sound, Owned
<1>9. Owned(n)
  <2>1. ASSUME NEW x \in DOMAIN n.inner
        PROVE  /\ n.inner[x] \in 1 .. Len(n.tasks) /\ n.tasks[n.inner[x]].source = x
               /\ n.tasks[n.inner[x]].at \in {"recv", "inner"}
    <3>1. /\ x \in DOMAIN m.inner /\ x # s /\ n.inner[x] = m.inner[x]
          /\ m.inner[x] \in 1 .. Len(m.tasks) /\ m.tasks[m.inner[x]].source = x
          /\ m.tasks[m.inner[x]].at \in {"recv", "inner"}
      BY <1>7 DEF Sound, Owned
    <3> QED
      BY <1>6, <3>1
  <2>2. ASSUME NEW j \in 1 .. Len(n.tasks), n.tasks[j].at \in {"recv", "inner"}
        PROVE  n.tasks[j].source \in DOMAIN n.inner /\ n.inner[n.tasks[j].source] = j
    <3>1. j # i
      BY <1>6, <2>2
    <3>2. m.tasks[j].source \in DOMAIN m.inner /\ m.inner[m.tasks[j].source] = j
      BY <1>6, <2>2, <3>1 DEF Sound, Owned
    <3> QED
      BY <1>6, <1>7, <1>8, <3>1, <3>2
  <2> QED
    BY <2>1, <2>2 DEF Owned
<1>10. n.inner \in Partial(Sources, Nat) /\ n.nat \in Partial(Sources, Hosts)
  <2>1. m.inner \in Partial(Sources, Nat) /\ m.nat \in Partial(Sources, Hosts)
    BY <1>2, Fields, SMTT(60)
  <2> QED
    BY <1>4, <2>1, WithoutPartial
<1> QED
  BY <1>3, <1>4, <1>5, <1>7, <1>9, <1>10, MovedSound

LEMMA RemovesNatSound ==
    ASSUME NEW m, Sound(m), NEW n \in RemovesNat(m)
    PROVE  Sound(n)
<1>1. PICK i \in TasksAt(m, "nat") :
        n = [m EXCEPT !.tasks[i].at = "done",
                      !.nat = IF m.fixed = NO_DEST THEN Without(@, m.tasks[i].source) ELSE @]
  BY DEF RemovesNat
<1>2. m \in Machines
  BY DEF Sound
<1>3. i \in 1 .. Len(m.tasks) /\ m.tasks[i].at = "nat"
  BY <1>2, Fields DEF TasksAt
<1>4. /\ n.tasks = [m.tasks EXCEPT ![i].at = "done"] /\ n.inner = m.inner
      /\ n.nat = IF m.fixed = NO_DEST THEN Without(m.nat, m.tasks[i].source) ELSE m.nat
  BY <1>1, <1>2 DEF Machines
<1>5. n = [m EXCEPT !.tasks = [@ EXCEPT ![i].at = "done"], !.inner = n.inner, !.nat = n.nat]
  BY <1>1, <1>2, <1>4 DEF Machines
<1>6. /\ Len(n.tasks) = Len(m.tasks) /\ n.tasks[i].at = "done"
      /\ \A j \in 1 .. Len(m.tasks) : n.tasks[j].source = m.tasks[j].source
      /\ \A j \in 1 .. Len(m.tasks) : j # i => n.tasks[j].at = m.tasks[j].at
  BY <1>2, <1>3, <1>4, Fields, TaskMoves
<1>7. /\ n.nat \in Partial(Sources, Hosts) /\ DOMAIN n.nat \subseteq DOMAIN m.nat
      /\ \A s \in DOMAIN n.nat : n.nat[s] = m.nat[s]
  <2>1. m.nat \in Partial(Sources, Hosts)
    BY <1>2, Fields
  <2>2. Without(m.nat, m.tasks[i].source) \in Partial(Sources, Hosts)
    BY <2>1, WithoutPartial
  <2> QED
    BY <1>4, <2>1, <2>2 DEF Without
<1>8. Owned(n)
  BY <1>3, <1>4, <1>6 DEF Sound, Owned
<1>9. n.inner \in Partial(Sources, Nat)
  BY <1>2, <1>4, Fields
<1> QED
  BY <1>3, <1>4, <1>5, <1>7, <1>8, <1>9, MovedSound

LEMMA StepsSound ==
    ASSUME NEW m, Sound(m), NEW n \in Steps(m)
    PROVE  Sound(n)
BY ArrivesSound, LooksSound, OpensSound, OpenFailsSound, AnswersSound, BreaksSound,
   RemovesInnerSound, RemovesNatSound DEF Steps

(* Owned says of each socket what SocketsOwned says of the two sets. *)
LEMMA SoundOwned ==
    ASSUME NEW m, Sound(m)
    PROVE  SocketsOwned(m)
<1>1. m \in Machines
  BY DEF Sound
<1>2. DOMAIN m.tasks = 1 .. Len(m.tasks)
  BY <1>1, Fields
<1>3. ASSUME NEW i \in TasksAt(m, "recv") \cup TasksAt(m, "inner")
      PROVE  \E s \in DOMAIN m.inner : i = m.inner[s]
  <2>1. i \in 1 .. Len(m.tasks) /\ m.tasks[i].at \in {"recv", "inner"}
    BY <1>2 DEF TasksAt
  <2> QED
    BY <2>1 DEF Sound, Owned
<1>4. ASSUME NEW s \in DOMAIN m.inner
      PROVE  m.inner[s] \in TasksAt(m, "recv") \cup TasksAt(m, "inner") /\ m.tasks[m.inner[s]].source = s
  BY <1>2 DEF Sound, Owned, TasksAt
<1> QED
  BY <1>3, <1>4 DEF SocketsOwned

-----------------------------------------------------------------------------
(* Induction, sums and division. *)

(* Induction over the naturals, for a set of them: the least number outside it. *)
LEMMA LeastNat ==
    ASSUME NEW T \in SUBSET Nat, T # {}
    PROVE  \E x \in T : \A y \in T : x <= y
<1> DEFINE R == OpToRel(<, Nat)
<1>1. IsWellFoundedOn(R, Nat)
  BY NatLessThanWellFounded
<1>2. PICK x \in T : \A y \in T : ~ (<<y, x>> \in R)
  <2> HIDE DEF R
  <2> QED
    BY <1>1, WFMin
<1>3. \A y \in T : ~ (y < x)
  BY <1>2 DEF OpToRel
<1> QED
  BY <1>3

LEMMA SetInduction ==
    ASSUME NEW S \in SUBSET Nat, 0 \in S, \A n \in S : n + 1 \in S
    PROVE  S = Nat
<1> SUFFICES ASSUME S # Nat PROVE FALSE
  OBVIOUS
<1>1. PICK x \in Nat \ S : \A y \in Nat \ S : x <= y
  BY LeastNat
<1>2. x - 1 \in S
  BY <1>1
<1> QED
  BY <1>1, <1>2

(* A run of n steps from x: step k takes what there is to g of both. *)
IsRun(f, n, x, g, S) ==
    f \in [0 .. n -> S] /\ f[0] = x /\ \A k \in 1 .. n : f[k] = g[<<k, f[k - 1]>>]

LEMMA RunExists ==
    ASSUME NEW S, NEW x \in S, NEW g \in [Nat \X S -> S]
    PROVE  \A n \in Nat : \E f : IsRun(f, n, x, g, S)
<1> DEFINE N == {n \in Nat : \E f : IsRun(f, n, x, g, S)}
<1>1. 0 \in N
  <2>1. IsRun([k \in 0 .. 0 |-> x], 0, x, g, S)
    BY DEF IsRun
  <2> QED
    BY <2>1
<1>2. ASSUME NEW n \in N PROVE n + 1 \in N
  <2>1. PICK f : IsRun(f, n, x, g, S)
    OBVIOUS
  <2>2. f \in [0 .. n -> S] /\ f[0] = x /\ n \in Nat
    BY <2>1 DEF IsRun
  <2>3. \A k \in 1 .. n : f[k] = g[<<k, f[k - 1]>>]
    BY <2>1 DEF IsRun
  <2> DEFINE h == [k \in 0 .. n + 1 |-> IF k = n + 1 THEN g[<<n + 1, f[n]>>] ELSE f[k]]
  <2>4. /\ h \in [0 .. n + 1 -> S] /\ h[0] = x /\ h[n + 1] = g[<<n + 1, f[n]>>]
        /\ \A k \in 0 .. n : h[k] = f[k]
    BY <2>2
  <2> HIDE DEF h
  <2>5. ASSUME NEW k \in 1 .. n + 1 PROVE h[k] = g[<<k, h[k - 1]>>]
    <3>1. CASE k = n + 1
      BY <2>2, <2>4, <3>1
    <3>2. CASE k # n + 1
      <4>1. k \in 1 .. n /\ k \in 0 .. n /\ k - 1 \in 0 .. n
        BY <2>2, <3>2
      <4> QED
        BY <2>3, <2>4, <4>1
    <3> QED
      BY <3>1, <3>2
  <2>6. IsRun(h, n + 1, x, g, S)
    BY <2>4, <2>5 DEF IsRun
  <2> QED
    BY <2>2, <2>6
<1>3. N = Nat
  <2> HIDE DEF N
  <2>1. N \in SUBSET Nat
    BY DEF N
  <2> QED
    BY <1>1, <1>2, <2>1, SetInduction
<1> QED
  BY <1>3

(* Sums. *)

IsSum(s, f) ==
    f \in [0 .. Len(s) -> Nat] /\ f[0] = 0 /\ \A n \in 1 .. Len(s) : f[n] = f[n - 1] + s[n]

LEMMA TotalIsSum ==
    ASSUME NEW s \in Seq(Nat)
    PROVE  \E f : IsSum(s, f) /\ Total(s) = f[Len(s)]
<1> DEFINE g == [p \in Nat \X Nat |-> p[2] + (IF p[1] \in 1 .. Len(s) THEN s[p[1]] ELSE 0)]
<1>1. g \in [Nat \X Nat -> Nat]
  OBVIOUS
<1>2. PICK f : IsRun(f, Len(s), 0, g, Nat)
  <2> HIDE DEF g
  <2>1. Len(s) \in Nat /\ 0 \in Nat
    OBVIOUS
  <2> QED
    BY <1>1, <2>1, RunExists
<1>3. IsSum(s, f)
  <2>1. f \in [0 .. Len(s) -> Nat] /\ f[0] = 0
    BY <1>2 DEF IsRun
  <2>2. ASSUME NEW k \in 1 .. Len(s) PROVE f[k] = f[k - 1] + s[k]
    <3>1. k \in Nat /\ k - 1 \in 0 .. Len(s)
      OBVIOUS
    <3>2. f[k - 1] \in Nat
      BY <2>1, <3>1
    <3> QED
      BY <1>2, <3>1, <3>2 DEF IsRun
  <2> QED
    BY <2>1, <2>2 DEF IsSum
<1>4. f = [n \in 0 .. Len(s) |-> IF n = 0 THEN 0 ELSE f[n - 1] + s[n]]
  BY <1>3 DEF IsSum
<1> DEFINE sum == CHOOSE h : h = [n \in 0 .. Len(s) |-> IF n = 0 THEN 0 ELSE h[n - 1] + s[n]]
<1>5. sum = [n \in 0 .. Len(s) |-> IF n = 0 THEN 0 ELSE sum[n - 1] + s[n]]
  BY <1>4
<1>6. Total(s) = sum[Len(s)]
  BY DEF Total
<1> HIDE DEF sum
<1>7. \A n \in Nat : n \in 0 .. Len(s) => sum[n] = f[n]
  <2> DEFINE N == {n \in Nat : n \in 0 .. Len(s) => sum[n] = f[n]}
  <2>1. 0 \in N
    BY <1>3, <1>5 DEF IsSum
  <2>2. ASSUME NEW n \in N PROVE n + 1 \in N
    BY <1>3, <1>5 DEF IsSum
  <2>3. N = Nat
    <3> HIDE DEF N
    <3>1. N \in SUBSET Nat
      BY DEF N
    <3> QED
      BY <2>1, <2>2, <3>1, SetInduction
  <2> QED
    BY <2>3
<1> QED
  BY <1>3, <1>6, <1>7

LEMMA SumsAgree ==
    ASSUME NEW s \in Seq(Nat), NEW t \in Seq(Nat), NEW f, NEW h, IsSum(s, f), IsSum(t, h),
           Len(s) <= Len(t), \A k \in 1 .. Len(s) : s[k] = t[k]
    PROVE  \A n \in 0 .. Len(s) : f[n] = h[n]
<1> DEFINE N == {n \in Nat : n \in 0 .. Len(s) => f[n] = h[n]}
<1>1. 0 \in N
  BY DEF IsSum
<1>2. ASSUME NEW n \in N PROVE n + 1 \in N
  BY SMTT(60) DEF IsSum
<1>3. N = Nat
  <2> HIDE DEF N
  <2>1. N \in SUBSET Nat
    BY DEF N
  <2> QED
    BY <1>1, <1>2, <2>1, SetInduction
<1> QED
  BY <1>3, SMTT(60)

LEMMA TotalEmpty == Total(<< >>) = 0
<1>1. << >> \in Seq(Nat) /\ Len(<< >>) = 0
  OBVIOUS
<1> QED
  BY <1>1, TotalIsSum DEF IsSum

LEMMA TotalAppend ==
    ASSUME NEW s \in Seq(Nat), NEW x \in Nat
    PROVE  Total(Append(s, x)) = Total(s) + x /\ Total(s) \in Nat
<1> DEFINE t == Append(s, x)
<1>1. /\ t \in Seq(Nat) /\ Len(t) = Len(s) + 1 /\ Len(s) \in Nat /\ t[Len(s) + 1] = x
      /\ \A k \in 1 .. Len(s) : s[k] = t[k]
  OBVIOUS
<1> HIDE DEF t
<1>2. PICK f : IsSum(s, f) /\ Total(s) = f[Len(s)]
  BY TotalIsSum
<1>3. PICK h : IsSum(t, h) /\ Total(t) = h[Len(t)]
  BY <1>1, TotalIsSum
<1>4. f[Len(s)] = h[Len(s)] /\ f[Len(s)] \in Nat
  <2>1. Len(s) <= Len(t) /\ Len(s) \in 0 .. Len(s)
    BY <1>1
  <2>2. \A n \in 0 .. Len(s) : f[n] = h[n]
    BY <1>1, <1>2, <1>3, <2>1, SumsAgree
  <2> QED
    BY <1>2, <2>1, <2>2 DEF IsSum
<1>5. h[Len(s) + 1] = h[Len(s)] + t[Len(s) + 1]
  <2>1. Len(s) + 1 \in 1 .. Len(t) /\ (Len(s) + 1) - 1 = Len(s)
    BY <1>1
  <2> QED
    BY <1>3, <2>1 DEF IsSum
<1> QED
  BY <1>1, <1>2, <1>3, <1>4, <1>5 DEF t

(* Division. *)
LEMMA MulMono ==
    ASSUME NEW t \in Nat, NEW x \in Int, NEW y \in Int, x <= y
    PROVE  t * x <= t * y
OBVIOUS

LEMMA DivBounds ==
    ASSUME NEW t \in Nat \ {0}, NEW a \in Int
    PROVE  a \div t \in Int /\ t * (a \div t) <= a /\ a < t * ((a \div t) + 1)
OBVIOUS

LEMMA DivGreatest ==
    ASSUME NEW t \in Nat \ {0}, NEW a \in Int, NEW q \in Int, t * q <= a
    PROVE  q <= a \div t
<1>1. a \div t \in Int /\ a < t * ((a \div t) + 1)
  BY DivBounds
<1> SUFFICES ASSUME (a \div t) + 1 <= q PROVE FALSE
  BY <1>1
<1>2. t * ((a \div t) + 1) <= t * q
  BY <1>1, MulMono
<1> QED
  BY <1>1, <1>2

LEMMA DivAdds ==
    ASSUME NEW t \in Nat \ {0}, NEW a \in Int, NEW b \in Int
    PROVE  (a \div t) + (b \div t) <= (a + b) \div t
<1> DEFINE x == a \div t
           y == b \div t
<1>1. x \in Int /\ y \in Int /\ t * x <= a /\ t * y <= b
  BY DivBounds
<1> HIDE DEF x, y
<1>2. t * (x + y) = t * x + t * y
  BY <1>1
<1>3. t * (x + y) <= a + b
  BY <1>1, <1>2
<1>4. x + y <= (a + b) \div t
  BY <1>1, <1>3, DivGreatest
<1> QED
  BY <1>4 DEF x, y

LEMMA DivMono ==
    ASSUME NEW t \in Nat \ {0}, NEW a \in Int, NEW b \in Int, a <= b
    PROVE  a \div t <= b \div t
<1>1. a \div t \in Int /\ t * (a \div t) <= b
  BY DivBounds
<1> QED
  BY <1>1, DivGreatest

-----------------------------------------------------------------------------
(* Limits: the rate limiter and the traffic meters, for any run of calls.  *)

(* RateLimiter *)
Limiters(capacity, rate) ==
    [capacity : {capacity}, tokens : 0 .. capacity, refill_rate : {rate}, last_refill : Nat]
Acquirers(capacity, rate) == [now : Nat, ok : BOOLEAN, l : Limiters(capacity, rate)]

One(b) == IF b THEN 1 ELSE 0

Refills(capacity, rate, r, a) ==
    /\ a \in Acquirers(capacity, rate) /\ a.l.last_refill <= a.now
    /\ One(a.ok) + a.l.tokens <= capacity
    /\ One(a.ok) + a.l.tokens
         <= r.l.tokens + rate * ((a.l.last_refill - r.l.last_refill) \div TICKS)
    /\ a.l.last_refill = a.now \/ rate * ((a.now - a.l.last_refill) \div TICKS) = 0

(* One call: a refill brings what the whole seconds since the last one do, *)
(* and leaves less than a second's worth.                                  *)
LEMMA AcquiredFacts ==
    ASSUME NEW capacity \in Nat, NEW rate \in Nat, NEW r \in Acquirers(capacity, rate), NEW ticks \in Nat,
           r.l.last_refill <= r.now, NEW a, a = Acquired(r, ticks)
    PROVE  Refills(capacity, rate, r, a) /\ a.now = r.now + ticks
<1> DEFINE now == r.now + ticks
           l == r.l
           q == (now - l.last_refill) \div TICKS
           new == q * l.refill_rate
           f == refill(l, now)
<1>1. /\ l \in Limiters(capacity, rate) /\ now \in Nat /\ l.last_refill \in Nat /\ l.last_refill <= now
      /\ l.tokens \in 0 .. capacity /\ l.capacity = capacity /\ l.refill_rate = rate
  BY DEF Acquirers, Limiters
<1>2. q \in Int /\ TICKS * 0 <= now - l.last_refill /\ 0 <= q
  <2>1. now - l.last_refill \in Int /\ TICKS * 0 <= now - l.last_refill /\ 0 \in Int
    BY <1>1, TicksAssumption
  <2> HIDE DEF now, l
  <2>2. q \in Int
    BY <2>1, TicksAssumption, DivBounds
  <2>3. 0 <= q
    BY <2>1, TicksAssumption, DivGreatest
  <2> QED
    BY <2>1, <2>2, <2>3
<1>3. new \in Nat /\ new = rate * q
  <2> HIDE DEF q
  <2> QED
    BY <1>1, <1>2
<1>4. (l.last_refill - l.last_refill) \div TICKS = 0
  BY <1>1, TicksAssumption
<1>5. /\ f \in Limiters(capacity, rate) /\ f.last_refill <= now
      /\ f.tokens <= l.tokens + rate * ((f.last_refill - l.last_refill) \div TICKS)
      /\ f.last_refill = now \/ rate * ((now - f.last_refill) \div TICKS) = 0
  <2>1. CASE new > 0
    <3>1. f = [l EXCEPT !.tokens = IF l.tokens + new > l.capacity THEN l.capacity ELSE l.tokens + new,
                        !.last_refill = now]
      BY <2>1 DEF refill
    <3> HIDE DEF q, f, new
    <3>2. /\ f.tokens = IF l.tokens + new > l.capacity THEN l.capacity ELSE l.tokens + new
          /\ f.last_refill = now
      BY <1>1, <3>1 DEF Limiters
    <3>3. f.tokens \in 0 .. capacity
      BY <1>1, <1>3, <3>2
    <3>4. f \in Limiters(capacity, rate)
      BY <1>1, <3>1, <3>2, <3>3 DEF Limiters
    <3> QED
      BY <1>1, <1>3, <3>2, <3>4 DEF q
  <2>2. CASE ~ (new > 0)
    <3>1. f = l
      BY <2>2 DEF refill
    <3>2. rate * q = 0
      BY <1>3, <2>2
    <3> HIDE DEF f
    <3>3. rate * ((l.last_refill - l.last_refill) \div TICKS) = 0
      BY <1>4
    <3> QED
      BY <1>1, <3>1, <3>2, <3>3 DEF q
  <2> QED
    BY <2>1, <2>2
<1>6. CASE f.tokens > 0
  <2>1. a = [now |-> now, ok |-> TRUE, l |-> [f EXCEPT !.tokens = @ - 1]]
    BY <1>6 DEF Acquired, try_acquire
  <2> HIDE DEF f
  <2>2. a.now = now /\ a.ok = TRUE /\ a.l = [f EXCEPT !.tokens = @ - 1]
    BY <2>1
  <2>3. a.l \in Limiters(capacity, rate) /\ a.l.tokens = f.tokens - 1 /\ a.l.last_refill = f.last_refill
    BY <1>5, <1>6, <2>2 DEF Limiters
  <2>4. f.tokens \in 0 .. capacity
    BY <1>5 DEF Limiters
  <2>5. a \in Acquirers(capacity, rate)
    BY <1>1, <2>1, <2>2, <2>3 DEF Acquirers
  <2>6. One(a.ok) + a.l.tokens = f.tokens
    BY <2>2, <2>3, <2>4 DEF One
  <2> QED
    BY <1>5, <2>2, <2>3, <2>4, <2>5, <2>6 DEF Refills
<1>7. CASE ~ (f.tokens > 0)
  <2>1. a = [now |-> now, ok |-> FALSE, l |-> f]
    BY <1>7 DEF Acquired, try_acquire
  <2> HIDE DEF f
  <2>2. a.now = now /\ a.ok = FALSE /\ a.l = f
    BY <2>1
  <2>3. f.tokens \in 0 .. capacity
    BY <1>5 DEF Limiters
  <2>4. a \in Acquirers(capacity, rate)
    BY <1>1, <1>5, <2>1, <2>2 DEF Acquirers
  <2>5. One(a.ok) + a.l.tokens = f.tokens
    BY <2>2, <2>3 DEF One
  <2> QED
    BY <1>5, <2>2, <2>3, <2>4, <2>5 DEF Refills
<1> QED
  BY <1>6, <1>7

Calls(calls) == Len(calls) \in Nat /\ \A k \in 1 .. Len(calls) : calls[k][1] \in Nat

Acquiring(capacity, rate, calls, run) ==
    /\ \A n \in 1 .. Len(calls) : run[n] = Acquired(run[n - 1], calls[n][1])
    /\ \A n \in 0 .. Len(calls) :
          run[n] \in Acquirers(capacity, rate) /\ run[n].l.last_refill <= run[n].now

(* The recursive definition of the run means what it says. *)
LEMMA AcquisitionsRun ==
    ASSUME NEW capacity \in Nat, NEW rate \in Nat, NEW calls, Calls(calls),
           NEW run, run = Acquisitions(capacity, rate, calls)
    PROVE  Acquiring(capacity, rate, calls, run)
<1> DEFINE x == [now |-> 0, ok |-> FALSE, l |-> RateLimiter(capacity, rate)]
           S == {r \in Acquirers(capacity, rate) : r.l.last_refill <= r.now}
           D == 0 .. Len(calls)
           ticks(k) == IF k \in 1 .. Len(calls) THEN calls[k][1] ELSE 0
           g == [p \in Nat \X S |-> Acquired(p[2], ticks(p[1]))]
<1>1. x \in S
  BY DEF RateLimiter, Acquirers, Limiters
<1>2. ASSUME NEW r \in S, NEW t \in Nat PROVE Acquired(r, t) \in S
  <2>1. Refills(capacity, rate, r, Acquired(r, t))
    BY AcquiredFacts
  <2> QED
    BY <2>1 DEF Refills
<1>3. \A k \in Nat : ticks(k) \in Nat
  BY DEF Calls
<1>4. g \in [Nat \X S -> S]
  <2> HIDE DEF S, ticks
  <2> QED
    BY <1>2, <1>3
<1>5. PICK f : IsRun(f, Len(calls), x, g, S)
  <2>1. Len(calls) \in Nat
    BY DEF Calls
  <2> HIDE DEF g, x, S
  <2> QED
    BY <1>1, <1>4, <2>1, RunExists
<1>6. f = [n \in D |-> IF n = 0 THEN x ELSE Acquired(f[n - 1], calls[n][1])]
  <2>1. f \in [D -> S] /\ f[0] = x
    BY <1>5 DEF IsRun
  <2>2. ASSUME NEW n \in D, n # 0 PROVE f[n] = Acquired(f[n - 1], calls[n][1])
    <3>1. n \in 1 .. Len(calls) /\ n \in Nat /\ n - 1 \in D
      BY <2>2 DEF Calls
    <3>2. f[n - 1] \in S
      BY <2>1, <3>1
    <3>3. f[n] = g[<<n, f[n - 1]>>]
      BY <1>5, <3>1 DEF IsRun
    <3>4. g[<<n, f[n - 1]>>] = Acquired(f[n - 1], ticks(n))
      <4> HIDE DEF S, ticks
      <4> QED
        BY <3>1, <3>2
    <3> QED
      BY <3>1, <3>3, <3>4
  <2> HIDE DEF x, D
  <2> QED
    BY <2>1, <2>2
<1>7. run = CHOOSE h : h = [n \in D |-> IF n = 0 THEN x ELSE Acquired(h[n - 1], calls[n][1])]
  BY DEF Acquisitions
<1>8. run = [n \in D |-> IF n = 0 THEN x ELSE Acquired(run[n - 1], calls[n][1])]
  <2> HIDE DEF x, D
  <2> QED
    BY <1>6, <1>7
<1> HIDE DEF x, g
<1>9. run[0] = x /\ \A n \in 1 .. Len(calls) : run[n] = Acquired(run[n - 1], calls[n][1])
  <2>1. 0 \in D /\ \A n \in 1 .. Len(calls) : n \in D /\ n # 0
    BY DEF Calls
  <2> HIDE DEF D
  <2> QED
    BY <1>8, <2>1
<1>10. \A n \in D : run[n] \in S
  <2> DEFINE N == {n \in Nat : n \in D => run[n] \in S}
  <2>1. 0 \in N
    BY <1>1, <1>9
  <2>2. ASSUME NEW n \in N PROVE n + 1 \in N
    <3>1. CASE n + 1 \in D
      <4>1. n \in D /\ n + 1 \in 1 .. Len(calls) /\ (n + 1) - 1 = n
        BY <3>1 DEF Calls
      <4>2. run[n + 1] = Acquired(run[n], calls[n + 1][1])
        BY <1>9, <4>1
      <4>3. run[n] \in S /\ calls[n + 1][1] \in Nat
        BY <4>1 DEF Calls
      <4>4. run[n + 1] \in S
        <5> HIDE DEF S
        <5> QED
          BY <1>2, <4>2, <4>3
      <4> QED
        BY <4>4
    <3>2. CASE n + 1 \notin D
      BY <3>2
    <3> QED
      BY <3>1, <3>2
  <2>3. N = Nat
    <3>1. N \in SUBSET Nat
      OBVIOUS
    <3> HIDE DEF N
    <3> QED
      BY <2>1, <2>2, <3>1, SetInduction
  <2>4. D \subseteq Nat
    BY DEF Calls
  <2> QED
    BY <2>3, <2>4
<1> QED
  BY <1>9, <1>10 DEF Acquiring

LEMMA AcquisitionStep ==
    ASSUME NEW capacity \in Nat, NEW rate \in Nat, NEW calls, Calls(calls),
           NEW run, run = Acquisitions(capacity, rate, calls), NEW n \in 1 .. Len(calls)
    PROVE  /\ run[n].now \in Nat /\ run[n].l.last_refill \in Nat /\ run[n].l.tokens \in Nat
           /\ run[n].l.last_refill <= run[n].now
           /\ One(run[n].ok) + run[n].l.tokens <= capacity
           /\ One(run[n].ok) + run[n].l.tokens
                <= run[n - 1].l.tokens + rate * ((run[n].l.last_refill - run[n - 1].l.last_refill) \div TICKS)
           /\ run[n].l.last_refill = run[n].now
                \/ rate * ((run[n].now - run[n].l.last_refill) \div TICKS) = 0
<1>1. n \in 0 .. Len(calls) /\ n - 1 \in 0 .. Len(calls) /\ calls[n][1] \in Nat
  BY DEF Calls
<1>2. run[n - 1] \in Acquirers(capacity, rate) /\ run[n - 1].l.last_refill <= run[n - 1].now
  <2>1. Acquiring(capacity, rate, calls, run)
    BY AcquisitionsRun
  <2> QED
    BY <1>1, <2>1 DEF Acquiring
<1>3. run[n] = Acquired(run[n - 1], calls[n][1])
  <2>1. Acquiring(capacity, rate, calls, run)
    BY AcquisitionsRun
  <2> QED
    BY <2>1 DEF Acquiring
<1> DEFINE r == run[n - 1]
           a == run[n]
           t == calls[n][1]
<1>4. r \in Acquirers(capacity, rate) /\ r.l.last_refill <= r.now /\ a = Acquired(r, t) /\ t \in Nat
  BY <1>1, <1>2, <1>3
<1> HIDE DEF r, a, t
<1>5. /\ a \in Acquirers(capacity, rate) /\ a.l.last_refill <= a.now
      /\ One(a.ok) + a.l.tokens <= capacity
      /\ One(a.ok) + a.l.tokens <= r.l.tokens + rate * ((a.l.last_refill - r.l.last_refill) \div TICKS)
      /\ a.l.last_refill = a.now \/ rate * ((a.now - a.l.last_refill) \div TICKS) = 0
  <2>1. Refills(capacity, rate, r, a)
    BY <1>4, AcquiredFacts
  <2> QED
    BY <2>1 DEF Refills
<1>6. a.now \in Nat /\ a.l.last_refill \in Nat /\ a.l.tokens \in Nat
  BY <1>5 DEF Acquirers, Limiters
<1> QED
  BY <1>5, <1>6 DEF r, a

(* What was let through since call i, and the tokens left, come from the   *)
(* capacity and from the refills since.                                    *)
LEMMA RateBudget ==
    ASSUME NEW capacity \in Nat, NEW rate \in Nat, NEW calls, Calls(calls),
           NEW run, run = Acquisitions(capacity, rate, calls), NEW i \in 1 .. Len(calls)
    PROVE  \A j \in i .. Len(calls) :
              /\ IsFiniteSet({n \in i .. j : run[n].ok})
              /\ Cardinality({n \in i .. j : run[n].ok}) + run[j].l.tokens
                   <= capacity + rate * (((run[j].l.last_refill - run[i].now) \div TICKS) + 1)
<1> DEFINE P(j) == {n \in i .. j : run[n].ok}
           L(j) == run[j].l.last_refill
           Tk(j) == run[j].l.tokens
           c == run[i].now
           Good(j) == /\ IsFiniteSet(P(j))
                      /\ Cardinality(P(j)) + Tk(j) <= capacity + rate * (((L(j) - c) \div TICKS) + 1)
           N == {k \in Nat : i + k \in i .. Len(calls) => Good(i + k)}
<1>1. Len(calls) \in Nat /\ i \in Nat
  BY DEF Calls
<1>2. /\ c \in Nat /\ One(run[i].ok) + Tk(i) <= capacity /\ L(i) \in Nat /\ Tk(i) \in Nat
      /\ L(i) <= c /\ (L(i) = c \/ rate * ((c - L(i)) \div TICKS) = 0)
  BY AcquisitionStep, ZenonT(60)
<1>3. ASSUME NEW m \in i .. Len(calls), m + 1 \in i .. Len(calls)
      PROVE  /\ L(m) \in Nat /\ L(m + 1) \in Nat /\ Tk(m) \in Nat /\ Tk(m + 1) \in Nat
             /\ One(run[m + 1].ok) + Tk(m + 1) <= Tk(m) + rate * ((L(m + 1) - L(m)) \div TICKS)
  <2>1. m \in 1 .. Len(calls) /\ m + 1 \in 1 .. Len(calls) /\ (m + 1) - 1 = m
    BY <1>1, <1>3
  <2>2. L(m) \in Nat /\ Tk(m) \in Nat
    BY <2>1, AcquisitionStep
  <2> DEFINE n == m + 1
  <2>3. n \in 1 .. Len(calls) /\ n - 1 = m
    BY <2>1
  <2> HIDE DEF n
  <2>4. L(n) \in Nat /\ Tk(n) \in Nat /\ One(run[n].ok) + Tk(n) <= Tk(n - 1) + rate * ((L(n) - L(n - 1)) \div TICKS)
    BY <2>3, AcquisitionStep
  <2> QED
    BY <2>2, <2>3, <2>4 DEF n
<1>4. \A m \in i .. Len(calls) : m + 1 \in i .. Len(calls) =>
        P(m + 1) = P(m) \cup (IF run[m + 1].ok THEN {m + 1} ELSE {}) /\ m + 1 \notin P(m)
  BY <1>1
<1>5. P(i) = IF run[i].ok THEN {i} ELSE {}
  BY <1>1
<1> HIDE DEF P, L, Tk, c
<1>6. Good(i)
  <2>1. IsFiniteSet(P(i)) /\ Cardinality(P(i)) = One(run[i].ok)
    BY <1>5, FS_Singleton, FS_EmptySet, ZenonT(60) DEF One
  <2>2. L(i) - c \in Int /\ c - L(i) \in Int
    BY <1>2
  <2> DEFINE q == (L(i) - c) \div TICKS
             e == (c - L(i)) \div TICKS
  <2>3. q \in Int /\ e \in Int /\ c - L(i) < TICKS * (e + 1)
    BY <2>2, TicksAssumption, DivBounds
  <2>4. rate = 0 \/ q + 1 >= 0
    <3>1. CASE L(i) = c
      <4>1. TICKS * 0 <= L(i) - c
        BY <1>2, <3>1, TicksAssumption
      <4>2. 0 <= q
        BY <2>2, <4>1, TicksAssumption, DivGreatest
      <4> QED
        BY <2>3, <4>2
    <3>2. CASE L(i) # c /\ rate # 0
      <4>1. rate * e = 0
        BY <1>2, <3>2
      <4>2. e = 0
        <5> HIDE DEF e
        <5> QED
          BY <2>3, <3>2, <4>1
      <4>3. TICKS * (-1) <= L(i) - c
        <5> HIDE DEF e
        <5> QED
          BY <1>2, <2>3, <4>2, TicksAssumption
      <4>4. -1 <= q
        BY <2>2, <4>3, TicksAssumption, DivGreatest
      <4> QED
        BY <2>3, <4>4
    <3> QED
      BY <3>1, <3>2
  <2>5. rate * (q + 1) \in Int /\ 0 <= rate * (q + 1)
    <3> HIDE DEF q
    <3> QED
      BY <2>3, <2>4
  <2>6. Cardinality(P(i)) + Tk(i) <= capacity + rate * (q + 1)
    <3> HIDE DEF q
    <3> QED
      BY <1>2, <2>1, <2>5 DEF One
  <2> QED
    BY <2>1, <2>6
<1>7. ASSUME NEW m \in i .. Len(calls), m + 1 \in i .. Len(calls), Good(m) PROVE Good(m + 1)
  <2>1. IsFiniteSet(P(m)) /\ Cardinality(P(m)) \in Nat
    BY <1>7, FS_CardinalityType
  <2>2. IsFiniteSet(P(m + 1)) /\ Cardinality(P(m + 1)) = Cardinality(P(m)) + One(run[m + 1].ok)
    <3>1. CASE run[m + 1].ok
      BY <1>4, <1>7, <2>1, <3>1, FS_AddElement, SMTT(60) DEF One
    <3>2. CASE ~ run[m + 1].ok
      <4>1. P(m + 1) = P(m)
        BY <1>4, <1>7, <3>2
      <4> QED
        BY <2>1, <3>2, <4>1 DEF One
    <3> QED
      BY <3>1, <3>2
  <2> DEFINE u == (L(m) - c) \div TICKS
             v == (L(m + 1) - L(m)) \div TICKS
             w == (L(m + 1) - c) \div TICKS
  <2>3. /\ L(m) \in Nat /\ L(m + 1) \in Nat /\ Tk(m) \in Nat /\ Tk(m + 1) \in Nat
        /\ One(run[m + 1].ok) + Tk(m + 1) <= Tk(m) + rate * v
    BY <1>3, <1>7
  <2>4. /\ L(m) - c \in Int /\ L(m + 1) - L(m) \in Int /\ L(m + 1) - c \in Int
        /\ (L(m) - c) + (L(m + 1) - L(m)) = L(m + 1) - c
    BY <1>2, <2>3, SMTT(60)
  <2>5. u \in Int /\ v \in Int /\ w \in Int
    BY <2>4, TicksAssumption, DivBounds
  <2>6. u + v <= w
    BY <2>4, TicksAssumption, DivAdds
  <2>7. Cardinality(P(m)) + Tk(m) <= capacity + rate * (u + 1)
    BY <1>7
  <2> HIDE DEF u, v, w
  <2>8. /\ rate * (u + 1) \in Int /\ rate * v \in Int /\ rate * (w + 1) \in Int
        /\ rate * ((u + 1) + v) = rate * (u + 1) + rate * v
    BY <2>5
  <2>9. rate * ((u + 1) + v) <= rate * (w + 1)
    BY <2>5, <2>6, MulMono
  <2>10. One(run[m + 1].ok) \in Nat
    BY DEF One
  <2>11. Cardinality(P(m + 1)) + Tk(m + 1) <= capacity + rate * (w + 1)
    <3> DEFINE A == rate * (u + 1)
               B == rate * v
               W == rate * (w + 1)
    <3>1. /\ A \in Int /\ B \in Int /\ W \in Int /\ A + B <= W
          /\ Cardinality(P(m)) + Tk(m) <= capacity + A
          /\ One(run[m + 1].ok) + Tk(m + 1) <= Tk(m) + B
      BY <2>3, <2>7, <2>8, <2>9
    <3> HIDE DEF A, B, W
    <3>2. Cardinality(P(m + 1)) + Tk(m + 1) <= capacity + W
      BY <2>1, <2>2, <2>3, <2>10, <3>1, SMTT(60)
    <3> QED
      BY <3>2 DEF W
  <2> QED
    BY <2>2, <2>11 DEF w
<1> HIDE DEF Good
<1>8. 0 \in N
  BY <1>1, <1>6
<1>9. ASSUME NEW k \in N PROVE k + 1 \in N
  <2>1. CASE i + (k + 1) \in i .. Len(calls)
    <3>1. i + k \in i .. Len(calls) /\ i + (k + 1) = (i + k) + 1
      BY <1>1, <2>1
    <3>2. Good((i + k) + 1)
      BY <1>7, <2>1, <3>1
    <3> QED
      BY <3>1, <3>2
  <2>2. CASE i + (k + 1) \notin i .. Len(calls)
    BY <2>2
  <2> QED
    BY <2>1, <2>2
<1>10. N = Nat
  <2>1. N \in SUBSET Nat
    OBVIOUS
  <2> HIDE DEF N
  <2> QED
    BY <1>8, <1>9, <2>1, SetInduction
<1>11. ASSUME NEW j \in i .. Len(calls) PROVE Good(j)
  <2>1. j - i \in Nat /\ i + (j - i) = j
    BY <1>1
  <2>2. j - i \in N
    BY <1>10, <2>1
  <2> QED
    BY <2>1, <2>2
<1> QED
  BY <1>11 DEF Good, P, L, Tk, c

(* For every capacity, refill rate and run of calls of try_acquire: between *)
(* any two calls the limiter lets through no more than its capacity and    *)
(* what the seconds between them, and one more, bring, although refill     *)
(* drops the part of a second that is left over (rate_limiter.rs).         *)
THEOREM RateLimited ==
    ASSUME NEW capacity \in Nat, NEW rate \in Nat, NEW calls, Calls(calls)
    PROVE  RateHeld(capacity, rate, calls)
<1> DEFINE run == Acquisitions(capacity, rate, calls)
           P(i, j) == {n \in i .. j : run[n].ok}
<1> SUFFICES ASSUME NEW i \in 1 .. Len(calls), NEW j \in i .. Len(calls)
             PROVE  Cardinality(P(i, j)) <= capacity + (((run[j].now - run[i].now) \div TICKS) + 1) * rate
  BY DEF RateHeld
<1> HIDE DEF run
<1>1. i \in Nat /\ j \in 1 .. Len(calls)
  BY DEF Calls
<1>2. /\ run[j].now \in Nat /\ run[j].l.last_refill \in Nat /\ run[j].l.tokens \in Nat
      /\ run[j].l.last_refill <= run[j].now
  BY <1>1, AcquisitionStep DEF run
<1>3. run[i].now \in Nat
  BY AcquisitionStep DEF run
<1>4. /\ IsFiniteSet(P(i, j))
      /\ Cardinality(P(i, j)) + run[j].l.tokens
           <= capacity + rate * (((run[j].l.last_refill - run[i].now) \div TICKS) + 1)
  BY RateBudget DEF run
<1> DEFINE x == (run[j].l.last_refill - run[i].now) \div TICKS
           y == (run[j].now - run[i].now) \div TICKS
<1>5. x \in Int /\ y \in Int
  <2>1. run[j].l.last_refill - run[i].now \in Int /\ run[j].now - run[i].now \in Int
    BY <1>2, <1>3
  <2> QED
    BY <2>1, TicksAssumption, DivBounds
<1>6. x <= y
  <2>1. /\ run[j].l.last_refill - run[i].now \in Int /\ run[j].now - run[i].now \in Int
        /\ run[j].l.last_refill - run[i].now <= run[j].now - run[i].now
    BY <1>2, <1>3, SMTT(60)
  <2> QED
    BY <2>1, TicksAssumption, DivMono
<1>7. Cardinality(P(i, j)) \in Nat
  BY <1>4, FS_CardinalityType
<1> HIDE DEF P
<1>8. Cardinality(P(i, j)) <= capacity + rate * (x + 1)
  <2>1. Cardinality(P(i, j)) + run[j].l.tokens <= capacity + rate * (x + 1)
    BY <1>4
  <2>2. rate * (x + 1) \in Int
    <3> HIDE DEF x
    <3> QED
      BY <1>5
  <2> HIDE DEF x
  <2> QED
    BY <1>2, <1>7, <2>1, <2>2, SMTT(60)
<1>9. Cardinality(P(i, j)) <= capacity + (y + 1) * rate
  <2> HIDE DEF x, y
  <2>1. rate * (x + 1) <= rate * (y + 1) /\ rate * (x + 1) \in Int /\ rate * (y + 1) \in Int
    BY <1>5, <1>6, MulMono
  <2>2. rate * (y + 1) = (y + 1) * rate
    BY <1>5
  <2> QED
    BY <1>7, <1>8, <2>1, <2>2
<1> QED
  BY <1>9

(* Traffic meters. *)
LEMMA TotalPrefix ==
    ASSUME NEW n \in Nat, NEW e, \A k \in 1 .. n + 1 : e[k] \in Nat
    PROVE  /\ Total([k \in 1 .. n + 1 |-> e[k]]) = Total([k \in 1 .. n |-> e[k]]) + e[n + 1]
           /\ Total([k \in 1 .. n |-> e[k]]) \in Nat
<1> DEFINE s == [k \in 1 .. n |-> e[k]]
<1>1. s \in Seq(Nat) /\ Len(s) = n
  OBVIOUS
<1>2. [k \in 1 .. n + 1 |-> e[k]] = Append(s, e[n + 1])
  <2> DEFINE t == [k \in 1 .. n + 1 |-> e[k]]
             u == Append(s, e[n + 1])
  <2>1. t \in Seq(Nat) /\ Len(t) = n + 1
    OBVIOUS
  <2>2. u \in Seq(Nat) /\ Len(u) = n + 1
    <3> HIDE DEF s
    <3> QED
      BY <1>1
  <2>3. ASSUME NEW k \in 1 .. n + 1 PROVE t[k] = u[k]
    BY <1>1
  <2> HIDE DEF t, u
  <2>4. t = u
    BY <2>1, <2>2, <2>3, SeqEqual
  <2> QED
    BY <2>4 DEF t, u
<1> HIDE DEF s
<1>3. e[n + 1] \in Nat
  OBVIOUS
<1>4. Total(Append(s, e[n + 1])) = Total(s) + e[n + 1] /\ Total(s) \in Nat
  BY <1>1, <1>3, TotalAppend
<1> QED
  BY <1>2, <1>4 DEF s

CallsOf(Ips) == Seq(Nat \X Ips \X Nat)

LEMMA AmountsStep ==
    ASSUME NEW Ips, NEW calls \in CallsOf(Ips), NEW n \in Nat, n + 1 \in 1 .. Len(calls), NEW ip
    PROVE  /\ AmountOf(calls, n) \in Nat /\ AmountOf(calls, n + 1) = AmountOf(calls, n) + calls[n + 1][3]
           /\ AmountOfPeer(calls, n, ip) \in Nat
           /\ AmountOfPeer(calls, n + 1, ip)
                = AmountOfPeer(calls, n, ip) + (IF calls[n + 1][2] = ip THEN calls[n + 1][3] ELSE 0)
<1>1. \A k \in 1 .. n + 1 : calls[k] \in Nat \X Ips \X Nat
  <2>1. \A k \in 1 .. n + 1 : k \in 1 .. Len(calls)
    BY DEF CallsOf
  <2> QED
    BY <2>1 DEF CallsOf
<1> DEFINE e == [k \in 1 .. n + 1 |-> calls[k][3]]
           p == [k \in 1 .. n + 1 |-> IF calls[k][2] = ip THEN calls[k][3] ELSE 0]
<1>2. \A k \in 1 .. n + 1 : e[k] \in Nat /\ p[k] \in Nat
  BY <1>1
<1>3. /\ AmountOf(calls, n + 1) = Total([k \in 1 .. n + 1 |-> e[k]])
      /\ AmountOf(calls, n) = Total([k \in 1 .. n |-> e[k]])
      /\ AmountOfPeer(calls, n + 1, ip) = Total([k \in 1 .. n + 1 |-> p[k]])
      /\ AmountOfPeer(calls, n, ip) = Total([k \in 1 .. n |-> p[k]])
  <2>1. /\ [k \in 1 .. n + 1 |-> calls[k][3]] = [k \in 1 .. n + 1 |-> e[k]]
        /\ [k \in 1 .. n |-> calls[k][3]] = [k \in 1 .. n |-> e[k]]
    OBVIOUS
  <2>2. /\ [k \in 1 .. n + 1 |-> IF calls[k][2] = ip THEN calls[k][3] ELSE 0] = [k \in 1 .. n + 1 |-> p[k]]
        /\ [k \in 1 .. n |-> IF calls[k][2] = ip THEN calls[k][3] ELSE 0] = [k \in 1 .. n |-> p[k]]
    OBVIOUS
  <2> QED
    BY <2>1, <2>2 DEF AmountOf, AmountOfPeer
<1>4. e[n + 1] = calls[n + 1][3] /\ p[n + 1] = IF calls[n + 1][2] = ip THEN calls[n + 1][3] ELSE 0
  OBVIOUS
<1> HIDE DEF e, p
<1>5. Total([k \in 1 .. n + 1 |-> e[k]]) = Total([k \in 1 .. n |-> e[k]]) + e[n + 1]
      /\ Total([k \in 1 .. n |-> e[k]]) \in Nat
  BY <1>2, TotalPrefix
<1>6. Total([k \in 1 .. n + 1 |-> p[k]]) = Total([k \in 1 .. n |-> p[k]]) + p[n + 1]
      /\ Total([k \in 1 .. n |-> p[k]]) \in Nat
  BY <1>2, TotalPrefix
<1> QED
  BY <1>3, <1>4, <1>5, <1>6

LEMMA AmountsNone ==
    ASSUME NEW calls, NEW ip
    PROVE  AmountOf(calls, 0) = 0 /\ AmountOfPeer(calls, 0, ip) = 0
<1>1. [k \in 1 .. 0 |-> calls[k][3]] = << >>
  OBVIOUS
<1>2. [k \in 1 .. 0 |-> IF calls[k][2] = ip THEN calls[k][3] ELSE 0] = << >>
  OBVIOUS
<1> QED
  BY <1>1, <1>2, TotalEmpty DEF AmountOf, AmountOfPeer

MeterSet(cap) ==
    [start_time : Nat, total : Nat, count : Nat, history_capacity : {cap}, history : Seq(Nat)]

(* A meter that has counted t. *)
Metered(m, cap, t) ==
    /\ m \in MeterSet(cap) /\ m.total = t /\ Len(m.history) <= cap
    /\ Len(m.history) < cap => Total(m.history) + m.count = t

LEMMA NewMeter ==
    ASSUME NEW cap \in Nat \ {0}, NEW now \in Nat
    PROVE  Metered([TrafficMeter(cap) EXCEPT !.start_time = now], cap, 0)
<1>1. << >> \in Seq(Nat) /\ Len(<< >>) = 0
  OBVIOUS
<1>2. [TrafficMeter(cap) EXCEPT !.start_time = now]
        = [start_time |-> now, total |-> 0, count |-> 0, history_capacity |-> cap, history |-> << >>]
  BY DEF TrafficMeter
<1> DEFINE m == [TrafficMeter(cap) EXCEPT !.start_time = now]
<1>3. m = [start_time |-> now, total |-> 0, count |-> 0, history_capacity |-> cap, history |-> << >>]
  BY <1>2
<1> HIDE DEF m
<1>4. m \in MeterSet(cap)
  BY <1>1, <1>3 DEF MeterSet
<1>5. m.total = 0 /\ m.count = 0 /\ m.history = << >>
  BY <1>3
<1>6. Metered(m, cap, 0)
  BY <1>1, <1>4, <1>5, TotalEmpty DEF Metered
<1> QED
  BY <1>6 DEF m

LEMMA MeterAdds ==
    ASSUME NEW cap \in Nat \ {0}, NEW t \in Nat, NEW m, Metered(m, cap, t), NEW amount \in Nat, NEW now \in Nat
    PROVE  Metered(add_traffic(m, amount, now), cap, t + amount)
<1> DEFINE b == [m EXCEPT !.total = @ + amount, !.count = @ + amount]
           a == add_traffic(m, amount, now)
           h == m.history
           room == IF Len(h) >= cap THEN Tail(h) ELSE h
<1>1. /\ m \in MeterSet(cap) /\ m.total = t /\ h \in Seq(Nat) /\ m.count \in Nat
      /\ Len(h) \in Nat /\ Len(h) <= cap /\ m.history_capacity = cap
      /\ Len(h) < cap => Total(h) + m.count = t
  BY DEF Metered, MeterSet
<1>2. /\ b \in MeterSet(cap) /\ b.total = t + amount /\ b.count = m.count + amount
      /\ b.history = h /\ b.history_capacity = cap
  <2>1. m.total + amount \in Nat /\ m.count + amount \in Nat
    BY <1>1
  <2>2. b \in MeterSet(cap)
    BY <1>1, <2>1 DEF MeterSet
  <2>3. b.total = m.total + amount /\ b.count = m.count + amount
        /\ b.history = h /\ b.history_capacity = m.history_capacity
    BY <1>1 DEF MeterSet
  <2> QED
    BY <1>1, <2>2, <2>3
<1>3. Total(h) \in Nat
  <2>1. Total(Append(h, 0)) = Total(h) + 0 /\ Total(h) \in Nat
    BY <1>1, TotalAppend
  <2> QED
    BY <2>1
<1>4. Len(h) < cap => Total(h) + b.count = t + amount
  BY <1>1, <1>2, <1>3
<1>5. a = check_time(b, now)
  BY DEF add_traffic
<1> HIDE DEF a, b, h
<1>6. CASE now - b.start_time < TICKS
  <2>1. a = b
    BY <1>5, <1>6 DEF check_time
  <2>2. Metered(a, cap, t + amount)
    BY <1>1, <1>2, <1>4, <2>1 DEF Metered
  <2> QED
    BY <2>2 DEF a
<1>7. CASE ~ (now - b.start_time < TICKS)
  <2>1. a = [b EXCEPT !.history = Append(room, b.count), !.count = 0, !.start_time = now]
    BY <1>2, <1>5, <1>7 DEF check_time
  <2>2. b.count \in Nat /\ room \in Seq(Nat) /\ Len(room) < cap
    <3>1. b.count \in Nat
      BY <1>1, <1>2
    <3>2. CASE Len(h) >= cap
      <4>1. h # << >>
        BY <1>1, <3>2
      <4>2. Tail(h) \in Seq(Nat) /\ Len(Tail(h)) = Len(h) - 1
        BY <1>1, <4>1, HeadTailProperties
      <4> QED
        BY <1>1, <3>1, <3>2, <4>2
    <3>3. CASE ~ (Len(h) >= cap)
      BY <1>1, <3>1, <3>3
    <3> QED
      BY <3>2, <3>3
  <2>3. /\ Append(room, b.count) \in Seq(Nat) /\ Len(Append(room, b.count)) = Len(room) + 1
        /\ Len(room) \in Nat
    <3> HIDE DEF room
    <3> QED
      BY <2>2
  <2>4. /\ a \in MeterSet(cap) /\ a.total = t + amount /\ a.count = 0
        /\ a.history = Append(room, b.count)
    <3> HIDE DEF room
    <3> QED
      BY <1>2, <2>1, <2>3 DEF MeterSet
  <2>5. ASSUME Len(a.history) < cap PROVE Total(a.history) + a.count = t + amount
    <3>1. Len(h) < cap /\ room = h
      <4>1. CASE Len(h) >= cap
        <5>1. h # << >>
          BY <1>1, <4>1
        <5>2. Len(room) = Len(h) - 1
          BY <1>1, <4>1, <5>1, HeadTailProperties
        <5> QED
          BY <1>1, <2>3, <2>4, <2>5, <4>1, <5>2
      <4>2. CASE ~ (Len(h) >= cap)
        BY <1>1, <4>2
      <4> QED
        BY <4>1, <4>2
    <3>2. Total(Append(h, b.count)) = Total(h) + b.count
      BY <1>1, <2>2, TotalAppend
    <3>3. a.history = Append(h, b.count) /\ a.count = 0
      BY <2>4, <3>1
    <3>4. Total(a.history) = t + amount
      BY <1>4, <3>1, <3>2, <3>3
    <3> QED
      BY <3>3, <3>4
  <2>6. Len(a.history) <= cap
    <3> HIDE DEF room
    <3> QED
      BY <2>2, <2>3, <2>4
  <2>7. Metered(a, cap, t + amount)
    BY <2>4, <2>5, <2>6 DEF Metered
  <2> QED
    BY <2>7 DEF a
<1> QED
  BY <1>6, <1>7

MetersSet(Ips, cap) == [total : Nat, of : Partial(Ips, MeterSet(cap))]
Adders(Ips, cap) == [now : Nat, ms : MetersSet(Ips, cap)]

(* r is right about the first n calls. *)
Counted(r, calls, n, Ips, cap) ==
    /\ r \in Adders(Ips, cap) /\ r.ms.total = AmountOf(calls, n)
    /\ DOMAIN r.ms.of = {calls[k][2] : k \in 1 .. n}
    /\ \A ip \in DOMAIN r.ms.of : Metered(r.ms.of[ip], cap, AmountOfPeer(calls, n, ip))
    /\ \A ip : ip \notin DOMAIN r.ms.of => AmountOfPeer(calls, n, ip) = 0

LEMMA AddedType ==
    ASSUME NEW Ips, NEW cap \in Nat \ {0}, NEW r \in Adders(Ips, cap), NEW c \in Nat \X Ips \X Nat
    PROVE  Added(r, c, cap) \in Adders(Ips, cap)
<1> DEFINE now == r.now + c[1]
           ip == c[2]
           of == r.ms.of
           m == IF ip \in DOMAIN of THEN of[ip] ELSE [TrafficMeter(cap) EXCEPT !.start_time = now]
           a == add_traffic(m, c[3], now)
           new == [x \in DOMAIN of \cup {ip} |-> IF x = ip THEN a ELSE of[x]]
<1>1. /\ now \in Nat /\ c[3] \in Nat /\ ip \in Ips /\ r.ms.total \in Nat /\ r.ms \in MetersSet(Ips, cap)
      /\ of \in Partial(Ips, MeterSet(cap))
  BY DEF Adders, MetersSet
<1>2. PICK D \in SUBSET Ips : of \in [D -> MeterSet(cap)]
  BY <1>1 DEF Partial
<1>3. m \in MeterSet(cap)
  <2>1. [TrafficMeter(cap) EXCEPT !.start_time = now] \in MeterSet(cap)
    BY <1>1, NewMeter DEF Metered
  <2> QED
    BY <1>2, <2>1
<1>4. a \in MeterSet(cap)
  <2> HIDE DEF m, now
  <2> DEFINE b == [m EXCEPT !.total = @ + c[3], !.count = @ + c[3]]
             h == m.history
             room == IF Len(h) >= cap THEN Tail(h) ELSE h
  <2>1. /\ m.total + c[3] \in Nat /\ m.count + c[3] \in Nat /\ h \in Seq(Nat) /\ Len(h) \in Nat
        /\ m.history_capacity = cap
    BY <1>1, <1>3 DEF MeterSet
  <2>2. b \in MeterSet(cap) /\ b.history = h /\ b.history_capacity = cap /\ b.count \in Nat
    BY <1>3, <2>1 DEF MeterSet
  <2>3. a = check_time(b, now)
    BY DEF add_traffic
  <2> HIDE DEF a, b, h
  <2>4. CASE now - b.start_time < TICKS
    BY <2>2, <2>3, <2>4 DEF check_time
  <2>5. CASE ~ (now - b.start_time < TICKS)
    <3>1. a = [b EXCEPT !.history = Append(room, b.count), !.count = 0, !.start_time = now]
      BY <2>2, <2>3, <2>5 DEF check_time
    <3>2. room \in Seq(Nat)
      <4>1. CASE Len(h) >= cap
        <5>1. h # << >>
          BY <2>1, <4>1
        <5> QED
          BY <2>1, <4>1, <5>1, HeadTailProperties
      <4>2. CASE ~ (Len(h) >= cap)
        BY <2>1, <4>2
      <4> QED
        BY <4>1, <4>2
    <3> HIDE DEF room
    <3>3. Append(room, b.count) \in Seq(Nat)
      BY <2>2, <3>2
    <3> QED
      BY <1>1, <2>2, <3>1, <3>3 DEF MeterSet
  <2> QED
    BY <2>4, <2>5
<1>5. Added(r, c, cap) = [now |-> now, ms |-> [total |-> r.ms.total + c[3], of |-> new]]
  BY DEF Added, add_traffic_of
<1> HIDE DEF now, m, a
<1>6. new \in Partial(Ips, MeterSet(cap))
  <2>1. new \in [D \cup {ip} -> MeterSet(cap)] /\ D \cup {ip} \in SUBSET Ips
    BY <1>1, <1>2, <1>4
  <2> QED
    BY <2>1 DEF Partial
<1>7. r.ms.total + c[3] \in Nat
  BY <1>1
<1> HIDE DEF new
<1> QED
  BY <1>1, <1>5, <1>6, <1>7 DEF Adders, MetersSet

(* One call more. *)
LEMMA AddedCounts ==
    ASSUME NEW Ips, NEW cap \in Nat \ {0}, NEW calls \in CallsOf(Ips), NEW n \in Nat, n + 1 \in 1 .. Len(calls),
           NEW r, Counted(r, calls, n, Ips, cap)
    PROVE  Counted(Added(r, calls[n + 1], cap), calls, n + 1, Ips, cap)
<1> DEFINE c == calls[n + 1]
           now == r.now + c[1]
           ip == c[2]
           of == r.ms.of
           m == IF ip \in DOMAIN of THEN of[ip] ELSE [TrafficMeter(cap) EXCEPT !.start_time = now]
           new == [x \in DOMAIN of \cup {ip} |-> IF x = ip THEN add_traffic(m, c[3], now) ELSE of[x]]
           a == Added(r, c, cap)
<1>1. c \in Nat \X Ips \X Nat
  BY DEF CallsOf
<1>2. r \in Adders(Ips, cap) /\ r.ms.total = AmountOf(calls, n)
  BY DEF Counted
<1>3. a \in Adders(Ips, cap)
  BY <1>1, <1>2, AddedType
<1>4. a = [now |-> now, ms |-> [total |-> r.ms.total + c[3], of |-> new]]
  BY DEF Added, add_traffic_of
<1>5. now \in Nat /\ c[3] \in Nat
  BY <1>1, <1>2 DEF Adders
<1>6. \A x : /\ AmountOfPeer(calls, n, x) \in Nat
             /\ AmountOfPeer(calls, n + 1, x) = AmountOfPeer(calls, n, x) + (IF ip = x THEN c[3] ELSE 0)
  BY AmountsStep
<1>7. a.ms.total = AmountOf(calls, n + 1)
  <2>1. AmountOf(calls, n + 1) = AmountOf(calls, n) + c[3]
    BY AmountsStep
  <2> QED
    BY <1>2, <1>4, <2>1
<1>8. Metered(m, cap, AmountOfPeer(calls, n, ip))
  <2>1. CASE ip \in DOMAIN of
    BY <2>1 DEF Counted
  <2>2. CASE ip \notin DOMAIN of
    <3>1. AmountOfPeer(calls, n, ip) = 0
      BY <2>2 DEF Counted
    <3>2. Metered([TrafficMeter(cap) EXCEPT !.start_time = now], cap, 0)
      BY <1>5, NewMeter
    <3> QED
      BY <2>2, <3>1, <3>2
  <2> QED
    BY <2>1, <2>2
<1> HIDE DEF m, now
<1>9. Metered(add_traffic(m, c[3], now), cap, AmountOfPeer(calls, n + 1, ip))
  <2>1. AmountOfPeer(calls, n, ip) \in Nat /\ AmountOfPeer(calls, n + 1, ip) = AmountOfPeer(calls, n, ip) + c[3]
    BY <1>6
  <2>2. Metered(add_traffic(m, c[3], now), cap, AmountOfPeer(calls, n, ip) + c[3])
    BY <1>5, <1>8, <2>1, MeterAdds
  <2> QED
    BY <2>1, <2>2
<1>10. \A x \in DOMAIN of : x # ip => Metered(of[x], cap, AmountOfPeer(calls, n + 1, x))
  <2>1. \A x \in DOMAIN of : Metered(of[x], cap, AmountOfPeer(calls, n, x))
    BY DEF Counted
  <2>2. \A x : x # ip => AmountOfPeer(calls, n + 1, x) = AmountOfPeer(calls, n, x)
    BY <1>6
  <2> QED
    BY <2>1, <2>2
<1>11. DOMAIN new = DOMAIN of \cup {ip} /\ new[ip] = add_traffic(m, c[3], now)
       /\ \A x \in DOMAIN of : x # ip => new[x] = of[x]
  OBVIOUS
<1>12. DOMAIN new = {calls[k][2] : k \in 1 .. n + 1}
  <2>1. DOMAIN of = {calls[k][2] : k \in 1 .. n}
    BY DEF Counted
  <2> QED
    BY <1>11, <2>1
<1>13. \A x : x \notin DOMAIN new => AmountOfPeer(calls, n + 1, x) = 0
  <2>1. \A x : x \notin DOMAIN of => AmountOfPeer(calls, n, x) = 0
    BY DEF Counted
  <2> QED
    BY <1>6, <1>11, <2>1
<1> HIDE DEF new
<1>14. a.ms.of = new
  BY <1>4
<1>15. \A x \in DOMAIN new : Metered(new[x], cap, AmountOfPeer(calls, n + 1, x))
  BY <1>9, <1>10, <1>11
<1>16. Counted(a, calls, n + 1, Ips, cap)
  <2> HIDE DEF a
  <2> QED
    BY <1>3, <1>7, <1>12, <1>13, <1>14, <1>15 DEF Counted
<1> QED
  BY <1>16

(* For every run of calls of add_traffic, set of peers and size of the     *)
(* history: the total, the meters of the peers, their history and open     *)
(* count lose nothing and count nothing twice (traffic_meter.rs).          *)
THEOREM TrafficCounted ==
    ASSUME NEW Ips, NEW cap \in Nat \ {0}, NEW calls \in CallsOf(Ips)
    PROVE  TrafficAddsUp(calls, cap)
<1> DEFINE x == [now |-> 0, ms |-> Meters]
           S == Adders(Ips, cap)
           D == 0 .. Len(calls)
           g == [p \in Nat \X S |-> IF p[1] \in 1 .. Len(calls) THEN Added(p[2], calls[p[1]], cap) ELSE p[2]]
           run == Additions(calls, cap)
<1>1. Len(calls) \in Nat /\ \A k \in 1 .. Len(calls) : calls[k] \in Nat \X Ips \X Nat
  BY DEF CallsOf
<1>2. Counted(x, calls, 0, Ips, cap)
  <2>1. << >> \in Partial(Ips, MeterSet(cap)) /\ DOMAIN << >> = {}
    <3>1. << >> = [i \in {} |-> 0]
      OBVIOUS
    <3>2. << >> \in [{} -> MeterSet(cap)]
      BY <3>1
    <3> QED
      BY <3>2 DEF Partial
  <2>2. x.ms = Meters /\ Meters.total = 0 /\ Meters.of = << >>
    BY DEF Meters
  <2>3. x \in Adders(Ips, cap)
    BY <2>1 DEF Adders, MetersSet, Meters
  <2>4. {calls[k][2] : k \in 1 .. 0} = {}
    OBVIOUS
  <2> HIDE DEF x
  <2> QED
    BY <2>1, <2>2, <2>3, <2>4, AmountsNone DEF Counted
<1>3. x \in S
  BY <1>2 DEF Counted
<1>4. \A r \in S, k \in 1 .. Len(calls) : Added(r, calls[k], cap) \in S
  BY <1>1, AddedType
<1> HIDE DEF S, x
<1>5. g \in [Nat \X S -> S]
  BY <1>4
<1>6. PICK f : IsRun(f, Len(calls), x, g, S)
  <2> HIDE DEF g
  <2> QED
    BY <1>1, <1>3, <1>5, RunExists
<1>7. f = [n \in D |-> IF n = 0 THEN x ELSE Added(f[n - 1], calls[n], cap)]
  <2>1. f \in [D -> S] /\ f[0] = x
    BY <1>6 DEF IsRun
  <2>2. ASSUME NEW n \in D, n # 0 PROVE f[n] = Added(f[n - 1], calls[n], cap)
    <3>1. n \in 1 .. Len(calls) /\ n \in Nat /\ n - 1 \in D
      BY <1>1, <2>2
    <3>2. f[n - 1] \in S
      BY <2>1, <3>1
    <3>3. f[n] = g[<<n, f[n - 1]>>]
      BY <1>6, <3>1 DEF IsRun
    <3> QED
      BY <3>1, <3>2, <3>3
  <2> HIDE DEF D
  <2> QED
    BY <2>1, <2>2
<1>8. run = CHOOSE h : h = [n \in D |-> IF n = 0 THEN x ELSE Added(h[n - 1], calls[n], cap)]
  BY DEF Additions, x
<1> HIDE DEF run
<1>9. run = [n \in D |-> IF n = 0 THEN x ELSE Added(run[n - 1], calls[n], cap)]
  <2> HIDE DEF D
  <2> QED
    BY <1>7, <1>8
<1>10. run[0] = x /\ \A n \in 1 .. Len(calls) : run[n] = Added(run[n - 1], calls[n], cap)
  <2>1. 0 \in D /\ \A n \in 1 .. Len(calls) : n \in D /\ n # 0
    BY <1>1
  <2> HIDE DEF D
  <2> QED
    BY <1>9, <2>1
<1> DEFINE N == {n \in Nat : n \in D => Counted(run[n], calls, n, Ips, cap)}
<1>11. 0 \in N
  BY <1>2, <1>10
<1>12. ASSUME NEW n \in N PROVE n + 1 \in N
  <2>1. CASE n + 1 \in D
    <3>1. n \in D /\ n + 1 \in 1 .. Len(calls) /\ (n + 1) - 1 = n
      BY <1>1, <2>1
    <3>2. run[n + 1] = Added(run[n], calls[n + 1], cap)
      BY <1>10, <3>1
    <3>3. Counted(run[n], calls, n, Ips, cap)
      BY <3>1
    <3>4. Counted(run[n + 1], calls, n + 1, Ips, cap)
      BY <3>1, <3>2, <3>3, AddedCounts
    <3> QED
      BY <3>4
  <2>2. CASE n + 1 \notin D
    BY <2>2
  <2> QED
    BY <2>1, <2>2
<1>13. N = Nat
  <2>1. N \in SUBSET Nat
    OBVIOUS
  <2> HIDE DEF N
  <2> QED
    BY <1>11, <1>12, <2>1, SetInduction
<1> DEFINE e == run[Len(calls)]
<1>14. Counted(e, calls, Len(calls), Ips, cap)
  <2>1. Len(calls) \in N /\ Len(calls) \in D
    BY <1>1, <1>13
  <2> QED
    BY <2>1
<1> HIDE DEF e
<1>15. DOMAIN calls = 1 .. Len(calls)
  BY DEF CallsOf
<1>16. /\ e.ms.total = AmountOf(calls, Len(calls))
       /\ DOMAIN e.ms.of = {calls[n][2] : n \in DOMAIN calls}
       /\ \A ip \in DOMAIN e.ms.of :
             /\ e.ms.of[ip].total = AmountOfPeer(calls, Len(calls), ip)
             /\ Len(e.ms.of[ip].history) <= cap
             /\ Len(e.ms.of[ip].history) < cap =>
                  Total(e.ms.of[ip].history) + e.ms.of[ip].count = e.ms.of[ip].total
  BY <1>14, <1>15 DEF Counted, Metered
<1> QED
  BY <1>16 DEF TrafficAddsUp, e, run

-----------------------------------------------------------------------------
(* Forward: where packets go, in any network.                              *)

(* Powers of two. *)

LEMMA Power2Run ==
    ASSUME NEW n \in Nat
    PROVE  \E f : /\ f \in [0 .. n -> Nat] /\ f[0] = 1
                  /\ \A k \in 1 .. n : f[k] = 2 * f[k - 1]
                  /\ Power2(n) = f[n]
<1> DEFINE g == [p \in Nat \X Nat |-> 2 * p[2]]
<1>1. g \in [Nat \X Nat -> Nat]
  OBVIOUS
<1>2. PICK f : IsRun(f, n, 1, g, Nat)
  <2> HIDE DEF g
  <2> QED
    BY <1>1, RunExists
<1>3. f \in [0 .. n -> Nat] /\ f[0] = 1
  BY <1>2 DEF IsRun
<1>4. \A k \in 1 .. n : f[k] = 2 * f[k - 1]
  <2> SUFFICES ASSUME NEW k \in 1 .. n PROVE f[k] = 2 * f[k - 1]
    OBVIOUS
  <2>1. k \in Nat /\ f[k - 1] \in Nat
    BY <1>3
  <2> QED
    BY <1>2, <2>1 DEF IsRun
<1>5. f = [k \in 0 .. n |-> IF k = 0 THEN 1 ELSE 2 * f[k - 1]]
  BY <1>3, <1>4
<1> DEFINE power == CHOOSE h : h = [k \in 0 .. n |-> IF k = 0 THEN 1 ELSE 2 * h[k - 1]]
<1>6. power = [k \in 0 .. n |-> IF k = 0 THEN 1 ELSE 2 * power[k - 1]]
  BY <1>5
<1>7. Power2(n) = power[n]
  BY DEF Power2
<1> HIDE DEF power
<1>8. \A k \in Nat : k \in 0 .. n => power[k] = f[k]
  <2> DEFINE N == {k \in Nat : k \in 0 .. n => power[k] = f[k]}
  <2>1. 0 \in N
    BY <1>3, <1>6
  <2>2. ASSUME NEW k \in N PROVE k + 1 \in N
    BY <1>4, <1>6
  <2>3. N = Nat
    <3> HIDE DEF N
    <3>1. N \in SUBSET Nat
      BY DEF N
    <3> QED
      BY <2>1, <2>2, <3>1, SetInduction
  <2> QED
    BY <2>3
<1> QED
  BY <1>3, <1>4, <1>7, <1>8, SMTT(60)

LEMMA Power2Doubles ==
    /\ Power2(0) = 1
    /\ \A n \in Nat : Power2(n) \in Nat /\ Power2(n + 1) = 2 * Power2(n)
<1>1. Power2(0) = 1
  <2>1. 0 \in Nat
    OBVIOUS
  <2> QED
    BY <2>1, Power2Run
<1>2. ASSUME NEW n \in Nat PROVE Power2(n) \in Nat /\ Power2(n + 1) = 2 * Power2(n)
  <2>1. PICK f : /\ f \in [0 .. n -> Nat] /\ f[0] = 1
                 /\ \A k \in 1 .. n : f[k] = 2 * f[k - 1]
                 /\ Power2(n) = f[n]
    BY Power2Run
  <2>2. n + 1 \in Nat
    OBVIOUS
  <2>3. PICK h : /\ h \in [0 .. n + 1 -> Nat] /\ h[0] = 1
                 /\ \A k \in 1 .. n + 1 : h[k] = 2 * h[k - 1]
                 /\ Power2(n + 1) = h[n + 1]
    BY <2>2, Power2Run
  <2> DEFINE N == {k \in Nat : k \in 0 .. n => f[k] = h[k]}
  <2>4. 0 \in N
    BY <2>1, <2>3
  <2>5. ASSUME NEW k \in N PROVE k + 1 \in N
    BY <2>1, <2>3
  <2>6. N = Nat
    <3> HIDE DEF N
    <3>1. N \in SUBSET Nat
      BY DEF N
    <3> QED
      BY <2>4, <2>5, <3>1, SetInduction
  <2>7. f[n] = h[n] /\ f[n] \in Nat
    BY <2>1, <2>6, SMTT(60)
  <2>8. h[n + 1] = 2 * h[n]
    BY <2>3
  <2> QED
    BY <2>1, <2>3, <2>7, <2>8
<1> QED
  BY <1>1, <1>2

LEMMA Power2Positive == \A n \in Nat : Power2(n) \in Nat \ {0}
<1> DEFINE N == {n \in Nat : Power2(n) # 0}
<1>1. 0 \in N
  BY Power2Doubles
<1>2. ASSUME NEW n \in N PROVE n + 1 \in N
  BY Power2Doubles
<1>3. N = Nat
  <2> HIDE DEF N
  <2>1. N \in SUBSET Nat
    BY DEF N
  <2> QED
    BY <1>1, <1>2, <2>1, SetInduction
<1> QED
  BY <1>3, Power2Doubles

LEMMA Power2Adds ==
    ASSUME NEW m \in Nat
    PROVE  \A n \in Nat : Power2(m + n) = Power2(n) * Power2(m)
<1> DEFINE N == {n \in Nat : Power2(m + n) = Power2(n) * Power2(m)}
<1>0. Power2(m) \in Nat
  BY Power2Doubles
<1>1. 0 \in N
  BY <1>0, Power2Doubles
<1>2. ASSUME NEW n \in N PROVE n + 1 \in N
  <2>1. Power2(m + n) = Power2(n) * Power2(m) /\ m + n \in Nat
    OBVIOUS
  <2>2. Power2(m + n + 1) = 2 * Power2(m + n) /\ Power2(n + 1) = 2 * Power2(n) /\ Power2(n) \in Nat
    BY <2>1, Power2Doubles
  <2> DEFINE a == Power2(m)
             b == Power2(n)
  <2>3. 2 * (b * a) = (2 * b) * a
    <3>1. a \in Nat /\ b \in Nat
      BY <1>0, <2>2
    <3> HIDE DEF a, b
    <3> QED
      BY <3>1
  <2>4. Power2(m + (n + 1)) = Power2(n + 1) * Power2(m)
    <3>1. m + (n + 1) = m + n + 1
      OBVIOUS
    <3> QED
      BY <2>1, <2>2, <2>3, <3>1
  <2> QED
    BY <2>4
<1>3. N = Nat
  <2> HIDE DEF N
  <2>1. N \in SUBSET Nat
    BY DEF N
  <2> QED
    BY <1>1, <1>2, <2>1, SetInduction
<1> QED
  BY <1>3

LEMMA HostType == \A p \in 0 .. WIDTH : Host(p) \in Nat \ {0}
BY WidthAssumption, Power2Positive DEF Host

(* Of two networks that an address is in, the one with the longer mask     *)
(* does not start before the other.                                        *)
LEMMA NarrowerStartsLater ==
    ASSUME NEW ip \in Nat, NEW p \in 0 .. WIDTH, NEW q \in 0 .. WIDTH, p <= q
    PROVE  Masked(ip, p) \in Int /\ Masked(ip, p) <= Masked(ip, q)
<1> DEFINE K == Power2(q - p)
           H == Host(q)
           G == Host(p)
<1>1. WIDTH - q \in Nat /\ q - p \in Nat /\ (WIDTH - q) + (q - p) = WIDTH - p
  BY WidthAssumption
<1>2. G = K * H
  BY <1>1, Power2Adds DEF Host
<1>3. K \in Nat /\ H \in Nat \ {0} /\ G \in Nat \ {0}
  BY <1>1, Power2Positive, HostType
<1> DEFINE a == ip \div G
           b == ip \div H
<1>4. a \in Int /\ G * a <= ip /\ b \in Int
  <2> HIDE DEF G, H
  <2> QED
    BY <1>3, DivBounds
<1>5. Masked(ip, p) = a * G /\ Masked(ip, q) = b * H
  BY DEF Masked
<1>6. a * G = H * (K * a) /\ G * a = H * (K * a) /\ K * a \in Int
  <2> HIDE DEF K, G, H, a
  <2> QED
    BY <1>2, <1>3, <1>4
<1>7. K * a <= b
  <2> HIDE DEF K, H, a
  <2> QED
    BY <1>3, <1>4, <1>6, DivGreatest
<1>8. H * (K * a) <= H * b /\ H * b = b * H
  <2> HIDE DEF K, H, a, b
  <2> QED
    BY <1>3, <1>4, <1>6, <1>7, MulMono
<1> QED
  <2> HIDE DEF K, G, H, a, b
  <2> QED
    BY <1>3, <1>4, <1>5, <1>6, <1>8


(* The places of 1 .. n in a strict total order R, a set of pairs. *)
StrictOrder(n, R) ==
    /\ \A i \in 1 .. n : <<i, i>> \notin R
    /\ \A i, j \in 1 .. n : i # j => <<i, j>> \in R \/ <<j, i>> \in R
    /\ \A i, j, k \in 1 .. n : <<i, j>> \in R /\ <<j, k>> \in R => <<i, k>> \in R
Place(n, R, i) == Cardinality({j \in 1 .. n : <<j, i>> \in R}) + 1

LEMMA PlaceOrdered ==
    ASSUME NEW n \in Nat, NEW R, StrictOrder(n, R)
    PROVE  /\ \A i \in 1 .. n : Place(n, R, i) \in 1 .. n
           /\ \A i, j \in 1 .. n : <<i, j>> \in R => Place(n, R, i) < Place(n, R, j)
<1> DEFINE B(i) == {j \in 1 .. n : <<j, i>> \in R}
<1>1. IsFiniteSet(1 .. n) /\ Cardinality(1 .. n) = n
  BY FS_Interval
<1>2. \A i \in 1 .. n : IsFiniteSet(B(i)) /\ Cardinality(B(i)) \in Nat
  BY <1>1, FS_Subset, FS_CardinalityType
<1>3. \A i \in 1 .. n : Cardinality(B(i)) < n
  <2> SUFFICES ASSUME NEW i \in 1 .. n PROVE Cardinality(B(i)) < n
    OBVIOUS
  <2>1. B(i) \subseteq 1 .. n /\ B(i) # 1 .. n
    BY DEF StrictOrder
  <2>2. Cardinality(B(i)) <= n /\ Cardinality(B(i)) # n
    <3> HIDE DEF B
    <3> QED
      BY <1>1, <2>1, FS_Subset
  <2> QED
    BY <1>2, <2>2
<1>4. ASSUME NEW i \in 1 .. n, NEW j \in 1 .. n, <<i, j>> \in R
      PROVE  Cardinality(B(i)) < Cardinality(B(j))
  <2>1. B(i) \subseteq B(j) /\ B(i) # B(j)
    <3>1. i \in B(j) /\ i \notin B(i)
      BY <1>4 DEF StrictOrder
    <3>2. B(i) \subseteq B(j)
      BY <1>4 DEF StrictOrder
    <3> QED
      BY <3>1, <3>2
  <2>2. Cardinality(B(i)) <= Cardinality(B(j)) /\ Cardinality(B(i)) # Cardinality(B(j))
    <3>1. IsFiniteSet(B(j)) /\ Cardinality(B(i)) \in Nat /\ Cardinality(B(j)) \in Nat
      BY <1>2
    <3> HIDE DEF B
    <3> QED
      BY <2>1, <3>1, FS_Subset
  <2>3. Cardinality(B(i)) \in Nat /\ Cardinality(B(j)) \in Nat
    BY <1>2
  <2> QED
    BY <2>2, <2>3
<1>5. \A i \in 1 .. n : Place(n, R, i) = Cardinality(B(i)) + 1
  BY DEF Place
<1> HIDE DEF B
<1> QED
  BY <1>2, <1>3, <1>4, <1>5

LEMMA PlaceTaken ==
    ASSUME NEW n \in Nat, NEW R, StrictOrder(n, R)
    PROVE  \A k \in 1 .. n : \E i \in 1 .. n : Place(n, R, i) = k
<1> DEFINE f == [i \in 1 .. n |-> Place(n, R, i)]
<1>1. f \in [1 .. n -> 1 .. n]
  BY PlaceOrdered
<1>2. \A i, j \in 1 .. n : f[i] = f[j] => i = j
  <2> SUFFICES ASSUME NEW i \in 1 .. n, NEW j \in 1 .. n, f[i] = f[j], i # j PROVE FALSE
    OBVIOUS
  <2>1. f[i] < f[j] \/ f[j] < f[i]
    BY PlaceOrdered DEF StrictOrder
  <2>2. f[i] \in 1 .. n /\ f[j] \in 1 .. n
    BY <1>1
  <2> HIDE DEF f
  <2> QED
    BY <2>1, <2>2
<1> HIDE DEF f
<1>3. f \in Injection(1 .. n, 1 .. n)
  BY <1>1, <1>2 DEF Injection, IsInjective
<1>4. IsFiniteSet(1 .. n)
  BY FS_Interval
<1>5. f \in Surjection(1 .. n, 1 .. n)
  BY <1>3, <1>4, FS_Injection
<1>6. \A k \in 1 .. n : \E i \in 1 .. n : f[i] = k
  BY <1>5 DEF Surjection
<1> QED
  BY <1>6 DEF f

(* ExternalRoute *)
RouteEntries == Nat \X (0 .. WIDTH) \X Nat
EntryOf(e) == <<Masked(e[1], e[2]), e[2], e[3]>>
IsTable(t, table) ==
    /\ DOMAIN t = 1 .. Len(table)
    /\ \A k \in 1 .. Len(table) : \E i \in 1 .. Len(table) : t[k] = EntryOf(table[i])
    /\ \A k, l \in 1 .. Len(table) : k <= l => t[l][1] <= t[k][1]

LEMMA TableSorted ==
    ASSUME NEW table \in Seq(RouteEntries)
    PROVE  IsTable(ExternalRoute(table), table)
<1> DEFINE n == Len(table)
           masked == [i \in DOMAIN table |->
                         <<Masked(table[i][1], table[i][2]), table[i][2], table[i][3]>>]
           start == [i \in 1 .. n |-> masked[i][1]]
           Before(i, j) == \/ masked[i][1] > masked[j][1]
                           \/ masked[i][1] = masked[j][1] /\ i < j
           R == {x \in (1 .. n) \X (1 .. n) : Before(x[1], x[2])}
           place(i) == Cardinality({j \in DOMAIN table : Before(j, i)}) + 1
           at(k) == CHOOSE i \in DOMAIN table : place(i) = k
<1>1. n \in Nat /\ DOMAIN table = 1 .. n
  OBVIOUS
<1>2. \A i \in 1 .. n : masked[i] = EntryOf(table[i]) /\ start[i] = masked[i][1] /\ start[i] \in Int
  <2> SUFFICES ASSUME NEW i \in 1 .. n
               PROVE  masked[i] = EntryOf(table[i]) /\ start[i] = masked[i][1] /\ start[i] \in Int
    OBVIOUS
  <2>1. table[i] \in RouteEntries
    OBVIOUS
  <2>2. table[i][1] \in Nat /\ table[i][2] \in 0 .. WIDTH
    BY <2>1 DEF RouteEntries
  <2>3. Masked(table[i][1], table[i][2]) \in Int
    <3> DEFINE ip == table[i][1]
               p == table[i][2]
    <3>1. ip \in Nat /\ p \in 0 .. WIDTH /\ p <= p
      BY <2>2, WidthAssumption
    <3> HIDE DEF ip, p
    <3>2. Masked(ip, p) \in Int
      BY <3>1, NarrowerStartsLater
    <3> QED
      BY <3>2 DEF ip, p
  <2> QED
    BY <1>1, <2>3 DEF EntryOf
<1>3. \A i, j \in 1 .. n : <<i, j>> \in R <=> (start[i] > start[j] \/ (start[i] = start[j] /\ i < j))
  BY <1>2
<1>4. \A i \in 1 .. n : {j \in DOMAIN table : Before(j, i)} = {j \in 1 .. n : <<j, i>> \in R}
  BY <1>1
<1>5. \A i \in 1 .. n : place(i) = Place(n, R, i)
  BY <1>4 DEF Place
<1>6. /\ DOMAIN ExternalRoute(table) = 1 .. n
      /\ \A k \in 1 .. n : ExternalRoute(table)[k] = masked[at(k)]
  BY <1>1 DEF ExternalRoute
<1> HIDE DEF masked, start, R, place, n
<1>8. StrictOrder(n, R)
  BY <1>1, <1>2, <1>3, SMTT(60) DEF StrictOrder
<1>9. \A k \in 1 .. n : at(k) \in 1 .. n /\ Place(n, R, at(k)) = k
  <2>1. \A k \in 1 .. n : \E i \in 1 .. n : Place(n, R, i) = k
    BY <1>1, <1>8, PlaceTaken
  <2>2. \A k \in 1 .. n : \E i \in DOMAIN table : place(i) = k
    BY <1>1, <1>5, <2>1
  <2>3. \A k \in 1 .. n : at(k) \in DOMAIN table /\ place(at(k)) = k
    BY <2>2
  <2> QED
    BY <1>1, <1>5, <2>3
<1> HIDE DEF at
<1>10. ASSUME NEW k \in 1 .. n, NEW l \in 1 .. n, k <= l
       PROVE  start[at(l)] <= start[at(k)]
  <2>1. CASE k = l
    BY <1>2, <1>9, <2>1
  <2>2. CASE k # l
    <3>1. <<at(l), at(k)>> \notin R /\ at(l) # at(k)
      <4> DEFINE x == at(k)
                 y == at(l)
      <4>1. x \in 1 .. n /\ y \in 1 .. n /\ Place(n, R, x) = k /\ Place(n, R, y) = l
        BY <1>9
      <4> HIDE DEF x, y
      <4>2. <<y, x>> \in R => Place(n, R, y) < Place(n, R, x)
        BY <1>1, <1>8, <4>1, PlaceOrdered
      <4>3. k \in Int /\ l \in Int /\ k < l
        BY <1>1, <1>10, <2>2
      <4>4. <<y, x>> \notin R /\ y # x
        BY <4>1, <4>2, <4>3
      <4> QED
        BY <4>4 DEF x, y
    <3>2. <<at(k), at(l)>> \in R
      BY <1>8, <1>9, <3>1 DEF StrictOrder
    <3> QED
      BY <1>2, <1>3, <1>9, <3>2, SMTT(60)
  <2> QED
    BY <2>1, <2>2
<1>13. \A k \in 1 .. n : \E i \in 1 .. n : ExternalRoute(table)[k] = EntryOf(table[i])
  BY <1>2, <1>6, <1>9
<1>14. \A k, l \in 1 .. n : k <= l => ExternalRoute(table)[l][1] <= ExternalRoute(table)[k][1]
  BY <1>2, <1>6, <1>9, <1>10, SMTT(60)
<1> QED
  BY <1>6, <1>13, <1>14 DEF IsTable, n

LEMMA LeastMatching ==
    ASSUME NEW t, NEW ip, DOMAIN t \in SUBSET Nat, Matching(t, ip) # {}
    PROVE  LET matching == Matching(t, ip)
               chosen == CHOOSE i \in matching : \A j \in matching : i <= j
           IN  /\ chosen \in matching
               /\ \A i \in matching : chosen <= i
<1>1. Matching(t, ip) \in SUBSET Nat
  BY DEF Matching
<1> QED
  BY <1>1, LeastNat

(* The gateway found for an address is that of the narrowest network it is *)
(* in, for every table of external routes (ExternalRoute::new, route).     *)
THEOREM NarrowestChosen ==
    ASSUME NEW table \in Seq(RouteEntries), NEW ip \in Nat
    PROVE  NarrowestRoute(table, ip)
<1> DEFINE sorted == ExternalRoute(table)
           matching == Matching(sorted, ip)
           chosen == CHOOSE i \in matching : \A j \in matching : i <= j
<1> SUFFICES ASSUME matching # {}
             PROVE  /\ route(sorted, ip) = sorted[chosen][3]
                    /\ \A i \in matching : sorted[i][2] > sorted[chosen][2] => sorted[i][1] = sorted[chosen][1]
  BY DEF NarrowestRoute
<1>1. route(sorted, ip) = sorted[chosen][3]
  BY DEF route
<1>2. IsTable(sorted, table)
  BY TableSorted
<1>3. chosen \in matching /\ \A i \in matching : chosen <= i
  <2>1. DOMAIN sorted \in SUBSET Nat
    BY <1>2 DEF IsTable
  <2> QED
    BY <2>1, LeastMatching
<1>4. \A i \in matching : i \in 1 .. Len(table) /\ Masked(ip, sorted[i][2]) = sorted[i][1] /\ sorted[i][2] \in 0 .. WIDTH
  <2> SUFFICES ASSUME NEW i \in matching
               PROVE  i \in 1 .. Len(table) /\ Masked(ip, sorted[i][2]) = sorted[i][1] /\ sorted[i][2] \in 0 .. WIDTH
    OBVIOUS
  <2>1. i \in 1 .. Len(table) /\ Masked(ip, sorted[i][2]) = sorted[i][1]
    BY <1>2 DEF IsTable, Matching
  <2>2. PICK j \in 1 .. Len(table) : sorted[i] = EntryOf(table[j])
    BY <1>2, <2>1 DEF IsTable
  <2>3. table[j] \in RouteEntries
    OBVIOUS
  <2>4. sorted[i][2] = table[j][2] /\ table[j][2] \in 0 .. WIDTH
    BY <2>2, <2>3 DEF EntryOf, RouteEntries
  <2> QED
    BY <2>1, <2>4
<1> HIDE DEF sorted, matching, chosen
<1>5. ASSUME NEW i \in matching, sorted[i][2] > sorted[chosen][2]
      PROVE  sorted[i][1] = sorted[chosen][1]
  <2>1. sorted[i][1] <= sorted[chosen][1]
    BY <1>2, <1>3, <1>4 DEF IsTable
  <2> DEFINE p == sorted[chosen][2]
             q == sorted[i][2]
  <2>2. Masked(ip, p) \in Int /\ Masked(ip, q) \in Int /\ Masked(ip, p) <= Masked(ip, q)
    <3>1. p \in 0 .. WIDTH /\ q \in 0 .. WIDTH /\ p < q
      BY <1>3, <1>4, <1>5, WidthAssumption
    <3> HIDE DEF p, q
    <3> QED
      BY <3>1, WidthAssumption, NarrowerStartsLater
  <2> QED
    BY <1>3, <1>4, <2>1, <2>2
<1> QED
  BY <1>1, <1>5


(* A node, and the addresses that belong to one host. *)
IsNode(n) ==
    /\ n.me \in Nat \ {UNSPECIFIED} /\ n.gateway \in Nat /\ n.prefix \in 0 .. WIDTH
    /\ n.order \in Seq(Nat)
    /\ n.online \in BOOLEAN /\ n.allow_wg \in BOOLEAN /\ n.only_p2p \in BOOLEAN
    /\ DOMAIN n.routes \in SUBSET Nat
IsHost(n, ip) == ip \in Nat /\ ~ is_multicast(ip) /\ ip # BROADCAST /\ ip # broadcast_ip(n)

LEMMA SameNetwork ==
    ASSUME NEW n, IsNode(n), NEW ip \in Nat
    PROVE  not_in_network(n, ip) <=> ip \div Host(n.prefix) # n.gateway \div Host(n.prefix)
<1> DEFINE H == Host(n.prefix)
           a == ip \div H
           b == n.gateway \div H
<1>1. H \in Nat \ {0} /\ n.gateway \in Nat
  BY HostType DEF IsNode
<1>2. a \in Int /\ b \in Int
  <2> HIDE DEF H
  <2> QED
    BY <1>1, DivBounds
<1>3. not_in_network(n, ip) <=> a * H # b * H
  BY DEF not_in_network, virtual_network, Masked
<1>4. a * H = b * H <=> a = b
  <2>1. ASSUME a < b PROVE a * H < b * H
    <3> HIDE DEF a, b, H
    <3>1. H * (a + 1) <= H * b /\ H * (a + 1) = H * a + H
      BY <1>1, <1>2, <2>1, MulMono
    <3> QED
      BY <1>1, <1>2, <3>1
  <2>2. ASSUME b < a PROVE b * H < a * H
    <3> HIDE DEF a, b, H
    <3>1. H * (b + 1) <= H * a /\ H * (b + 1) = H * b + H
      BY <1>1, <1>2, <2>2, MulMono
    <3> QED
      BY <1>1, <1>2, <3>1
  <2>3. a * H \in Int /\ b * H \in Int
    <3> HIDE DEF a, b, H
    <3> QED
      BY <1>1, <1>2
  <2> HIDE DEF a, b, H
  <2> QED
    BY <1>2, <2>1, <2>2, <2>3
<1> QED
  BY <1>3, <1>4

LEMMA RouteListed ==
    ASSUME NEW n, IsNode(n), NEW ip, HasRoute(n.routes, ip)
    PROVE  \E i \in DOMAIN n.routes : route(n.routes, ip) = n.routes[i][3]
<1>1. DOMAIN n.routes \in SUBSET Nat /\ Matching(n.routes, ip) # {}
  BY DEF IsNode, HasRoute
<1> DEFINE chosen == CHOOSE i \in Matching(n.routes, ip) : \A j \in Matching(n.routes, ip) : i <= j
<1>2. chosen \in Matching(n.routes, ip)
  BY <1>1, LeastMatching
<1>3. route(n.routes, ip) = n.routes[chosen][3]
  BY DEF route
<1> HIDE DEF chosen
<1> QED
  BY <1>2, <1>3 DEF Matching

LEMMA OneRecipient ==
    ASSUME NEW n, NEW d, IsHost(n, d)
    PROVE  /\ Recipients(n, Packet(d, "Ipv4", d, {})) = {d}
           /\ \A transport \in {"Ipv4", "WGIpv4"} : Recipients(n, Packet(SERVER, transport, d, {})) = {d}
BY DEF IsHost, Recipients, Packet, SERVER

(* What send_ipv4_by_id and the WireGuard copy send for one host. *)
SentOnce(n, s, d) == Len(s) <= 1 /\ \A i \in DOMAIN s : Recipients(n, s[i]) = {d}

LEMMA OneSent ==
    ASSUME NEW n, NEW d, IsHost(n, d)
    PROVE  /\ SentOnce(n, << >>, d) /\ SentOnce(n, ToServer("WGIpv4", d), d)
           /\ SentOnce(n, send_ipv4_by_id(n, d), d)
           /\ Len(ToServer("WGIpv4", d)) = 1
           /\ d \in n.routed \/ (~ n.only_p2p /\ n.online) => Len(send_ipv4_by_id(n, d)) = 1
<1>1. ASSUME NEW p, Recipients(n, p) = {d} PROVE SentOnce(n, <<p>>, d)
  BY <1>1 DEF SentOnce
<1>2. SentOnce(n, << >>, d)
  BY DEF SentOnce
<1>3. SentOnce(n, ToServer("WGIpv4", d), d) /\ SentOnce(n, ToServer("Ipv4", d), d)
  BY <1>1, OneRecipient DEF ToServer
<1>4. SentOnce(n, <<Packet(d, "Ipv4", d, {})>>, d)
  BY <1>1, OneRecipient
<1>5. SentOnce(n, send_ipv4_by_id(n, d), d)
  BY <1>2, <1>3, <1>4 DEF send_ipv4_by_id
<1> QED
  BY <1>2, <1>3, <1>5 DEF ToServer, send_ipv4_by_id

(* A packet for one host: sent at most once, to that host or to the        *)
(* gateway of its external network and to no one else; sent when there is  *)
(* a way; and by the api as by the device (tun_handler.rs handle,          *)
(* sender.rs send_ip), for every node whose external gateways are hosts.   *)
THEOREM UnicastArrives ==
    ASSUME NEW n, IsNode(n), NEW dst, IsHost(n, dst), dst \notin {n.me, n.gateway},
           \A i \in DOMAIN n.routes : IsHost(n, n.routes[i][3])
    PROVE  UnicastReaches(n, dst)
<1> DEFINE s == handle(n, n.me, dst, FALSE)
           t == send_ip(n, dst)
           H == Host(n.prefix)
           inside == dst \div H = n.gateway \div H
           R == route(n.routes, dst)
           HR == HasRoute(n.routes, dst)
           target == IF inside THEN {dst} ELSE IF HR THEN {R} \ {n.me} ELSE {}
           reachable == target \cap (IF n.online /\ ~ n.only_p2p THEN n.up ELSE (n.up \cap n.routed) \ n.wg)
           known(d) == n.allow_wg /\ d \in ToSet(n.order)
           Sends(d) == IF known(d) /\ d \notin n.up THEN << >>
                       ELSE IF known(d) /\ d \in n.wg THEN ToServer("WGIpv4", d)
                       ELSE send_ipv4_by_id(n, d)
           d == IF inside THEN dst ELSE R
           v == IF HR THEN R ELSE dst
<1>1. not_in_network(n, dst) <=> ~ inside
  BY SameNetwork DEF IsHost
<1>2. HR => IsHost(n, R)
  BY RouteListed
<1>3. s = IF ~ inside /\ (~ HR \/ R = n.me) THEN << >> ELSE Sends(d)
  <2> HIDE DEF R, HR, inside
  <2>1. ~ is_multicast(dst) /\ dst # BROADCAST /\ dst # broadcast_ip(n) /\ n.me # dst /\ n.gateway # dst
    BY DEF IsHost
  <2>2. HR => ~ is_multicast(R) /\ R # BROADCAST /\ R # broadcast_ip(n)
    BY <1>2 DEF IsHost
  <2>3. CASE ~ inside /\ (~ HR \/ R = n.me)
    BY <1>1, <2>1, <2>2, <2>3 DEF handle, R, HR
  <2>4. CASE ~ (~ inside /\ (~ HR \/ R = n.me))
    BY <1>1, <2>1, <2>2, <2>4 DEF handle, R, HR
  <2> QED
    BY <2>3, <2>4
<1>4. inside \/ HR => IsHost(n, d) /\ Len(Sends(d)) <= 1 /\ SentOnce(n, Sends(d), d)
  <2> HIDE DEF R, HR, inside
  <2>1. inside \/ HR => IsHost(n, d)
    BY <1>2
  <2> QED
    BY <2>1, OneSent DEF SentOnce
<1>5. Len(s) <= 1 /\ \A i \in DOMAIN s : Recipients(n, s[i]) = target
  <2> HIDE DEF R, HR, inside, s, known
  <2>1. CASE ~ inside /\ (~ HR \/ R = n.me)
    BY <1>3, <2>1
  <2>2. CASE ~ (~ inside /\ (~ HR \/ R = n.me))
    BY <1>3, <1>4, <2>2 DEF SentOnce
  <2> QED
    BY <2>1, <2>2
<1>6. reachable # {} => Len(s) = 1
  <2> HIDE DEF R, HR, inside, s
  <2> SUFFICES ASSUME reachable # {} PROVE Len(s) = 1
    OBVIOUS
  <2>1. target = {d} /\ (inside \/ (HR /\ R # n.me)) /\ IsHost(n, d)
    BY <1>4
  <2>2. s = Sends(d)
    BY <1>3, <2>1
  <2>3. d \in n.up /\ ((n.online /\ ~ n.only_p2p) \/ (d \in n.routed /\ d \notin n.wg))
    BY <2>1
  <2> HIDE DEF d
  <2> QED
    BY <2>1, <2>2, <2>3, OneSent
<1>7. Len(t) <= 1
  <2>1. IsHost(n, v)
    BY <1>2
  <2>2. t = << >> \/ t = ToServer("WGIpv4", v) \/ t = send_ipv4_by_id(n, v)
    <3>1. ~ is_multicast(v) /\ v # BROADCAST /\ v # broadcast_ip(n)
      BY <2>1 DEF IsHost
    <3> QED
      BY <3>1 DEF send_ip
  <2> HIDE DEF v, t
  <2> QED
    BY <2>1, <2>2, OneSent DEF SentOnce
<1>8. inside /\ ~ HR /\ dst \in n.up => t = s
  <2> SUFFICES ASSUME inside, ~ HR, dst \in n.up PROVE t = s
    OBVIOUS
  <2>1. ~ is_multicast(dst) /\ dst # BROADCAST /\ dst # broadcast_ip(n) /\ n.me # UNSPECIFIED
    BY DEF IsHost, IsNode
  <2>2. s = Sends(dst)
    BY <1>3
  <2>3. t = Sends(dst)
    <3> HIDE DEF inside, s
    <3> QED
      BY <1>1, <2>1 DEF send_ip
  <2> QED
    BY <2>2, <2>3
<1> QED
  <2> HIDE DEF s, t, inside, HR, R
  <2> QED
    BY <1>5, <1>6, <1>7, <1>8 DEF UnicastReaches, s, t, inside, HR, R


-----------------------------------------------------------------------------
(* SetToSeq lists each element once. *)
LEMMA SetToSeqLists ==
    ASSUME NEW S, IsFiniteSet(S)
    PROVE  LET f == SetToSeq(S)
           IN  /\ Cardinality(S) \in Nat /\ f \in [1 .. Cardinality(S) -> S] /\ f \in Seq(S)
               /\ \A i, j \in DOMAIN f : f[i] = f[j] => i = j
               /\ \A x \in S : \E i \in DOMAIN f : f[i] = x
<1> DEFINE N == Cardinality(S)
           f == SetToSeq(S)
<1>1. N \in Nat
  BY FS_CardinalityType
<1>2. PICK g : g \in Bijection(1 .. N, S)
  BY FS_CardinalityType DEF ExistsBijection
<1>3. g \in [1 .. N -> S] /\ IsInjective(g)
  BY <1>2 DEF Bijection, Injection
<1>4. f \in [1 .. N -> S] /\ IsInjective(f)
  BY <1>3 DEF SetToSeq
<1>5. IsFiniteSet(1 .. N) /\ Cardinality(1 .. N) = N
  BY <1>1, FS_Interval
<1> HIDE DEF f, N
<1>6. f \in Surjection(1 .. N, S)
  <2>1. f \in Injection(1 .. N, S)
    BY <1>4 DEF Injection
  <2> QED
    BY <1>5, <2>1, FS_Injection DEF N
<1>7. \A x \in S : \E i \in DOMAIN f : f[i] = x
  BY <1>4, <1>6 DEF Surjection
<1>8. \A i, j \in DOMAIN f : f[i] = f[j] => i = j
  BY <1>4 DEF IsInjective
<1>9. f \in Seq(S)
  BY <1>1, <1>4
<1> QED
  BY <1>1, <1>4, <1>7, <1>8, <1>9 DEF f, N

(* A peer gets one of the packets, or none. *)
Once(n, s, p) == \E i \in DOMAIN s : \A j \in DOMAIN s : p \in Recipients(n, s[j]) <=> j = i
Never(n, s, p) == \A i \in DOMAIN s : p \notin Recipients(n, s[i])

LEMMA TimesCounts ==
    ASSUME NEW n, NEW s, NEW p
    PROVE  /\ Once(n, s, p) => Times(n, s, p) = 1
           /\ Never(n, s, p) => Times(n, s, p) = 0
<1> DEFINE X == {i \in DOMAIN s : p \in Recipients(n, s[i])}
<1>1. ASSUME Once(n, s, p) PROVE Times(n, s, p) = 1
  <2>1. PICK i : X = {i}
    BY <1>1 DEF Once
  <2> QED
    BY <2>1, FS_Singleton DEF Times
<1>2. ASSUME Never(n, s, p) PROVE Times(n, s, p) = 0
  <2>1. X = {}
    BY <1>2 DEF Never
  <2> QED
    BY <2>1, FS_EmptySet DEF Times
<1> QED
  BY <1>1, <1>2

Packets == [to : Int, transport : {"Ipv4", "WGIpv4", "Ipv4Broadcast"}, dest : Int, listed : SUBSET Int]

LEMMA BothCount ==
    ASSUME NEW n, NEW p, NEW s \in Seq(Packets), NEW t \in Seq(Packets)
    PROVE  /\ Never(n, s, p) /\ Never(n, t, p) => Never(n, s \o t, p)
           /\ Never(n, s, p) /\ Once(n, t, p) => Once(n, s \o t, p)
           /\ Once(n, s, p) /\ Never(n, t, p) => Once(n, s \o t, p)
<1>1. /\ Len(s) \in Nat /\ Len(t) \in Nat /\ DOMAIN s = 1 .. Len(s) /\ DOMAIN t = 1 .. Len(t)
      /\ DOMAIN (s \o t) = 1 .. Len(s) + Len(t)
      /\ \A i \in 1 .. Len(s) : (s \o t)[i] = s[i]
      /\ \A i \in 1 .. Len(t) : (s \o t)[i + Len(s)] = t[i]
  OBVIOUS
<1> DEFINE st == s \o t
           m == Len(s)
<1>2. \A i \in DOMAIN st : (i \in DOMAIN s /\ st[i] = s[i]) \/ (i - m \in DOMAIN t /\ i \notin DOMAIN s /\ st[i] = t[i - m])
  <2> SUFFICES ASSUME NEW i \in DOMAIN st, i \notin DOMAIN s
               PROVE  i - m \in DOMAIN t /\ st[i] = t[i - m]
    BY <1>1
  <2>1. i - m \in 1 .. Len(t) /\ (i - m) + m = i
    BY <1>1
  <2> QED
    BY <1>1, <2>1
<1>3. \A i \in DOMAIN s : i \in DOMAIN st /\ st[i] = s[i] /\ i - m \notin DOMAIN t
  BY <1>1
<1>4. \A i \in DOMAIN t : i + m \in DOMAIN st /\ st[i + m] = t[i] /\ i + m \notin DOMAIN s
  BY <1>1
<1>5. \A i \in DOMAIN st : i \in Int
  BY <1>1
<1>6. \A i \in DOMAIN t : i \in Int
  BY <1>1
<1>7. m \in Int
  BY <1>1
<1> HIDE DEF st, m
<1>8. Never(n, s, p) /\ Never(n, t, p) => Never(n, st, p)
  BY <1>2 DEF Never
<1>9. ASSUME Never(n, s, p), Once(n, t, p) PROVE Once(n, st, p)
  <2>1. PICK i \in DOMAIN t : \A j \in DOMAIN t : p \in Recipients(n, t[j]) <=> j = i
    BY <1>9 DEF Once
  <2>2. ASSUME NEW j \in DOMAIN st PROVE p \in Recipients(n, st[j]) <=> j = i + m
    <3>1. CASE j \in DOMAIN s
      BY <1>3, <1>4, <1>9, <2>1, <3>1 DEF Never
    <3>2. CASE j \notin DOMAIN s
      BY <1>2, <1>5, <1>6, <1>7, <2>1, <3>2, SMTT(60)
    <3> QED
      BY <3>1, <3>2
  <2> QED
    BY <1>4, <2>1, <2>2 DEF Once
<1>10. ASSUME Once(n, s, p), Never(n, t, p) PROVE Once(n, st, p)
  <2>1. PICK i \in DOMAIN s : \A j \in DOMAIN s : p \in Recipients(n, s[j]) <=> j = i
    BY <1>10 DEF Once
  <2>2. ASSUME NEW j \in DOMAIN st PROVE p \in Recipients(n, st[j]) <=> j = i
    BY <1>2, <1>3, <1>10, <2>1 DEF Never
  <2> QED
    BY <1>3, <2>1, <2>2 DEF Once
<1> QED
  BY <1>8, <1>9, <1>10 DEF st

LEMMA NobodyGets == ASSUME NEW n, NEW p PROVE Never(n, << >>, p) /\ << >> \in Seq(Packets)
BY DEF Never

LEMMA OnePacket ==
    ASSUME NEW n, NEW p, NEW q \in Packets
    PROVE  /\ <<q>> \in Seq(Packets)
           /\ IF p \in Recipients(n, q) THEN Once(n, <<q>>, p) ELSE Never(n, <<q>>, p)
BY DEF Once, Never

(* The direct packets of a broadcast. *)
LEMMA DirectPackets ==
    ASSUME NEW n, NEW D \in Int, NEW X \in SUBSET Nat, IsFiniteSet(X), NEW p
    PROVE  LET sent == SetToSeq({Packet(x, "Ipv4", D, {}) : x \in X})
           IN  /\ sent \in Seq(Packets)
               /\ IF p \in X THEN Once(n, sent, p) ELSE Never(n, sent, p)
<1> DEFINE P(x) == Packet(x, "Ipv4", D, {})
           S == {P(x) : x \in X}
           sent == SetToSeq(S)
<1>1. IsFiniteSet(S)
  <2> DEFINE f == [x \in X |-> P(x)]
  <2>1. f \in Surjection(X, S)
    BY DEF Surjection
  <2> QED
    BY <2>1, FS_Surjection
<1>2. \A x \in X : P(x) \in Packets /\ Recipients(n, P(x)) = {x} /\ P(x).to = x
  <2> SUFFICES ASSUME NEW x \in X PROVE P(x) \in Packets /\ Recipients(n, P(x)) = {x} /\ P(x).to = x
    OBVIOUS
  <2>1. x \in Int /\ x # SERVER
    BY DEF SERVER
  <2>2. P(x) = [to |-> x, transport |-> "Ipv4", dest |-> D, listed |-> {}]
    BY DEF Packet
  <2> HIDE DEF P
  <2>3. P(x).to = x /\ P(x) \in Packets
    BY <2>1, <2>2 DEF Packets
  <2>4. Recipients(n, P(x)) = {x}
    BY <2>1, <2>3 DEF Recipients
  <2> QED
    BY <2>3, <2>4
<1>3. /\ sent \in Seq(S)
      /\ \A i, j \in DOMAIN sent : sent[i] = sent[j] => i = j
      /\ \A q \in S : \E i \in DOMAIN sent : sent[i] = q
  BY <1>1, SetToSeqLists
<1>4. S \subseteq Packets
  BY <1>2
<1> HIDE DEF sent, P
<1>5. sent \in Seq(Packets)
  <2> HIDE DEF S
  <2> QED
    BY <1>3, <1>4, SeqMonotonic
<1>6. \A i \in DOMAIN sent : \E x \in X : sent[i] = P(x)
  <2>1. \A i \in DOMAIN sent : sent[i] \in S
    <3> HIDE DEF S
    <3> QED
      BY <1>3
  <2> QED
    BY <2>1
<1>7. ASSUME p \in X PROVE Once(n, sent, p)
  <2>1. PICK i \in DOMAIN sent : sent[i] = P(p)
    BY <1>3, <1>7
  <2>2. ASSUME NEW j \in DOMAIN sent PROVE p \in Recipients(n, sent[j]) <=> j = i
    BY <1>2, <1>3, <1>6, <1>7, <2>1
  <2> QED
    BY <2>1, <2>2 DEF Once
<1>8. ASSUME p \notin X PROVE Never(n, sent, p)
  BY <1>2, <1>6, <1>8 DEF Never
<1> QED
  BY <1>5, <1>7, <1>8 DEF sent, P


LEMMA TriedAll ==
    ASSUME NEW n, IsNode(n)
    PROVE  /\ Listed(n) \in SUBSET (1 .. Len(n.order)) /\ IsFiniteSet(Listed(n)) /\ Tried(n) \subseteq Listed(n)
           /\ \A X \in SUBSET Listed(n) : IsFiniteSet({n.order[i] : i \in X}) /\ {n.order[i] : i \in X} \in SUBSET Nat
<1>1. n.order \in Seq(Nat) /\ DOMAIN n.order = 1 .. Len(n.order) /\ Len(n.order) \in Nat
  BY DEF IsNode
<1>2. Listed(n) \in SUBSET (1 .. Len(n.order))
  BY <1>1 DEF Listed
<1>3. IsFiniteSet(Listed(n))
  <2>1. IsFiniteSet(1 .. Len(n.order))
    BY <1>1, FS_Interval
  <2> QED
    BY <1>2, <2>1, FS_Subset
<1>4. ASSUME NEW X \in SUBSET Listed(n)
      PROVE  IsFiniteSet({n.order[i] : i \in X}) /\ {n.order[i] : i \in X} \in SUBSET Nat
  <2>1. IsFiniteSet(X)
    BY <1>3, FS_Subset
  <2> DEFINE S == {n.order[i] : i \in X}
             f == [i \in X |-> n.order[i]]
  <2>2. f \in Surjection(X, S)
    BY DEF Surjection
  <2>3. IsFiniteSet(S)
    BY <2>1, <2>2, FS_Surjection
  <2>4. S \in SUBSET Nat
    BY <1>1, <1>2
  <2> QED
    BY <2>3, <2>4
<1> QED
  BY <1>2, <1>3, <1>4 DEF Tried

LEMMA BroadcastCounts ==
    ASSUME NEW n, IsNode(n), n.online, NEW D \in {BROADCAST, broadcast_ip(n)}, D \in Int,
           NEW p \in Others(n)
    PROVE  /\ broadcast(n, D) \in Seq(Packets)
           /\ IF p \in n.up \ n.wg THEN Once(n, broadcast(n, D), p) ELSE Never(n, broadcast(n, D), p)
<1> DEFINE tried == {n.order[i] : i \in Tried(n)}
           direct == tried \cap n.p2p
           sent == SetToSeq({Packet(x, "Ipv4", D, {}) : x \in direct})
           last == Packet(SERVER, "Ipv4Broadcast", D, direct)
           all == Packet(SERVER, "Ipv4", D, {})
           B == broadcast(n, D)
<1>1. PICK k \in DOMAIN n.order : p = n.order[k]
  BY DEF Others, ToSet
<1>2. p \in n.up \ n.wg <=> k \in Listed(n)
  BY <1>1 DEF Listed
<1>3. Tried(n) \subseteq Listed(n) /\ direct \in SUBSET Nat /\ IsFiniteSet(direct)
  <2>1. tried \in SUBSET Nat /\ IsFiniteSet(tried) /\ Tried(n) \subseteq Listed(n)
    BY TriedAll
  <2> HIDE DEF tried
  <2> QED
    BY <2>1, FS_Subset
<1>4. \A x \in tried : x \in n.up \ n.wg
  BY <1>3 DEF Listed
<1>5. B = IF Listed(n) = {} THEN << >>
          ELSE IF Tried(n) = Listed(n) /\ direct = tried THEN sent
          ELSE IF direct = {} THEN <<all>>
          ELSE sent \o <<last>>
  BY DEF broadcast, ToServer
<1>6. sent \in Seq(Packets) /\ IF p \in direct THEN Once(n, sent, p) ELSE Never(n, sent, p)
  <2> HIDE DEF direct
  <2> QED
    BY <1>3, DirectPackets, ZenonT(60)
<1>7. all \in Packets /\ Recipients(n, all) = n.up \ n.wg
  <2>1. all = [to |-> SERVER, transport |-> "Ipv4", dest |-> D, listed |-> {}]
    BY DEF Packet
  <2> HIDE DEF all
  <2>2. all \in Packets
    BY <2>1 DEF Packets, SERVER
  <2> QED
    BY <2>1, <2>2 DEF Recipients
<1>8. last \in Packets /\ Recipients(n, last) = (n.up \ n.wg) \ direct
  <2>1. last = [to |-> SERVER, transport |-> "Ipv4Broadcast", dest |-> D, listed |-> direct]
    BY DEF Packet
  <2> HIDE DEF last, direct
  <2>2. last \in Packets
    BY <1>3, <2>1 DEF Packets, SERVER
  <2> QED
    BY <2>1, <2>2 DEF Recipients
<1> HIDE DEF sent, last, all, B
<1>9. CASE Listed(n) = {}
  BY <1>2, <1>5, <1>9, NobodyGets DEF B
<1>10. CASE Listed(n) # {} /\ Tried(n) = Listed(n) /\ direct = tried
  <2>1. B = sent
    BY <1>5, <1>10
  <2>2. p \in direct <=> p \in n.up \ n.wg
    BY <1>1, <1>2, <1>4, <1>10
  <2> QED
    BY <1>6, <2>1, <2>2 DEF B
<1>11. CASE Listed(n) # {} /\ ~ (Tried(n) = Listed(n) /\ direct = tried) /\ direct = {}
  <2>1. B = <<all>>
    BY <1>5, <1>11
  <2> QED
    BY <1>7, <2>1, OnePacket DEF B
<1>12. CASE Listed(n) # {} /\ ~ (Tried(n) = Listed(n) /\ direct = tried) /\ direct # {}
  <2>1. B = sent \o <<last>>
    BY <1>5, <1>12
  <2>2. <<last>> \in Seq(Packets)
    BY <1>8, OnePacket
  <2>3. IF p \in (n.up \ n.wg) \ direct THEN Once(n, <<last>>, p) ELSE Never(n, <<last>>, p)
    BY <1>8, OnePacket
  <2>4. p \in direct => p \in n.up \ n.wg
    BY <1>4
  <2>5. B \in Seq(Packets)
    BY <1>6, <2>1, <2>2
  <2>6. IF p \in n.up \ n.wg THEN Once(n, B, p) ELSE Never(n, B, p)
    <3> HIDE DEF direct
    <3> QED
      BY <1>6, <2>1, <2>2, <2>3, <2>4, BothCount
  <2> QED
    BY <2>5, <2>6 DEF B
<1> QED
  BY <1>9, <1>10, <1>11, <1>12

LEMMA WgCounts ==
    ASSUME NEW n, IsNode(n), NEW D \in {BROADCAST, broadcast_ip(n)}, D \in Int, NEW p
    PROVE  /\ WgCopy(n, D) \in Seq(Packets)
           /\ IF n.allow_wg /\ p \in n.up \cap n.wg THEN Once(n, WgCopy(n, D), p) ELSE Never(n, WgCopy(n, D), p)
<1> DEFINE q == Packet(SERVER, "WGIpv4", D, {})
<1>1. q \in Packets /\ Recipients(n, q) = n.up \cap n.wg
  <2>1. q = [to |-> SERVER, transport |-> "WGIpv4", dest |-> D, listed |-> {}]
    BY DEF Packet
  <2> HIDE DEF q
  <2>2. q \in Packets
    BY <2>1 DEF Packets, SERVER
  <2> QED
    BY <2>1, <2>2 DEF Recipients
<1>2. WgCopy(n, D) = IF n.allow_wg /\ n.up \cap n.wg # {} THEN <<q>> ELSE << >>
  BY DEF WgCopy, ToServer
<1> HIDE DEF q
<1>3. CASE n.allow_wg /\ n.up \cap n.wg # {}
  BY <1>1, <1>2, <1>3, OnePacket
<1>4. CASE ~ (n.allow_wg /\ n.up \cap n.wg # {})
  BY <1>2, <1>4, NobodyGets
<1> QED
  BY <1>3, <1>4

LEMMA AddressesType == ASSUME NEW n, IsNode(n) PROVE BROADCAST \in Int /\ broadcast_ip(n) \in Int
<1>1. BROADCAST \in Int
  BY WidthAssumption, Power2Doubles DEF BROADCAST
<1> DEFINE H == Host(n.prefix)
           a == n.gateway \div H
<1>2. H \in Nat \ {0} /\ n.gateway \in Nat
  BY HostType DEF IsNode
<1>3. a \in Int
  <2> HIDE DEF H
  <2> QED
    BY <1>2, DivBounds
<1>4. broadcast_ip(n) = a * H + H - 1
  BY DEF broadcast_ip, Masked
<1> HIDE DEF H, a
<1> QED
  BY <1>1, <1>2, <1>3, <1>4

(* A broadcast or multicast packet, of the device or of the api, reaches   *)
(* every peer that is online exactly once, for every network, number of    *)
(* peers and limit MAX_COUNT (tun_handler.rs broadcast, sender.rs          *)
(* send_to_wg_broadcast), unless an external route was set for it.         *)
THEOREM BroadcastArrives ==
    ASSUME NEW n, IsNode(n), NEW dst, dst \notin {n.me, n.gateway}, ~ HasRoute(n.routes, dst),
           is_multicast(dst) \/ dst = BROADCAST \/ dst = broadcast_ip(n)
    PROVE  BroadcastReaches(n, dst)
<1> SUFFICES ASSUME NEW sends \in {handle(n, n.me, dst, FALSE), send_ip(n, dst)}, NEW p \in Others(n), n.online
             PROVE  Times(n, sends, p) = (IF p \in n.up /\ (p \notin n.wg \/ n.allow_wg) THEN 1 ELSE 0)
  BY DEF BroadcastReaches
<1> DEFINE D == IF is_multicast(dst) THEN BROADCAST ELSE dst
           W == WgCopy(n, D)
           all == Packet(SERVER, "Ipv4", D, {})
<1>1. D \in {BROADCAST, broadcast_ip(n)} /\ D \in Int
  BY AddressesType
<1>2. handle(n, n.me, dst, FALSE) = W \o broadcast(n, D)
  BY DEF handle
<1>3. send_ip(n, dst) = W \o <<all>>
  <2>1. n.me # UNSPECIFIED
    BY DEF IsNode
  <2> QED
    BY <2>1 DEF send_ip, ToServer
<1> HIDE DEF D
<1>4. PICK rest \in Seq(Packets) : /\ sends = W \o rest
                                   /\ IF p \in n.up \ n.wg THEN Once(n, rest, p) ELSE Never(n, rest, p)
  <2>1. CASE sends = handle(n, n.me, dst, FALSE)
    BY <1>1, <1>2, <2>1, BroadcastCounts
  <2>2. CASE sends = send_ip(n, dst)
    <3>1. all = [to |-> SERVER, transport |-> "Ipv4", dest |-> D, listed |-> {}]
      BY DEF Packet
    <3> HIDE DEF all
    <3>2. all \in Packets
      BY <1>1, <3>1 DEF Packets, SERVER
    <3>3. Recipients(n, all) = n.up \ n.wg
      BY <1>1, <3>1 DEF Recipients
    <3> QED
      BY <1>3, <2>2, <3>2, <3>3, OnePacket
  <2> QED
    BY <2>1, <2>2
<1>5. /\ W \in Seq(Packets)
      /\ IF n.allow_wg /\ p \in n.up \cap n.wg THEN Once(n, W, p) ELSE Never(n, W, p)
  BY <1>1, WgCounts
<1> HIDE DEF W
<1>6. IF p \in n.up /\ (p \notin n.wg \/ n.allow_wg) THEN Once(n, sends, p) ELSE Never(n, sends, p)
  BY <1>4, <1>5, BothCount
<1> QED
  BY <1>6, TimesCounts


-----------------------------------------------------------------------------
(* NetPackets: the broadcast packet for the server.                        *)

Octets == 0 .. 255
Ipv4s == {o \in Seq(Octets) : Len(o) = 4}

(* The octets of a list of addresses, one behind the other. *)
Flat(f, list) ==
    /\ f \in Seq(Octets) /\ Len(f) = 4 * Len(list)
    /\ \A i \in 1 .. Len(list) : \A j \in 1 .. 4 : f[4 * (i - 1) + j] = list[i][j]

LEMMA FlatNext ==
    ASSUME NEW m \in Nat, NEW f \in Seq(Octets), Len(f) = 4 * m, NEW o \in Ipv4s
    PROVE  /\ f \o o \in Seq(Octets) /\ Len(f \o o) = 4 * (m + 1)
           /\ \A k \in 1 .. 4 * m : (f \o o)[k] = f[k]
           /\ \A j \in 1 .. 4 : (f \o o)[4 * m + j] = o[j]
<1>1. o \in Seq(Octets) /\ Len(o) = 4
  BY DEF Ipv4s
<1> DEFINE fo == f \o o
<1>2. /\ fo \in Seq(Octets) /\ Len(fo) = Len(f) + Len(o)
      /\ \A k \in 1 .. Len(f) : fo[k] = f[k]
      /\ \A j \in 1 .. Len(o) : fo[j + Len(f)] = o[j]
  <2>1. Len(f) \in Nat /\ Len(o) \in Nat
    BY <1>1
  <2>2. fo \in Seq(Octets) /\ Len(fo) = Len(f) + Len(o)
    BY <1>1, ConcatProperties
  <2>3. \A k \in 1 .. Len(f) + Len(o) : fo[k] = IF k <= Len(f) THEN f[k] ELSE o[k - Len(f)]
    BY <1>1, ConcatProperties
  <2>4. ASSUME NEW j \in 1 .. Len(o) PROVE fo[j + Len(f)] = o[j]
    <3>1. j + Len(f) \in 1 .. Len(f) + Len(o) /\ ~ (j + Len(f) <= Len(f)) /\ (j + Len(f)) - Len(f) = j
      BY <2>1
    <3> QED
      BY <2>3, <3>1
  <2>5. ASSUME NEW k \in 1 .. Len(f) PROVE fo[k] = f[k]
    BY <2>1, <2>3
  <2> QED
    BY <2>2, <2>4, <2>5
<1> HIDE DEF fo
<1>3. Len(fo) = 4 * (m + 1) /\ \A k \in 1 .. 4 * m : fo[k] = f[k]
  BY <1>1, <1>2
<1>4. ASSUME NEW j \in 1 .. 4 PROVE fo[4 * m + j] = o[j]
  <2>1. 4 * m + j = j + Len(f) /\ j \in 1 .. Len(o)
    BY <1>1
  <2> QED
    BY <1>2, <2>1
<1> QED
  BY <1>2, <1>3, <1>4 DEF fo

LEMMA FlattenFlat ==
    ASSUME NEW list \in Seq(Ipv4s)
    PROVE  Flat(FlattenSeq(list), list)
<1> DEFINE n == Len(list)
<1>1. n \in Nat /\ \A i \in 1 .. n : list[i] \in Ipv4s
  OBVIOUS
<1>2. CASE n = 0
  <2>1. FlattenSeq(list) = list /\ list = << >>
    BY <1>2 DEF FlattenSeq
  <2> QED
    BY <2>1 DEF Flat
<1>3. CASE n # 0
  <2> DEFINE g == [p \in Nat \X Seq(Octets) |-> p[2] \o (IF p[1] \in 1 .. n THEN list[p[1]] ELSE << >>)]
  <2>1. g \in [Nat \X Seq(Octets) -> Seq(Octets)]
    <3>1. \A i \in 1 .. n : list[i] \in Seq(Octets)
      BY <1>1 DEF Ipv4s
    <3> QED
      BY <3>1
  <2>2. PICK f : IsRun(f, n, << >>, g, Seq(Octets))
    <3> HIDE DEF g, n
    <3>1. << >> \in Seq(Octets)
      OBVIOUS
    <3> QED
      BY <1>1, <2>1, <3>1, RunExists
  <2>3. f \in [0 .. n -> Seq(Octets)] /\ f[0] = << >>
    BY <2>2 DEF IsRun
  <2>4. \A k \in 1 .. n : f[k] = f[k - 1] \o list[k]
    <3> SUFFICES ASSUME NEW k \in 1 .. n PROVE f[k] = f[k - 1] \o list[k]
      OBVIOUS
    <3>1. k \in Nat /\ f[k - 1] \in Seq(Octets) /\ f[k] = g[<<k, f[k - 1]>>]
      <4>1. k \in Nat /\ k - 1 \in 0 .. n
        BY <1>1
      <4> HIDE DEF g
      <4> QED
        BY <2>2, <2>3, <4>1 DEF IsRun
    <3> QED
      BY <3>1
  <2>5. f[1] = list[1]
    <3>1. f[1] = << >> \o list[1] /\ list[1] \in Seq(Octets)
      <4>1. 1 \in 1 .. n /\ 1 - 1 = 0
        BY <1>1, <1>3
      <4> QED
        BY <1>1, <2>3, <2>4, <4>1 DEF Ipv4s
    <3> QED
      BY <3>1
  <2> DEFINE h == [i \in 1 .. n |-> f[i]]
             flatten == CHOOSE x : x = [i \in 1 .. n |-> IF i = 1 THEN list[i] ELSE x[i - 1] \o list[i]]
  <2>6. h = [i \in 1 .. n |-> IF i = 1 THEN list[i] ELSE h[i - 1] \o list[i]]
    <3>1. ASSUME NEW i \in 1 .. n PROVE h[i] = IF i = 1 THEN list[i] ELSE h[i - 1] \o list[i]
      <4>1. CASE i = 1
        BY <2>5, <4>1
      <4>2. CASE i # 1
        <5>1. i - 1 \in 1 .. n
          BY <1>1, <4>2
        <5> QED
          BY <2>4, <4>2, <5>1
      <4> QED
        BY <4>1, <4>2
    <3>2. DOMAIN h = 1 .. n /\ h = [i \in DOMAIN h |-> h[i]]
      OBVIOUS
    <3> HIDE DEF h
    <3> QED
      BY <3>1, <3>2
  <2>7. flatten = [i \in 1 .. n |-> IF i = 1 THEN list[i] ELSE flatten[i - 1] \o list[i]]
    <3> HIDE DEF h
    <3> QED
      BY <2>6
  <2>8. FlattenSeq(list) = flatten[n]
    BY <1>3 DEF FlattenSeq
  <2> HIDE DEF flatten, h, g, n
  <2> DEFINE Q(k) == /\ flatten[k] \in Seq(Octets) /\ Len(flatten[k]) = 4 * k
                     /\ \A i \in 1 .. k : \A j \in 1 .. 4 : flatten[k][4 * (i - 1) + j] = list[i][j]
             N == {k \in Nat : k + 1 \in 1 .. n => Q(k + 1)}
  <2>9. 0 \in N
    <3>1. 1 \in 1 .. n /\ flatten[1] = list[1] /\ list[1] \in Seq(Octets) /\ Len(list[1]) = 4
      BY <1>1, <1>3, <2>7 DEF Ipv4s
    <3>2. Q(1)
      BY <3>1
    <3> QED
      BY <3>2
  <2>10. ASSUME NEW k \in N PROVE k + 1 \in N
    <3> SUFFICES ASSUME (k + 1) + 1 \in 1 .. n PROVE Q((k + 1) + 1)
      OBVIOUS
    <3> DEFINE m == k + 1
               F == flatten[m]
    <3>1. m \in Nat /\ m \in 1 .. n /\ m + 1 \in 1 .. n /\ m + 1 # 1 /\ (m + 1) - 1 = m
      BY <1>1
    <3>2. Q(m)
      BY <3>1
    <3>3. flatten[m + 1] = F \o list[m + 1] /\ list[m + 1] \in Ipv4s
      BY <1>1, <2>7, <3>1
    <3> DEFINE G == flatten[m + 1]
               o == list[m + 1]
    <3>4. F \in Seq(Octets) /\ Len(F) = 4 * m
      BY <3>2
    <3>5. /\ G \in Seq(Octets) /\ Len(G) = 4 * (m + 1)
          /\ \A x \in 1 .. 4 * m : G[x] = F[x]
          /\ \A j \in 1 .. 4 : G[4 * m + j] = o[j]
      <4>1. G = F \o o /\ o \in Ipv4s
        BY <3>3
      <4> HIDE DEF m, F, G, o
      <4> QED
        BY <3>1, <3>4, <4>1, FlatNext
    <3>6. ASSUME NEW i \in 1 .. m + 1, NEW j \in 1 .. 4 PROVE G[4 * (i - 1) + j] = list[i][j]
      <4>1. CASE i = m + 1
        <5>1. 4 * (i - 1) + j = 4 * m + j
          BY <3>1, <4>1
        <5> QED
          BY <3>5, <4>1, <5>1
      <4>2. CASE i # m + 1
        <5>1. i \in 1 .. m /\ 4 * (i - 1) + j \in 1 .. 4 * m
          BY <3>1, <4>2
        <5>2. F[4 * (i - 1) + j] = list[i][j]
          BY <3>2, <5>1
        <5> QED
          BY <3>5, <5>1, <5>2
      <4> QED
        BY <4>1, <4>2
    <3> QED
      BY <3>5, <3>6
  <2>11. N = Nat
    <3> HIDE DEF N
    <3>1. N \in SUBSET Nat
      BY DEF N
    <3> QED
      BY <2>9, <2>10, <3>1, SetInduction
  <2>12. Q(n)
    <3>1. n - 1 \in Nat /\ (n - 1) + 1 = n /\ n \in 1 .. n
      BY <1>1, <1>3
    <3>2. n - 1 \in N
      BY <2>11, <3>1
    <3> QED
      BY <3>1, <3>2
  <2> QED
    BY <2>8, <2>12 DEF Flat, n
<1> QED
  BY <1>2, <1>3


(* The m bytes of b behind the first i. *)
IsCut(c, b, i, m) ==
    c \in Seq(Octets) /\ Len(c) = m /\ \A k \in 1 .. m : c[k] = b[i + k]

LEMMA CutBytes ==
    ASSUME NEW b \in Seq(Octets), NEW i \in Nat, NEW m \in Nat, NEW j \in Nat, j = i + m, j <= Len(b)
    PROVE  IsCut(Cut(b, i, j), b, i, m)
<1>1. Len(b) \in Nat /\ \A k \in 1 .. Len(b) : b[k] \in Octets
  BY LenProperties
<1>2. i + 1 \in Int /\ j \in Int /\ \A k \in (i + 1) .. j : b[k] \in Octets
  BY <1>1
<1> DEFINE c == SubSeq(b, i + 1, j)
<1>3. /\ c \in Seq(Octets) /\ Len(c) = IF i + 1 <= j THEN j - (i + 1) + 1 ELSE 0
      /\ \A k \in 1 .. j - (i + 1) + 1 : c[k] = b[i + 1 + k - 1]
  BY <1>2, SubSeqProperties
<1>4. Cut(b, i, j) = c
  BY DEF Cut
<1> HIDE DEF c
<1>5. Len(c) = m
  BY <1>3
<1>6. ASSUME NEW k \in 1 .. m PROVE c[k] = b[i + k]
  <2>1. k \in 1 .. j - (i + 1) + 1 /\ i + 1 + k - 1 = i + k
    OBVIOUS
  <2> QED
    BY <1>3, <2>1
<1> QED
  BY <1>3, <1>4, <1>5, <1>6 DEF IsCut

LEMMA SameBytes ==
    ASSUME NEW c, NEW d, NEW m \in Nat, c \in Seq(Octets), d \in Seq(Octets), Len(c) = m, Len(d) = m,
           \A k \in 1 .. m : c[k] = d[k]
    PROVE  c = d
BY SeqEqual

LEMMA PutBytes ==
    ASSUME NEW b \in Seq(Octets), NEW i \in Nat, NEW s \in Seq(Octets), i + Len(s) <= Len(b)
    PROVE  /\ Put(b, i, s) \in Seq(Octets) /\ Len(Put(b, i, s)) = Len(b)
           /\ \A k \in 1 .. Len(s) : Put(b, i, s)[i + k] = s[k]
           /\ \A k \in 1 .. Len(b) : k <= i \/ k > i + Len(s) => Put(b, i, s)[k] = b[k]
<1>1. /\ Len(b) \in Nat /\ DOMAIN b = 1 .. Len(b) /\ \A k \in 1 .. Len(b) : b[k] \in Octets
      /\ Len(s) \in Nat /\ DOMAIN s = 1 .. Len(s) /\ \A k \in 1 .. Len(s) : s[k] \in Octets
  BY LenProperties
<1> DEFINE c == Put(b, i, s)
<1>2. c = [k \in 1 .. Len(b) |-> IF k - i \in 1 .. Len(s) THEN s[k - i] ELSE b[k]]
  BY <1>1 DEF Put
<1>3. c \in [1 .. Len(b) -> Octets]
  BY <1>1, <1>2
<1>4. c \in Seq(Octets) /\ Len(c) = Len(b)
  <2> HIDE DEF c
  <2> QED
    BY <1>1, <1>3
<1>5. ASSUME NEW k \in 1 .. Len(s) PROVE c[i + k] = s[k]
  <2>1. i + k \in 1 .. Len(b) /\ (i + k) - i = k
    BY <1>1
  <2> QED
    BY <1>2, <2>1
<1>6. ASSUME NEW k \in 1 .. Len(b), k <= i \/ k > i + Len(s) PROVE c[k] = b[k]
  <2>1. k - i \notin 1 .. Len(s)
    BY <1>1, <1>6
  <2> QED
    BY <1>2, <2>1
<1> QED
  BY <1>4, <1>5, <1>6

LEMMA ZeroBytes ==
    ASSUME NEW n \in Nat
    PROVE  Zeros(n) \in Seq(Octets) /\ Len(Zeros(n)) = n
BY DEF Zeros, Octets

(* What the body of a broadcast packet holds. *)
Holds(b, list, inner) ==
    /\ b \in Seq(Octets) /\ Len(b) = 1 + 4 * Len(list) + Len(inner) /\ b[1] = Len(list)
    /\ \A i \in 1 .. Len(list) : \A j \in 1 .. 4 : b[1 + 4 * (i - 1) + j] = list[i][j]
    /\ \A k \in 1 .. Len(inner) : b[1 + 4 * Len(list) + k] = inner[k]

LEMMA BodyHolds ==
    ASSUME NEW list \in Seq(Ipv4s), Len(list) <= 255, NEW inner \in Seq(Octets), inner # << >>,
           NEW y \in Seq(Octets), Len(y) = 1 + 4 * Len(list) + Len(inner)
    PROVE  Holds(set_data(set_address(y, list), inner), list, inner)
<1> DEFINE n == Len(list)
           m == Len(inner)
           f == FlattenSeq(list)
           h == <<n>> \o f
           a == Put(y, 0, h)
           b == Put(a, 1 + 4 * n, inner)
<1>1. n \in Nat /\ n <= 255 /\ n \in Octets /\ m \in Nat /\ m >= 1
  <2>1. n \in Nat /\ m \in Nat /\ m # 0
    BY LenProperties, EmptySeq
  <2> HIDE DEF n, m
  <2>2. n <= 255
    BY DEF n
  <2> QED
    BY <2>1, <2>2 DEF Octets
<1>2. Flat(f, list)
  BY FlattenFlat
<1> HIDE DEF f
<1>3. /\ h \in Seq(Octets) /\ Len(h) = 1 + 4 * n /\ h[1] = n
      /\ \A k \in 1 .. 4 * n : h[1 + k] = f[k]
  <2>1. f \in Seq(Octets) /\ Len(f) = 4 * n
    BY <1>2 DEF Flat
  <2>2. <<n>> \in Seq(Octets) /\ Len(<<n>>) = 1
    BY <1>1
  <2>3. /\ h \in Seq(Octets) /\ Len(h) = 1 + Len(f)
        /\ \A k \in 1 .. 1 + Len(f) : h[k] = IF k <= 1 THEN n ELSE f[k - 1]
    <3> DEFINE s == <<n>>
    <3>1. s \in Seq(Octets) /\ Len(s) = 1 /\ h = s \o f /\ s[1] = n
      BY <2>2
    <3> HIDE DEF s, h
    <3>2. /\ h \in Seq(Octets) /\ Len(h) = Len(s) + Len(f)
          /\ \A k \in 1 .. Len(s) + Len(f) : h[k] = IF k <= Len(s) THEN s[k] ELSE f[k - Len(s)]
      <4> DEFINE c == s \o f
      <4>1. c \in Seq(Octets) /\ Len(c) = Len(s) + Len(f)
        BY <2>1, <3>1, ConcatProperties, ZenonT(60)
      <4>2. \A k \in 1 .. Len(s) + Len(f) : c[k] = IF k <= Len(s) THEN s[k] ELSE f[k - Len(s)]
        <5>1. s \in Seq(Octets) /\ f \in Seq(Octets)
          BY <2>1, <3>1
        <5> QED
          BY <5>1, ConcatProperties
      <4> HIDE DEF c
      <4> QED
        BY <3>1, <4>1, <4>2 DEF c
    <3>3. \A k \in 1 .. 1 + Len(f) : k <= 1 => k = 1
      BY <2>1
    <3> HIDE DEF n
    <3> QED
      BY <3>1, <3>2, <3>3
  <2> HIDE DEF h
  <2>4. ASSUME NEW k \in 1 .. 4 * n PROVE h[1 + k] = f[k]
    <3>1. 1 + k \in 1 .. 1 + Len(f) /\ ~ (1 + k <= 1) /\ (1 + k) - 1 = k
      BY <1>1, <2>1
    <3> QED
      BY <2>3, <3>1
  <2>5. h[1] = n
    <3>1. 1 \in 1 .. 1 + Len(f)
      BY <1>1, <2>1
    <3> QED
      BY <2>3, <3>1
  <2> QED
    BY <2>1, <2>3, <2>4, <2>5
<1> HIDE DEF h
<1>4. set_address(y, list) = a
  <2>1. ~ (Len(y) < 1 + 4 * n \/ n > 255)
    BY <1>1
  <2> QED
    BY <2>1 DEF set_address, h, f
<1>5. /\ a \in Seq(Octets) /\ Len(a) = Len(y)
      /\ \A k \in 1 .. 1 + 4 * n : a[k] = h[k]
  <2>1. 0 + Len(h) <= Len(y) /\ 0 \in Nat
    BY <1>1, <1>3
  <2>2. /\ a \in Seq(Octets) /\ Len(a) = Len(y)
        /\ \A k \in 1 .. Len(h) : a[0 + k] = h[k]
    BY <1>3, <2>1, PutBytes
  <2> HIDE DEF a
  <2>3. ASSUME NEW k \in 1 .. 1 + 4 * n PROVE a[k] = h[k]
    <3>1. k \in 1 .. Len(h) /\ 0 + k = k
      BY <1>1, <1>3
    <3> QED
      BY <2>2, <3>1
  <2> QED
    BY <2>2, <2>3
<1> HIDE DEF a
<1>6. set_data(a, inner) = b
  <2>1. addr_num(a) = n
    <3>1. a[1] = n
      BY <1>1, <1>3, <1>5
    <3> QED
      BY <3>1 DEF addr_num, At
  <2>2. ~ (1 + 4 * n >= Len(a) \/ 1 + 4 * n + Len(inner) # Len(a))
    BY <1>1, <1>5
  <2> QED
    BY <2>1, <2>2 DEF set_data
<1>7. /\ b \in Seq(Octets) /\ Len(b) = Len(a)
      /\ \A k \in 1 .. m : b[1 + 4 * n + k] = inner[k]
      /\ \A k \in 1 .. 1 + 4 * n : b[k] = a[k]
  <2> DEFINE st == 1 + 4 * n
  <2>1. st \in Nat /\ st + Len(inner) <= Len(a)
    BY <1>1, <1>5
  <2> HIDE DEF st
  <2> DEFINE c == Put(a, st, inner)
  <2>2. /\ c \in Seq(Octets) /\ Len(c) = Len(a)
        /\ \A k \in 1 .. m : c[st + k] = inner[k]
        /\ \A k \in 1 .. Len(a) : k <= st \/ k > st + m => c[k] = a[k]
    BY <1>5, <2>1, PutBytes
  <2>3. b = c
    BY DEF st
  <2> HIDE DEF b, c
  <2>4. \A k \in 1 .. st : c[k] = a[k]
    BY <1>1, <1>5, <2>1, <2>2
  <2> QED
    BY <2>2, <2>3, <2>4 DEF st
<1> HIDE DEF b
<1>8. ASSUME NEW i \in 1 .. n, NEW j \in 1 .. 4 PROVE b[1 + 4 * (i - 1) + j] = list[i][j]
  <2> DEFINE k == 4 * (i - 1) + j
  <2>1. k \in 1 .. 4 * n /\ 1 + k \in 1 .. 1 + 4 * n /\ 1 + 4 * (i - 1) + j = 1 + k
    BY <1>1
  <2>2. f[k] = list[i][j]
    BY <1>2 DEF Flat
  <2> HIDE DEF k
  <2> QED
    BY <1>3, <1>5, <1>7, <2>1, <2>2, ZenonT(60)
<1>9. b[1] = n
  BY <1>1, <1>3, <1>5, <1>7
<1> QED
  BY <1>4, <1>5, <1>6, <1>7, <1>8, <1>9 DEF Holds

LEMMA HeldFound ==
    ASSUME NEW list \in Seq(Ipv4s), NEW inner \in Seq(Octets), inner # << >>, NEW b, Holds(b, list, inner)
    PROVE  /\ list # << >> => BroadcastPacket_new(b) /\ addresses(b) = list
           /\ broadcast_data(b) = inner
<1> DEFINE n == Len(list)
           m == Len(inner)
<1>1. n \in Nat /\ m \in Nat /\ m >= 1 /\ (list # << >> => n >= 1)
  BY LenProperties, EmptySeq
<1>2. b \in Seq(Octets) /\ Len(b) = 1 + 4 * n + m /\ addr_num(b) = n
  BY DEF Holds, addr_num, At
<1>3. broadcast_data(b) = inner
  <2> DEFINE i == 1 + 4 * n
             c == Cut(b, i, Len(b))
  <2>1. i \in Nat /\ Len(b) \in Nat /\ Len(b) = i + m
    BY <1>1, <1>2
  <2>2. broadcast_data(b) = c
    BY <1>2 DEF broadcast_data, From, Cut
  <2>3. \A k \in 1 .. m : b[i + k] = inner[k]
    BY DEF Holds
  <2> HIDE DEF i
  <2>4. IsCut(c, b, i, m)
    <3> DEFINE j == Len(b)
    <3>1. j \in Nat /\ j = i + m /\ j <= Len(b)
      BY <2>1
    <3> HIDE DEF j, m
    <3>2. IsCut(Cut(b, i, j), b, i, m)
      BY <1>1, <1>2, <2>1, <3>1, CutBytes
    <3> QED
      BY <3>2 DEF j
  <2> HIDE DEF c
  <2>5. c = inner
    BY <1>1, <2>3, <2>4, SameBytes DEF IsCut
  <2> QED
    BY <2>2, <2>5
<1>4. ASSUME list # << >> PROVE BroadcastPacket_new(b) /\ addresses(b) = list
  <2>1. BroadcastPacket_new(b)
    BY <1>1, <1>2, <1>4 DEF BroadcastPacket_new
  <2>2. ASSUME NEW i \in 1 .. n PROVE addresses(b)[i] = list[i]
    <3> DEFINE x == 1 + 4 * (i - 1)
               y == 1 + 4 * i
               c == Cut(b, x, y)
    <3>1. x \in Nat /\ y \in Nat /\ y = x + 4 /\ y <= Len(b)
      BY <1>1, <1>2
    <3>2. addresses(b)[i] = c
      BY <1>2 DEF addresses
    <3>3. \A j \in 1 .. 4 : b[x + j] = list[i][j]
      BY DEF Holds
    <3>4. list[i] \in Seq(Octets) /\ Len(list[i]) = 4
      BY DEF Ipv4s
    <3> HIDE DEF x, y
    <3>5. IsCut(c, b, x, 4)
      BY <1>2, <3>1, CutBytes
    <3> HIDE DEF c
    <3>6. c = list[i]
      <4> DEFINE o == list[i]
      <4>1. /\ c \in Seq(Octets) /\ Len(c) = 4 /\ o \in Seq(Octets) /\ Len(o) = 4
            /\ \A k \in 1 .. 4 : c[k] = o[k]
        BY <3>3, <3>4, <3>5 DEF IsCut
      <4> HIDE DEF o
      <4>2. c = o
        BY <4>1, SameBytes
      <4> QED
        BY <4>2 DEF o
    <3> QED
      BY <3>2, <3>6
  <2>3. DOMAIN addresses(b) = 1 .. n /\ addresses(b) = [i \in 1 .. n |-> addresses(b)[i]]
    BY <1>2 DEF addresses
  <2>4. list = [i \in 1 .. n |-> list[i]]
    OBVIOUS
  <2>5. addresses(b) = list
    BY <2>2, <2>3, <2>4
  <2> QED
    BY <2>1, <2>5
<1> QED
  BY <1>3, <1>4

(* The broadcast packet that the server gets (tun_handler.rs broadcast)    *)
(* holds the peers to skip and the client's packet, and the room for the   *)
(* server's cipher, for every list of up to 255 peers and every packet.    *)
THEOREM ServerBroadcastHolds ==
    ASSUME NEW list \in Seq(Ipv4s), Len(list) <= 255, NEW inner \in Seq(Octets), inner # << >>
    PROVE  BroadcastCarries(list, inner)
<1> DEFINE n == Len(list)
           m == Len(inner)
           use == HEAD_LEN + 1 + 4 * n + m
           Z == Zeros(HEAD_LEN + 1 + 4 * n + m + ENCRYPTION_RESERVED)
           p0 == [b |-> Z, data_len |-> use]
           y == net_payload(p0)
           b == set_data(set_address(y, list), inner)
           P == [b |-> Put(Z, HEAD_LEN, b), data_len |-> use]
<1>1. n \in Nat /\ m \in Nat /\ m >= 1
  BY LenProperties, EmptySeq
<1>2. use \in Nat /\ use = 13 + 4 * n + m /\ Z \in Seq(Octets) /\ Len(Z) = use + 60
  <2>1. HEAD_LEN + 1 + 4 * n + m + ENCRYPTION_RESERVED \in Nat /\ use = 13 + 4 * n + m
    BY <1>1 DEF HEAD_LEN, ENCRYPTION_RESERVED
  <2>2. Z \in Seq(Octets) /\ Len(Z) = HEAD_LEN + 1 + 4 * n + m + ENCRYPTION_RESERVED
    <3> DEFINE N == HEAD_LEN + 1 + 4 * n + m + ENCRYPTION_RESERVED
    <3>1. N \in Nat
      BY <2>1
    <3> HIDE DEF N
    <3>2. Zeros(N) \in Seq(Octets) /\ Len(Zeros(N)) = N
      BY <3>1, ZeroBytes
    <3> QED
      BY <3>2 DEF N
  <2> HIDE DEF Z
  <2> QED
    BY <1>1, <2>1, <2>2 DEF HEAD_LEN, ENCRYPTION_RESERVED
<1>3. ServerBroadcast(list, inner) = set_payload(new_encrypt(Z), set_data(set_address(net_payload(new_encrypt(Z)), list), inner))
  BY DEF ServerBroadcast
<1> HIDE DEF Z, use
<1>4. new_encrypt(Z) = p0
  <2>1. ~ (HEAD_LEN + ENCRYPTION_RESERVED > Len(Z)) /\ Len(Z) - ENCRYPTION_RESERVED = use
    BY <1>1, <1>2 DEF HEAD_LEN, ENCRYPTION_RESERVED
  <2>2. ~ (use > Len(Z) \/ use < HEAD_LEN)
    BY <1>1, <1>2 DEF HEAD_LEN
  <2> QED
    BY <2>1, <2>2 DEF new_encrypt, new0
<1>5. y \in Seq(Octets) /\ Len(y) = 1 + 4 * n + m
  <2>1. y = Cut(Z, 12, use)
    BY DEF net_payload, HEAD_LEN
  <2> DEFINE w == 1 + 4 * n + m
  <2>2. 12 \in Nat /\ w \in Nat /\ use = 12 + w /\ use <= Len(Z)
    BY <1>1, <1>2
  <2> HIDE DEF y, w
  <2>3. IsCut(Cut(Z, 12, use), Z, 12, w)
    BY <1>2, <2>2, CutBytes
  <2> QED
    BY <2>1, <2>3 DEF IsCut, w
<1> HIDE DEF y
<1>6. Holds(b, list, inner)
  BY <1>5, BodyHolds
<1>7. b \in Seq(Octets) /\ Len(b) = 1 + 4 * n + m
  BY <1>6 DEF Holds
<1> HIDE DEF b
<1>8. ServerBroadcast(list, inner) = P
  <2>1. ~ (use - HEAD_LEN # Len(b))
    BY <1>1, <1>2, <1>7 DEF HEAD_LEN
  <2>2. set_payload(p0, b) = [p0 EXCEPT !.b = Put(@, HEAD_LEN, b)]
    BY <2>1 DEF set_payload
  <2> QED
    BY <1>3, <1>4, <2>2 DEF b, y
<1> DEFINE c == Put(Z, 12, b)
           body == net_payload(P)
<1>9. /\ c \in Seq(Octets) /\ Len(c) = Len(Z)
      /\ \A k \in 1 .. Len(b) : c[12 + k] = b[k]
  <2>1. 12 \in Nat /\ 12 + Len(b) <= Len(Z)
    BY <1>1, <1>2, <1>7
  <2> QED
    BY <1>2, <1>7, <2>1, PutBytes
<1>10. P.b = c /\ P.data_len = use
  BY DEF HEAD_LEN
<1> HIDE DEF P, c
<1>11. body = b
  <2>1. body = Cut(c, 12, use)
    BY <1>10 DEF net_payload, HEAD_LEN
  <2> DEFINE w == Len(b)
  <2>2. 12 \in Nat /\ w \in Nat /\ use = 12 + w /\ use <= Len(c)
    BY <1>1, <1>2, <1>7, <1>9
  <2> DEFINE d == Cut(c, 12, use)
  <2> HIDE DEF w
  <2>3. IsCut(d, c, 12, w)
    BY <1>2, <1>9, <2>2, CutBytes
  <2> HIDE DEF d, body
  <2>4. d = b
    <3>1. /\ d \in Seq(Octets) /\ Len(d) = w /\ b \in Seq(Octets) /\ Len(b) = w
          /\ \A k \in 1 .. w : d[k] = b[k]
      BY <1>7, <1>9, <2>3 DEF IsCut, w
    <3> QED
      BY <2>2, <3>1, SameBytes
  <2> QED
    BY <2>1, <2>4 DEF d
<1>12. P # Error /\ reserve(P) = ENCRYPTION_RESERVED
  <2>1. P.data_len # 0 /\ Len(P.b) - P.data_len = 60
    BY <1>1, <1>2, <1>9, <1>10
  <2> QED
    BY <2>1 DEF Error, reserve, ENCRYPTION_RESERVED
<1>13. /\ list # << >> => BroadcastPacket_new(b) /\ addresses(b) = list
       /\ broadcast_data(b) = inner
  BY <1>6, HeldFound
<1> QED
  BY <1>8, <1>11, <1>12, <1>13 DEF BroadcastCarries

-----------------------------------------------------------------------------
(* NatRules: what is known of a NAT, and what is tried at it.              *)

\* The values of a u16: ports, and the segments of an ipv6 address.
Segments == {x \in Nat : x <= 65535}

(* The ports guessed around a public port are ports, and no more of them   *)
(* are taken than there are, for every port and every range (punch.rs      *)
(* punch, the guesses for a symmetric NAT).                                *)
THEOREM GuessesRight ==
    ASSUME NEW port \in Segments, NEW range \in Nat
    PROVE  GuessesArePorts(port, range)
<1> DEFINE lo == IF port > range THEN port - range ELSE 1
           hi == IF port + range > 65535 THEN 65535 ELSE port + range
           size == (hi - lo) + 1
           k == IF size > 60 THEN 60 ELSE size
<1>1. port \in Nat /\ port <= 65535
  BY SMT DEF Segments
<1>2. lo \in Int /\ lo >= 1
  BY <1>1, SMT
<1>3. hi \in Int /\ hi <= 65535
  BY <1>1, SMT
<1>4. hi + 1 >= lo
  BY <1>1, SMT
<1>5. port # 0 => lo <= port /\ port <= hi
  BY <1>1, SMT
<1> HIDE DEF lo, hi
<1>6. size \in Int /\ 0 <= size /\ size < 65536
  BY <1>2, <1>3, <1>4, SMT
<1>7. Wrap16(size) = size
  <2> HIDE DEF size
  <2> QED
    BY <1>6, SMT DEF Wrap16
<1>8. PredictedPorts(port, range) = [min |-> lo, max |-> hi, k |-> k]
  <2>1. Wrap16((hi - lo) + 1) = size
    BY <1>7, SMT
  <2> QED
    BY <2>1, SMT DEF PredictedPorts, MAX_K1, lo, hi
<1>9. Cardinality(lo .. hi) = IF lo > hi THEN 0 ELSE hi - lo + 1
  BY <1>2, <1>3, FS_Interval, SMT
<1>10. Cardinality(lo .. hi) = size
  BY <1>2, <1>3, <1>4, <1>9, SMT
<1>11. k <= size /\ (size > 0 => k > 0)
  <2> HIDE DEF size
  <2> QED
    BY <1>6, SMT
<1>12. port # 0 => port \in lo .. hi /\ k > 0
  BY <1>1, <1>2, <1>3, <1>5, <1>11, SMT
<1> HIDE DEF k, size
<1>13. /\ lo >= 1 /\ hi <= 65535 /\ k <= Cardinality(lo .. hi)
       /\ port # 0 => port \in lo .. hi /\ k > 0
  BY <1>2, <1>3, <1>10, <1>11, <1>12, SMT
<1> QED
  BY <1>8, <1>13, SMT DEF GuessesArePorts

-----------------------------------------------------------------------------
LEMMA ModSmall ==
    ASSUME NEW c \in Nat \ {0}, NEW x \in 0 .. c
    PROVE  x % c = IF x = c THEN 0 ELSE x
OBVIOUS

LEMMA ModRange ==
    ASSUME NEW c \in Nat \ {0}, NEW x \in Nat
    PROVE  x % c \in 0 .. c - 1
OBVIOUS

(* Each of the channels is asked for its public port within one round of   *)
(* requests, wherever the shared counter stands (addr_request.rs).         *)
THEOREM ChannelsInTurn ==
    ASSUME NEW info, NEW c \in Nat \ {0}, NEW count \in Nat
    PROVE  ChannelsAsked(info, c, count)
<1> DEFINE T(i) == IF 0 \in ToSet(info.public_ports) \/ info.public_ips = << >> THEN 3
                   ELSE IF info.nat_type = "Symmetric" THEN 600
                   ELSE IF i = c - 1 THEN 19 ELSE 9
           P(k) == pub_address_request(info, c, k)
           i0 == count % c
           I(n) == IF i0 + n < c THEN i0 + n ELSE i0 + n - c
           h == [n \in 0 .. c |-> [index |-> I(n), next |-> I(n) + 1, time |-> T(I(n))]]
           ask == CHOOSE f : f = [n \in 0 .. c |-> IF n = 0 THEN P(count) ELSE P(f[n - 1].next)]
<1>1. \A k : P(k) = [index |-> k % c, next |-> (k % c) + 1, time |-> T(k % c)]
  BY DEF pub_address_request
<1>2. i0 \in 0 .. c - 1
  BY ModRange
<1> HIDE DEF P, T, i0
<1>3. \A n \in 0 .. c : I(n) \in 0 .. c - 1
  BY <1>2
<1>4. \A n \in 1 .. c : (I(n - 1) + 1) % c = I(n)
  <2> SUFFICES ASSUME NEW n \in 1 .. c PROVE (I(n - 1) + 1) % c = I(n)
    OBVIOUS
  <2> DEFINE x == I(n - 1) + 1
  <2>1. x \in 0 .. c /\ I(n) = (IF x = c THEN 0 ELSE x)
    BY <1>2
  <2> HIDE DEF x, I
  <2>2. x % c = I(n)
    BY <2>1, ModSmall
  <2> QED
    BY <2>2 DEF x
<1>5. I(0) = i0
  BY <1>2
<1>6. h = [n \in 0 .. c |-> IF n = 0 THEN P(count) ELSE P(h[n - 1].next)]
  <2>1. ASSUME NEW n \in 0 .. c PROVE h[n] = IF n = 0 THEN P(count) ELSE P(h[n - 1].next)
    <3>1. CASE n = 0
      <4>1. count % c = i0 /\ I(0) = i0
        BY <1>5 DEF i0
      <4> HIDE DEF I
      <4> QED
        BY <1>1, <3>1, <4>1
    <3>2. CASE n # 0
      <4>1. n \in 1 .. c /\ n - 1 \in 0 .. c
        BY <3>2
      <4> HIDE DEF I
      <4>2. h[n - 1].next = I(n - 1) + 1
        BY <4>1
      <4>3. P(I(n - 1) + 1) = [index |-> I(n), next |-> I(n) + 1, time |-> T(I(n))]
        BY <1>1, <1>4, <4>1
      <4> QED
        BY <3>2, <4>2, <4>3
    <3> QED
      BY <3>1, <3>2
  <2>2. DOMAIN h = 0 .. c /\ h = [n \in DOMAIN h |-> h[n]]
    OBVIOUS
  <2> HIDE DEF h
  <2> QED
    BY <2>1, <2>2
<1>7. ask = [n \in 0 .. c |-> IF n = 0 THEN P(count) ELSE P(ask[n - 1].next)]
  <2> HIDE DEF h
  <2> QED
    BY <1>6
<1>8. ChannelsAsked(info, c, count) <=> {ask[n].index : n \in 0 .. c - 1} = 0 .. c - 1
  BY DEF ChannelsAsked, P
<1> HIDE DEF ask, h
<1> DEFINE N == {n \in Nat : n \in 0 .. c => ask[n].index = I(n) /\ ask[n].next = I(n) + 1}
<1>9. 0 \in N
  <2>1. 0 \in 0 .. c /\ ask[0] = P(count)
    BY <1>7
  <2>2. count % c = I(0)
    BY <1>5 DEF i0
  <2> HIDE DEF I
  <2> QED
    BY <1>1, <2>1, <2>2
<1>10. ASSUME NEW n \in N PROVE n + 1 \in N
  <2> SUFFICES ASSUME n + 1 \in 0 .. c PROVE ask[n + 1].index = I(n + 1) /\ ask[n + 1].next = I(n + 1) + 1
    OBVIOUS
  <2>1. n \in Nat /\ n \in 0 .. c /\ n + 1 \in 1 .. c /\ (n + 1) - 1 = n /\ n + 1 # 0
    OBVIOUS
  <2> HIDE DEF I
  <2>2. ask[n].next = I(n) + 1
    BY <2>1
  <2>3. ask[n + 1] = P(I(n) + 1)
    BY <1>7, <2>1, <2>2
  <2>4. (I(n) + 1) % c = I(n + 1)
    BY <1>4, <2>1
  <2> QED
    BY <1>1, <2>3, <2>4
<1>11. N = Nat
  <2> HIDE DEF N
  <2>1. N \in SUBSET Nat
    BY DEF N
  <2> QED
    BY <1>9, <1>10, <2>1, SetInduction
<1>12. \A n \in 0 .. c - 1 : ask[n].index = I(n) /\ I(n) \in 0 .. c - 1
  <2> HIDE DEF I
  <2> SUFFICES ASSUME NEW n \in 0 .. c - 1 PROVE ask[n].index = I(n) /\ I(n) \in 0 .. c - 1
    OBVIOUS
  <2>1. n \in Nat /\ n \in 0 .. c
    OBVIOUS
  <2>2. n \in N
    BY <1>11, <2>1
  <2> QED
    BY <1>3, <2>1, <2>2
<1>13. \A j \in 0 .. c - 1 : \E n \in 0 .. c - 1 : I(n) = j
  <2> SUFFICES ASSUME NEW j \in 0 .. c - 1 PROVE \E n \in 0 .. c - 1 : I(n) = j
    OBVIOUS
  <2> DEFINE n == IF j >= i0 THEN j - i0 ELSE j - i0 + c
  <2>1. n \in 0 .. c - 1 /\ I(n) = j
    BY <1>2
  <2> HIDE DEF n, I
  <2> QED
    BY <2>1
<1> HIDE DEF I, N
<1>14. {ask[n].index : n \in 0 .. c - 1} = 0 .. c - 1
  BY <1>12, <1>13
<1> QED
  BY <1>8, <1>14

-----------------------------------------------------------------------------
LEMMA MaxOf ==
    ASSUME NEW S \in SUBSET Nat, S # {}, NEW b \in Nat, \A x \in S : x <= b
    PROVE  Max(S) \in S /\ \A y \in S : Max(S) >= y
<1> DEFINE T == {b - x : x \in S}
<1>1. T \in SUBSET Nat /\ T # {}
  <2>1. \A x \in S : b - x \in Nat
    OBVIOUS
  <2> QED
    BY <2>1
<1>2. PICK z \in T : \A y \in T : z <= y
  BY <1>1, LeastNat
<1>3. PICK x \in S : z = b - x
  OBVIOUS
<1>4. \A y \in S : x >= y
  BY <1>2, <1>3
<1> QED
  BY <1>4 DEF Max

LEMMA MinOf ==
    ASSUME NEW S \in SUBSET Nat, S # {}
    PROVE  Min(S) \in S /\ \A y \in S : Min(S) <= y
BY LeastNat DEF Min

(* Ipv6 addresses are eight segments. *)
Ipv6s == {s \in Seq(Segments) : Len(s) = 8}

(* What stun servers answer: two probes, each with a mapping or without. *)
PortNumbers == {p \in Nat : 1 <= p /\ p <= 65535}
Mappings == (Ipv4s \cup Ipv6s) \X PortNumbers
StunAnswer == [first : Mappings \cup {NO_ADDR}, second : Mappings \cup {NO_ADDR}]
Rounds == Seq(Seq(StunAnswer))

(* What a round of answers shows: how many mappings, and ports how far apart. *)
Showed(answers, r) ==
    /\ FirstProbes4(answers) \subseteq Mappings
    /\ Cardinality(FirstProbes4(answers)) \in Nat /\ Cardinality(FirstProbes(answers)) \in Nat
    /\ r.nat_type = "Cone" => Cardinality(FirstProbes4(answers)) <= 1
    /\ r.nat_type # "Cone" => r.nat_type = "Symmetric" /\ Cardinality(FirstProbes(answers)) > 1
    /\ r.range \in Nat /\ r.range <= 65535
    /\ \A a, b \in FirstProbes4(answers) : b[2] <= a[2] + r.range

(* What a round takes over: every ipv4 mapping of a first probe, and nothing *)
(* that is not the mapping of a first probe.                                 *)
LEMMA TakenOver ==
    ASSUME NEW answers,
           NEW pub_addrs, pub_addrs = UNION {test_nat(answers[i]) : i \in DOMAIN answers}
    PROVE  /\ pub_addrs \subseteq FirstProbes(answers)
           /\ {a \in pub_addrs : is_ipv4(a)} = FirstProbes4(answers)
<1>1. ASSUME NEW a \in pub_addrs PROVE a \in FirstProbes(answers)
  <2>1. PICK i \in DOMAIN answers : a \in test_nat(answers[i])
    OBVIOUS
  <2>2. a = answers[i].first /\ a # NO_ADDR
    BY <2>1 DEF test_nat
  <2> QED
    BY <2>2 DEF FirstProbes
<1>2. ASSUME NEW a \in FirstProbes4(answers) PROVE a \in pub_addrs /\ is_ipv4(a)
  <2>1. PICK i \in DOMAIN answers : a = answers[i].first
    BY DEF FirstProbes4, FirstProbes
  <2>2. a # NO_ADDR /\ is_ipv4(a)
    BY DEF FirstProbes4, FirstProbes
  <2>3. a \in test_nat(answers[i])
    BY <2>1, <2>2 DEF test_nat
  <2> QED
    BY <2>2, <2>3
<1>3. {a \in pub_addrs : is_ipv4(a)} \subseteq FirstProbes4(answers)
  BY <1>1 DEF FirstProbes4
<1> QED
  BY <1>1, <1>2, <1>3

LEMMA RoundMapped ==
    ASSUME NEW answers \in Seq(StunAnswer)
    PROVE  Showed(answers, stun_test_nat0(answers))
<1> DEFINE pub_addrs == UNION {test_nat(answers[i]) : i \in DOMAIN answers}
           v4 == FirstProbes4(answers)
           all == FirstProbes(answers)
           r == stun_test_nat0(answers)
           range == IF v4 = {} THEN 0 ELSE Max(Ports(v4)) - Min(Ports(v4))
<1>1. all \in SUBSET Mappings /\ v4 \in SUBSET Mappings /\ v4 \subseteq all
  <2>1. \A i \in DOMAIN answers : answers[i] \in StunAnswer
    OBVIOUS
  <2>2. \A i \in DOMAIN answers : answers[i].first \in Mappings \cup {NO_ADDR}
    BY <2>1 DEF StunAnswer
  <2> QED
    BY <2>2 DEF FirstProbes, FirstProbes4
<1>2. pub_addrs \subseteq all /\ {a \in pub_addrs : is_ipv4(a)} = v4 /\ v4 \subseteq pub_addrs
  <2> HIDE DEF pub_addrs, v4, all
  <2>1. pub_addrs \subseteq all /\ {a \in pub_addrs : is_ipv4(a)} = v4
    BY TakenOver DEF pub_addrs, v4, all
  <2> QED
    BY <2>1
<1>3. /\ IsFiniteSet(all)
      /\ Cardinality(v4) \in Nat /\ Cardinality(pub_addrs) \in Nat /\ Cardinality(all) \in Nat
      /\ Cardinality(v4) <= Cardinality(pub_addrs) /\ Cardinality(pub_addrs) <= Cardinality(all)
  <2>1. Len(answers) \in Nat /\ DOMAIN answers = 1 .. Len(answers)
    OBVIOUS
  <2>2. IsFiniteSet(DOMAIN answers)
    BY <2>1, FS_Interval
  <2> DEFINE f == [i \in DOMAIN answers |-> answers[i].first]
             image == {answers[i].first : i \in DOMAIN answers}
  <2>3. IsFiniteSet(image)
    <3>1. f \in Surjection(DOMAIN answers, image)
      BY DEF Surjection
    <3> HIDE DEF f, image
    <3> QED
      BY <2>2, <3>1, FS_Surjection
  <2>4. IsFiniteSet(all)
    <3>1. all \subseteq image
      BY DEF FirstProbes
    <3> HIDE DEF all, image
    <3> QED
      BY <2>3, <3>1, FS_Subset
  <2> HIDE DEF all, v4, pub_addrs
  <2>5. IsFiniteSet(pub_addrs) /\ Cardinality(pub_addrs) <= Cardinality(all)
    BY <1>2, <2>4, FS_Subset
  <2>6. IsFiniteSet(v4) /\ Cardinality(v4) <= Cardinality(pub_addrs)
    BY <1>2, <2>5, FS_Subset
  <2> QED
    BY <2>4, <2>5, <2>6, FS_CardinalityType
<1>4. r.nat_type = (IF Cardinality(pub_addrs) > 1 THEN "Symmetric" ELSE "Cone") /\ r.range = range
  <2> DEFINE w == {a \in pub_addrs : is_ipv4(a)}
  <2>1. r.nat_type = (IF Cardinality(pub_addrs) > 1 THEN "Symmetric" ELSE "Cone")
        /\ r.range = (IF w = {} THEN 0 ELSE Max(Ports(w)) - Min(Ports(w)))
    BY DEF stun_test_nat0
  <2>2. w = v4
    BY <1>2
  <2> HIDE DEF w, v4, pub_addrs, r
  <2> QED
    BY <2>1, <2>2
<1> HIDE DEF pub_addrs, v4, all, r
<1>5. range \in Nat /\ range <= 65535 /\ \A a, b \in v4 : b[2] <= a[2] + range
  <2>1. CASE v4 = {}
    BY <2>1, SMT
  <2>2. CASE v4 # {}
    <3> DEFINE S == Ports(v4)
               hi == Max(S)
               lo == Min(S)
    <3>1. S \in SUBSET Nat /\ S # {} /\ \A x \in S : 1 <= x /\ x <= 65535
      BY <1>1, <2>2, SMT DEF Mappings, Ports, PortNumbers
    <3>2. \A a \in v4 : a[2] \in S
      BY SMT DEF Ports
    <3> HIDE DEF S
    <3>3. hi \in S /\ \A y \in S : hi >= y
      <4> DEFINE top == 65535
      <4>1. top \in Nat /\ S \in SUBSET Nat /\ S # {} /\ \A x \in S : x <= top
        BY <3>1, SMT
      <4> HIDE DEF top
      <4> QED
        BY <4>1, MaxOf
    <3>4. lo \in S /\ \A y \in S : lo <= y
      BY <3>1, MinOf
    <3>5. range = hi - lo
      BY <2>2 DEF S
    <3> HIDE DEF hi, lo, range
    <3>6. range \in Nat /\ range <= 65535
      BY <3>1, <3>3, <3>4, <3>5, SMT
    <3>7. ASSUME NEW a \in v4, NEW b \in v4 PROVE b[2] <= a[2] + range
      <4>1. a[2] \in S /\ b[2] \in S
        BY <3>2
      <4>2. a[2] \in Nat /\ b[2] \in Nat /\ lo \in Nat /\ hi \in Nat
        <5>1. \A x \in S : x \in Nat
          BY <3>1
        <5>2. lo \in S /\ hi \in S
          BY <3>3, <3>4
        <5> QED
          BY <4>1, <5>1, <5>2
      <4>3. b[2] <= hi /\ lo <= a[2]
        BY <3>3, <3>4, <4>1
      <4> QED
        BY <3>5, <4>2, <4>3, SMT
    <3> QED
      BY <3>6, <3>7
  <2> QED
    BY <2>1, <2>2
<1> HIDE DEF range
<1>6. (r.nat_type = "Cone" => Cardinality(v4) <= 1)
      /\ (r.nat_type # "Cone" => r.nat_type = "Symmetric" /\ Cardinality(all) > 1)
  BY <1>3, <1>4
<1> QED
  BY <1>1, <1>3, <1>4, <1>5, <1>6 DEF v4, all, r, Showed

(* What stun_test_nat says of the NAT for any number of rounds and answers, *)
(* whatever the second probes show: a cone only if the first probes of no   *)
(* round differ in their ipv4 mappings, symmetric only if those of some     *)
(* round differ, and the guesses of Punch::punch around any port of a round *)
(* contain the other ports of that round.                                   *)
THEOREM StunRight ==
    ASSUME NEW rounds \in Rounds, rounds # << >>
    PROVE  StunFindsNat(rounds)
<1> DEFINE A == Seq(StunAnswer)
           D == DOMAIN rounds
           r == [i \in D |-> stun_test_nat0(rounds[i])]
           M(i) == FirstProbes4(rounds[i])
           F(i) == FirstProbes(rounds[i])
           t == stun_test_nat(rounds)
           R == {r[i].range : i \in D}
<1>1. D = 1 .. Len(rounds) /\ D # {} /\ \A i \in D : rounds[i] \in A
  <2> HIDE DEF A
  <2>1. rounds \in Seq(A)
    BY DEF Rounds, A
  <2>2. Len(rounds) \in Nat \ {0}
    BY <2>1, EmptySeq
  <2>3. D = 1 .. Len(rounds) /\ \A i \in D : rounds[i] \in A
    BY <2>1
  <2>4. 1 \in 1 .. Len(rounds)
    BY <2>2
  <2> HIDE DEF D
  <2> QED
    BY <2>3, <2>4
<1>2. ASSUME NEW i \in D
      PROVE  Showed(rounds[i], r[i])
  <2> DEFINE answers == rounds[i]
  <2>1. answers \in A /\ r[i] = stun_test_nat0(answers)
    BY <1>1
  <2> HIDE DEF answers, r
  <2>2. Showed(answers, stun_test_nat0(answers))
    BY <2>1, RoundMapped
  <2> QED
    BY <2>1, <2>2 DEF answers
<1>3. /\ t.nat_type = (IF \E i \in D : r[i].nat_type = "Symmetric" THEN "Symmetric" ELSE "Cone")
      /\ t.range = Max(R)
  BY DEF stun_test_nat
<1>4. ASSUME NEW i \in D
      PROVE  /\ M(i) \subseteq Mappings
             /\ Cardinality(M(i)) \in Nat /\ Cardinality(F(i)) \in Nat
             /\ r[i].nat_type = "Cone" => Cardinality(M(i)) <= 1
             /\ r[i].nat_type # "Cone" => r[i].nat_type = "Symmetric" /\ Cardinality(F(i)) > 1
             /\ r[i].range \in Nat /\ r[i].range <= 65535
             /\ \A a, b \in M(i) : b[2] <= a[2] + r[i].range
  <2> HIDE DEF r
  <2> QED
    BY <1>2 DEF Showed
<1> HIDE DEF r, M, F, t, D
<1>7. /\ t.nat_type = "Cone" => \A i \in D : Cardinality(M(i)) <= 1
      /\ t.nat_type # "Cone" => \E i \in D : Cardinality(F(i)) > 1
  BY <1>3, <1>4
<1>5. Max(R) \in R /\ \A y \in R : Max(R) >= y
  <2>1. R \in SUBSET Nat /\ R # {}
    BY <1>1, <1>4, SMT
  <2> DEFINE top == 65535
  <2>2. top \in Nat /\ \A x \in R : x <= top
    BY <1>4, SMT
  <2> HIDE DEF top, R
  <2> QED
    BY <2>1, <2>2, MaxOf
<1>6. ASSUME NEW i \in D, NEW a \in M(i), NEW b \in M(i)
      PROVE  b[2] \in PredictedPorts(a[2], t.range).min .. PredictedPorts(a[2], t.range).max
  <2> DEFINE p == a[2]
             q == b[2]
             range == t.range
  <2>1. p \in Nat /\ 1 <= p /\ p <= 65535 /\ q \in Nat /\ 1 <= q /\ q <= 65535
    <3>1. a \in (Ipv4s \cup Ipv6s) \X PortNumbers /\ b \in (Ipv4s \cup Ipv6s) \X PortNumbers
      BY <1>4 DEF Mappings
    <3>2. a[2] \in PortNumbers /\ b[2] \in PortNumbers
      BY <3>1
    <3> QED
      BY <3>2, SMT DEF PortNumbers
  <2>2. range \in Nat /\ r[i].range \in Nat /\ r[i].range <= range
    <3>1. r[i].range \in R /\ \A x \in R : x \in Nat
      BY <1>4, SMT
    <3> HIDE DEF R
    <3>2. Max(R) \in Nat /\ Max(R) >= r[i].range
      BY <1>5, <3>1
    <3>3. r[i].range \in Nat
      BY <1>4, SMT
    <3> QED
      BY <1>3, <3>2, <3>3
  <2>3. q <= p + r[i].range /\ p <= q + r[i].range
    BY <1>4, SMT
  <2> DEFINE e == r[i].range
             lo == IF p > range THEN p - range ELSE 1
             hi == IF p + range > 65535 THEN 65535 ELSE p + range
  <2>4. PredictedPorts(p, range).min = lo /\ PredictedPorts(p, range).max = hi
    BY DEF PredictedPorts
  <2>5. e \in Nat /\ e <= range /\ q <= p + e /\ p <= q + e
    BY <2>2, <2>3
  <2> HIDE DEF p, q, range, e
  <2>6. lo \in Int /\ hi \in Int /\ lo <= q /\ q <= hi
    BY <2>1, <2>2, <2>5, SMT
  <2> HIDE DEF lo, hi
  <2>7. q \in lo .. hi
    BY <2>1, <2>6
  <2> QED
    BY <2>4, <2>7 DEF p, q, range
<1> QED
  BY <1>6, <1>7 DEF StunFindsNat, t, M, F, D

-----------------------------------------------------------------------------
Splits(x, k, q, s) ==
    k \in Nat \ {0} /\ q \in Nat /\ s \in Nat /\ s < k /\ x \in Nat /\ x = k * q + s
Divides(x, k, q, s) == x \div k = q /\ x % k = s

LEMMA DivModUnique ==
    ASSUME NEW x, NEW k, NEW q, NEW s, Splits(x, k, q, s)
    PROVE  Divides(x, k, q, s)
<1>0. k \in Nat \ {0} /\ q \in Nat /\ s \in Nat /\ s < k /\ x \in Nat /\ x = k * q + s
  BY DEF Splits
<1> DEFINE d == x \div k
           kq == k * q
           kd == k * d
<1>1. d \in Int /\ kd <= x /\ x < k * (d + 1) /\ kq \in Nat /\ x = kq + s
  BY <1>0, DivBounds
<1>2. q <= d
  BY <1>0, <1>1, DivGreatest
<1>3. d <= q
  <2> SUFFICES ASSUME q + 1 <= d PROVE FALSE
    BY <1>0, <1>1
  <2>1. k * (q + 1) <= kd
    BY <1>0, <1>1, MulMono
  <2>2. k * (q + 1) = kq + k
    BY <1>0
  <2>3. kd \in Int /\ kd <= x /\ x = kq + s /\ kq \in Nat
    BY <1>0, <1>1
  <2>4. kq + k <= kd
    BY <2>1, <2>2
  <2> HIDE DEF kq, kd, d
  <2> QED
    BY <1>0, <2>3, <2>4
<1>4. d = q
  BY <1>0, <1>1, <1>2, <1>3
<1>5. x % k = x - kd
  BY <1>0
<1> HIDE DEF d
<1>6. kd = kq
  BY <1>4
<1> HIDE DEF kd, kq
<1> QED
  BY <1>0, <1>1, <1>4, <1>5, <1>6 DEF d, Divides

(* What a call of punch_symmetric has sent, when done ports are done. *)
Probed(r, ports, ips) ==
    /\ r.done \in 0 .. Len(ports) /\ (Len(ports) > 0 => r.done >= 1)
    /\ r.sent \in SUBSET (ToSet(ports) \X ToSet(ips))
    /\ \A p \in 1 .. r.done : \A j \in 1 .. Len(ips) : <<ports[p], ips[j]>> \in r.sent

LEMMA ProbesSent ==
    ASSUME NEW X, NEW Y, NEW ports \in Seq(X), NEW ips \in Seq(Y), NEW max \in Nat, Len(ips) < max
    PROVE  Probed(punch_symmetric(ports, ips, max), ports, ips)
<1> DEFINE k == Len(ips)
           P == Len(ports)
           N == P * k
           D(i) == (i - 1) \div k
           E(i) == ((i - 1) % k) + 1
           probes == [i \in 1 .. N |-> <<D(i), ips[E(i)]>>]
           n == IF Len(probes) < max THEN Len(probes) ELSE max - 1
           done == IF Len(probes) < max THEN P ELSE probes[max][1]
           sent == {<<ports[probes[i][1] + 1], probes[i][2]>> : i \in 1 .. n}
           r == punch_symmetric(ports, ips, max)
<1>1. k \in Nat /\ P \in Nat /\ k < max /\ max \in Nat /\ N \in Nat
  BY LenProperties
<1>2. r.done = done /\ r.sent = sent
  BY DEF punch_symmetric
<1>3. Len(probes) = N
  <2> HIDE DEF D, E, N
  <2> QED
    BY <1>1
<1>4. ASSUME NEW i \in 1 .. N
      PROVE  /\ k >= 1 /\ D(i) \in 0 .. P - 1 /\ E(i) \in 1 .. k
             /\ probes[i][1] = D(i) /\ probes[i][2] = ips[E(i)]
  <2>1. k >= 1
    BY <1>1
  <2> DEFINE x == i - 1
             q == x \div k
  <2>2. x \in Nat /\ x < N
    BY <1>1
  <2> HIDE DEF N, x
  <2>3. q \in Nat /\ k * q <= x /\ x % k \in 0 .. k - 1
    <3>1. q \in Int /\ k * q <= x
      BY <1>1, <2>1, <2>2, DivBounds
    <3>2. 0 <= q
      <4>1. k * 0 <= x
        BY <1>1, <2>2
      <4> QED
        BY <1>1, <2>1, <2>2, <4>1, DivGreatest
    <3>3. x % k \in 0 .. k - 1
      <4>1. k \in Nat \ {0}
        BY <1>1, <2>1
      <4> HIDE DEF k
      <4> QED
        BY <2>2, <4>1, ModRange
    <3> HIDE DEF q
    <3> QED
      BY <3>1, <3>2, <3>3
  <2> HIDE DEF q
  <2>4. q < P
    <3> SUFFICES ASSUME P <= q PROVE FALSE
      BY <1>1, <2>3
    <3>1. k * P <= k * q
      BY <1>1, <2>3, MulMono, SMTT(60)
    <3>2. k * P = N
      BY <1>1 DEF N
    <3>3. k * q \in Int /\ N \in Int
      BY <1>1, <2>3
    <3> QED
      BY <2>2, <2>3, <3>1, <3>2, <3>3
  <2>5. D(i) = q /\ E(i) = (x % k) + 1
    BY DEF x, q
  <2>6. D(i) \in 0 .. P - 1 /\ E(i) \in 1 .. k
    <3> HIDE DEF D, E
    <3> QED
      BY <1>1, <2>3, <2>4, <2>5
  <2>7. probes[i][1] = D(i) /\ probes[i][2] = ips[E(i)]
    <3> HIDE DEF D, E
    <3> QED
      OBVIOUS
  <2> QED
    BY <2>1, <2>6, <2>7
<1>5. /\ n \in Nat /\ n <= N /\ done \in 0 .. P /\ (P > 0 => done >= 1)
      /\ k * done <= n
  <2>1. CASE N < max
    <3>1. n = N /\ done = P
      BY <1>3, <2>1
    <3>2. k * P = N
      BY <1>1
    <3> HIDE DEF n, done, N
    <3> QED
      BY <1>1, <3>1, <3>2
  <2>2. CASE ~ (N < max)
    <3>1. n = max - 1 /\ done = probes[max][1] /\ max \in 1 .. N
      BY <1>1, <1>3, <2>2
    <3>2. done = D(max) /\ k >= 1 /\ done \in 0 .. P - 1
      BY <1>4, <3>1
    <3> DEFINE x == max - 1
    <3>3. x \in Nat /\ k * 1 <= x /\ D(max) = x \div k
      BY <1>1
    <3> HIDE DEF x, D
    <3>4. 1 <= x \div k /\ k * (x \div k) <= x
      <4>1. k \in Nat \ {0} /\ x \in Int /\ 1 \in Int
        BY <1>1, <3>2, <3>3
      <4> HIDE DEF k
      <4>2. 1 <= x \div k
        BY <3>3, <4>1, DivGreatest
      <4>3. k * (x \div k) <= x
        BY <4>1, DivBounds
      <4> QED
        BY <4>2, <4>3
    <3>5. done >= 1 /\ k * done <= x
      BY <3>2, <3>3, <3>4
    <3>6. n = x /\ x \in Nat /\ x <= N
      BY <1>1, <3>1 DEF x
    <3> HIDE DEF n, done, N
    <3> QED
      BY <1>1, <3>2, <3>5, <3>6
  <2> QED
    BY <2>1, <2>2
<1> HIDE DEF n, done
<1>6. sent \in SUBSET (ToSet(ports) \X ToSet(ips))
  <2> SUFFICES ASSUME NEW i \in 1 .. n PROVE <<ports[probes[i][1] + 1], probes[i][2]>> \in ToSet(ports) \X ToSet(ips)
    OBVIOUS
  <2>1. i \in 1 .. N
    <3> HIDE DEF N
    <3> QED
      BY <1>1, <1>5
  <2>2. D(i) \in 0 .. P - 1 /\ E(i) \in 1 .. k /\ probes[i][1] = D(i) /\ probes[i][2] = ips[E(i)]
    BY <1>4, <2>1
  <2> HIDE DEF D, E, probes
  <2>3. D(i) + 1 \in 1 .. P
    BY <1>1, <2>2
  <2>4. ports[D(i) + 1] \in ToSet(ports) /\ ips[E(i)] \in ToSet(ips)
    BY <2>2, <2>3 DEF ToSet
  <2> QED
    BY <2>2, <2>4
<1>7. ASSUME NEW p \in 1 .. done, NEW j \in 1 .. k PROVE <<ports[p], ips[j]>> \in sent
  <2> DEFINE q == p - 1
             s == j - 1
             kq == k * q
             i == kq + j
             kp == k * p
             kd == k * done
  <2>1. q \in Nat /\ s \in Nat /\ s < k /\ k \in Nat \ {0} /\ p \in Int /\ p <= done /\ done \in Int
    BY <1>1, <1>5
  <2>2. kq \in Nat /\ kp \in Int /\ kd \in Int /\ kp = kq + k /\ kp <= kd
    <3>1. kp = kq + k
      BY <1>1
    <3>2. kp <= kd
      BY <2>1, MulMono
    <3> QED
      BY <1>1, <2>1, <3>1, <3>2
  <2>3. kd <= n
    BY <1>5
  <2> HIDE DEF kp, kd, kq
  <2>4. i \in Nat /\ 1 <= i /\ i <= n
    BY <1>1, <1>5, <2>1, <2>2, <2>3
  <2> DEFINE x == i - 1
  <2>5. x \in Nat /\ x = kq + s
    BY <2>1, <2>2, <2>4
  <2> HIDE DEF i
  <2>6. i \in 1 .. n /\ i \in 1 .. N
    <3> HIDE DEF N
    <3> QED
      BY <1>1, <1>5, <2>4
  <2> HIDE DEF x
  <2>7. x \div k = q /\ x % k = s
    <3>1. x = k * q + s
      BY <2>5 DEF kq
    <3>2. Splits(x, k, q, s)
      BY <2>1, <2>5, <3>1 DEF Splits
    <3> HIDE DEF q, s, k
    <3>3. Divides(x, k, q, s)
      BY <3>2, DivModUnique
    <3> QED
      BY <3>3 DEF Divides
  <2>8. D(i) = q /\ E(i) = s + 1
    BY <2>7 DEF x
  <2>9. probes[i][1] = D(i) /\ probes[i][2] = ips[E(i)]
    BY <1>4, <2>6
  <2> HIDE DEF D, E, probes
  <2>10. q + 1 = p /\ s + 1 = j
    OBVIOUS
  <2> HIDE DEF q, s
  <2>11. ports[probes[i][1] + 1] = ports[p] /\ probes[i][2] = ips[j]
    BY <2>8, <2>9, <2>10
  <2> QED
    BY <2>6, <2>11
<1> HIDE DEF r, sent, k
<1> QED
  BY <1>1, <1>2, <1>5, <1>6, <1>7 DEF Probed, k, r

(* What one call of punch adds to the sweep: it goes on from start to e. *)
Swept(s, e, all, start, ips) ==
    /\ e \in start .. Len(all) /\ (start < Len(all) => e > start)
    /\ s.index = (IF e >= Len(all) THEN 0 ELSE e)
    /\ s.sent \in SUBSET (ToSet(all) \X ToSet(ips))
    /\ \A p \in start + 1 .. e : \A j \in 1 .. Len(ips) : <<all[p], ips[j]>> \in s.sent

LEMMA SweepStep ==
    ASSUME NEW X, NEW Y, NEW all \in Seq(X), NEW ips \in Seq(Y), NEW max \in Nat, Len(ips) < max,
           NEW start \in 0 .. Len(all)
    PROVE  \E e : Swept(Sweep(all, start, ips, max), e, all, start, ips)
<1> DEFINE L == Len(all)
           end == IF start + max > L THEN L ELSE start + max
           ports == SubSeq(all, start + 1, end)
           r == punch_symmetric(ports, ips, max)
           s == Sweep(all, start, ips, max)
           e == start + r.done
<1>1. L \in Nat /\ start \in Nat /\ start <= L /\ max \in Nat /\ max >= 1 /\ DOMAIN all = 1 .. L
  BY LenProperties
<1>2. end \in Nat /\ start <= end /\ end <= L /\ (start < L => end > start)
  BY <1>1
<1>3. s.index = (IF e >= L THEN 0 ELSE e) /\ s.sent = r.sent
  BY DEF Sweep
<1> HIDE DEF end, L
<1>4. /\ ports \in Seq(X) /\ Len(ports) = end - start
      /\ \A i \in 1 .. end - start : ports[i] = all[start + i]
  <2>1. start + 1 \in Int /\ end \in Int /\ \A i \in (start + 1) .. end : all[i] \in X
    BY <1>1, <1>2 DEF L
  <2>2. ports \in Seq(X) /\ Len(ports) = IF start + 1 <= end THEN end - (start + 1) + 1 ELSE 0
    BY <2>1, SubSeqProperties
  <2>3. \A i \in 1 .. end - (start + 1) + 1 : ports[i] = all[start + 1 + i - 1]
    BY <2>1, SubSeqProperties
  <2> HIDE DEF ports
  <2>4. ASSUME NEW i \in 1 .. end - start PROVE ports[i] = all[start + i]
    <3>1. i \in 1 .. end - (start + 1) + 1 /\ start + 1 + i - 1 = start + i
      BY <1>1, <1>2
    <3> QED
      BY <2>3, <3>1
  <2>5. Len(ports) = end - start
    BY <1>1, <1>2, <2>2
  <2> QED
    BY <2>2, <2>4, <2>5
<1> HIDE DEF ports
<1>5. Probed(r, ports, ips)
  BY <1>4, ProbesSent
<1> HIDE DEF r, s
<1>6. r.done \in Nat /\ r.done <= end - start /\ (end > start => r.done >= 1)
  BY <1>1, <1>2, <1>4, <1>5 DEF Probed
<1>7. e \in start .. L /\ (start < L => e > start) /\ e - start = r.done
  BY <1>1, <1>2, <1>6
<1>8. s.sent \in SUBSET (ToSet(all) \X ToSet(ips))
  <2>1. ToSet(ports) \in SUBSET ToSet(all)
    <3> SUFFICES ASSUME NEW i \in DOMAIN ports PROVE ports[i] \in ToSet(all)
      BY DEF ToSet
    <3>1. i \in 1 .. end - start
      BY <1>1, <1>2, <1>4
    <3>2. ports[i] = all[start + i] /\ start + i \in 1 .. L
      BY <1>1, <1>2, <1>4, <3>1
    <3> QED
      BY <1>1, <3>2 DEF ToSet
  <2> QED
    BY <1>3, <1>5, <2>1 DEF Probed
<1>9. ASSUME NEW p \in start + 1 .. e, NEW j \in 1 .. Len(ips) PROVE <<all[p], ips[j]>> \in s.sent
  <2> DEFINE i == p - start
  <2>1. i \in 1 .. r.done /\ i \in 1 .. end - start /\ start + i = p
    BY <1>1, <1>2, <1>6
  <2> HIDE DEF i
  <2>2. ports[i] = all[p]
    BY <1>4, <2>1
  <2>3. <<ports[i], ips[j]>> \in r.sent
    BY <1>5, <2>1 DEF Probed
  <2> QED
    BY <1>3, <2>2, <2>3
<1> HIDE DEF e
<1>10. Swept(s, e, all, start, ips)
  BY <1>3, <1>7, <1>8, <1>9 DEF Swept, L
<1> QED
  BY <1>10 DEF s

(* Before the sweep over the ports starts again it has tried every port at *)
(* every address, for any number of ports and addresses, though each call  *)
(* is cut off at its own limit (punch.rs punch, punch_symmetric).          *)
THEOREM SweepRight ==
    ASSUME NEW X, NEW Y, NEW all \in Seq(X), NEW ips \in Seq(Y), NEW max \in Nat
    PROVE  SweepCovers(all, ips, max)
<1> DEFINE L == Len(all)
           W == ToSet(all) \X ToSet(ips)
           S == [index : 0 .. L, sent : SUBSET W, over : BOOLEAN]
           first == [index |-> 0, sent |-> {}, over |-> FALSE]
           G(c) == IF c.over THEN c
                   ELSE LET s == Sweep(all, c.index, ips, max)
                        IN  [index |-> s.index, sent |-> c.sent \cup s.sent, over |-> s.index = 0]
           call == CHOOSE f : f = [n \in 0 .. L + 1 |-> IF n = 0 THEN first ELSE G(f[n - 1])]
<1>1. SweepCovers(all, ips, max) <=> (Len(ips) < max => call[L + 1].over /\ call[L + 1].sent = W)
  BY SMTT(60) DEF SweepCovers
<1> SUFFICES ASSUME Len(ips) < max PROVE call[L + 1].over /\ call[L + 1].sent = W
  BY <1>1
<1>2. L \in Nat /\ L + 1 \in Nat /\ first \in S /\ DOMAIN all = 1 .. L
  BY LenProperties
<1>3. ASSUME NEW c \in S PROVE G(c) \in S
  <2>1. CASE c.over
    BY <2>1
  <2>2. CASE ~ c.over
    <3> DEFINE s == Sweep(all, c.index, ips, max)
    <3>1. c.index \in 0 .. Len(all) /\ c.sent \in SUBSET W
      OBVIOUS
    <3>2. PICK e : Swept(s, e, all, c.index, ips)
      BY <3>1, SweepStep
    <3> HIDE DEF s
    <3>3. s.index \in 0 .. L /\ s.sent \in SUBSET W
      BY <1>2, <3>1, <3>2 DEF Swept
    <3>4. G(c) = [index |-> s.index, sent |-> c.sent \cup s.sent, over |-> s.index = 0]
      BY <2>2 DEF s
    <3> HIDE DEF W, G, L
    <3> QED
      BY <3>1, <3>3, <3>4
  <2> QED
    BY <2>1, <2>2
<1> DEFINE g == [p \in Nat \X S |-> G(p[2])]
<1>4. g \in [Nat \X S -> S]
  <2> HIDE DEF S, G
  <2> QED
    BY <1>3
<1>5. PICK f : IsRun(f, L + 1, first, g, S)
  <2> HIDE DEF g, S, first, L
  <2> QED
    BY <1>2, <1>4, RunExists
<1>6. f = [n \in 0 .. L + 1 |-> IF n = 0 THEN first ELSE G(f[n - 1])]
  <2>1. f \in [0 .. L + 1 -> S] /\ f[0] = first
    BY <1>5 DEF IsRun
  <2>2. \A n \in 1 .. L + 1 : f[n] = g[<<n, f[n - 1]>>]
    BY <1>5 DEF IsRun
  <2>3. \A n \in 1 .. L + 1 : f[n] = G(f[n - 1])
    <3> SUFFICES ASSUME NEW n \in 1 .. L + 1 PROVE f[n] = G(f[n - 1])
      OBVIOUS
    <3>1. n \in Nat /\ n - 1 \in 0 .. L + 1
      BY <1>2
    <3> HIDE DEF S, G, L
    <3>2. f[n - 1] \in S
      BY <2>1, <3>1
    <3> QED
      BY <2>2, <3>1, <3>2
  <2> HIDE DEF S, G, L, first
  <2> QED
    BY <1>2, <2>1, <2>3
<1>7. call = [n \in 0 .. L + 1 |-> IF n = 0 THEN first ELSE G(call[n - 1])]
  <2> HIDE DEF S, G, L, first
  <2> QED
    BY <1>6
<1> HIDE DEF call, g
<1> DEFINE Q(n, c) ==
               /\ c \in S
               /\ IF c.over THEN c.sent = W
                  ELSE /\ n <= c.index
                       /\ \A p \in 1 .. c.index : \A j \in 1 .. Len(ips) : <<all[p], ips[j]>> \in c.sent
           N == {n \in Nat : n \in 0 .. L + 1 => Q(n, call[n])}
<1>8. 0 \in N
  <2>1. call[0] = first
    BY <1>2, <1>7
  <2>2. ~ first.over /\ first.index = 0 /\ first \in S
    BY <1>2
  <2> HIDE DEF first, S, W
  <2>3. 0 <= first.index /\ \A p \in 1 .. first.index : FALSE
    BY <2>2
  <2>4. Q(0, first)
    BY <2>2, <2>3
  <2> QED
    BY <2>1, <2>4
<1>9. ASSUME NEW n \in Nat, NEW c, Q(n, c) PROVE Q(n + 1, G(c))
  <2>1. G(c) \in S
    BY <1>3, <1>9
  <2>2. CASE c.over
    BY <1>9, <2>1, <2>2
  <2>3. CASE ~ c.over
    <3> DEFINE s == Sweep(all, c.index, ips, max)
               start == c.index
    <3>1. /\ start \in 0 .. Len(all) /\ c.sent \in SUBSET W /\ n <= start
          /\ \A p \in 1 .. start : \A j \in 1 .. Len(ips) : <<all[p], ips[j]>> \in c.sent
      BY <1>9, <2>3
    <3>2. PICK e : Swept(s, e, all, start, ips)
      BY <3>1, SweepStep
    <3> HIDE DEF s
    <3>3. G(c) = [index |-> s.index, sent |-> c.sent \cup s.sent, over |-> s.index = 0]
      BY <2>3 DEF s
    <3> DEFINE B == s.index = 0
               d == G(c)
    <3>31. d.index = s.index /\ d.sent = c.sent \cup s.sent /\ d.over = B
      <4>1. d = [index |-> s.index, sent |-> c.sent \cup s.sent, over |-> B]
        BY <3>3
      <4> HIDE DEF d, B
      <4> QED
        BY <4>1
    <3> HIDE DEF start, d
    <3>4. /\ e \in start .. L /\ (start < L => e > start)
          /\ s.index = (IF e >= L THEN 0 ELSE e)
          /\ s.sent \in SUBSET W
          /\ \A p \in start + 1 .. e : \A j \in 1 .. Len(ips) : <<all[p], ips[j]>> \in s.sent
      BY <3>2 DEF Swept
    <3> DEFINE T == c.sent \cup s.sent
    <3>5. T \in SUBSET W /\ \A p \in 1 .. e : \A j \in 1 .. Len(ips) : <<all[p], ips[j]>> \in T
      <4> SUFFICES ASSUME NEW p \in 1 .. e, NEW j \in 1 .. Len(ips) PROVE <<all[p], ips[j]>> \in T
        BY <3>1, <3>4
      <4>1. p \in 1 .. start \/ p \in start + 1 .. e
        BY <1>2, <3>1, <3>4
      <4> QED
        BY <3>1, <3>4, <4>1
    <3> HIDE DEF T
    <3>6. CASE e >= L
      <4>1. e = L /\ s.index = 0
        BY <1>2, <3>1, <3>4, <3>6
      <4>2. T = W
        <5> SUFFICES ASSUME NEW x \in ToSet(all), NEW y \in ToSet(ips) PROVE <<x, y>> \in T
          BY <3>5
        <5>1. PICK p \in 1 .. L : x = all[p]
          BY <1>2 DEF ToSet
        <5>2. PICK j \in 1 .. Len(ips) : y = ips[j]
          BY DEF ToSet
        <5> QED
          BY <3>5, <4>1, <5>1, <5>2
      <4>3. d.over /\ d.sent = W
        BY <3>31, <4>1, <4>2 DEF T
      <4>4. d \in S
        BY <2>1 DEF d
      <4> HIDE DEF S, W
      <4>5. Q(n + 1, d)
        BY <4>3, <4>4
      <4> QED
        BY <4>5 DEF d
    <3>7. CASE ~ (e >= L)
      <4>1. s.index = e /\ e # 0 /\ n + 1 <= e
        BY <1>2, <3>1, <3>4, <3>7
      <4>2. ~ d.over /\ d.sent = T /\ d.index = e
        BY <3>31, <4>1 DEF T
      <4>3. d \in S
        BY <2>1 DEF d
      <4> HIDE DEF S, W
      <4>4. Q(n + 1, d)
        BY <3>5, <4>1, <4>2, <4>3
      <4> QED
        BY <4>4 DEF d
    <3> QED
      BY <3>6, <3>7
  <2> QED
    BY <2>2, <2>3
<1>10. ASSUME NEW n \in N PROVE n + 1 \in N
  <2> SUFFICES ASSUME n + 1 \in 0 .. L + 1 PROVE Q(n + 1, call[n + 1])
    OBVIOUS
  <2>1. n \in Nat /\ n \in 0 .. L + 1 /\ n + 1 # 0 /\ (n + 1) - 1 = n
    BY <1>2
  <2> HIDE DEF Q, G, L
  <2>2. Q(n, call[n])
    BY <2>1
  <2>3. call[n + 1] = G(call[n])
    BY <1>7, <2>1
  <2> QED
    BY <1>9, <2>1, <2>2, <2>3
<1>11. N = Nat
  <2> HIDE DEF N
  <2>1. N \in SUBSET Nat
    BY DEF N
  <2> QED
    BY <1>8, <1>10, <2>1, SetInduction
<1>12. Q(L + 1, call[L + 1])
  <2> HIDE DEF Q
  <2> QED
    BY <1>2, <1>11
<1> DEFINE c == call[L + 1]
<1>13. c.over
  <2> SUFFICES ASSUME ~ c.over PROVE FALSE
    OBVIOUS
  <2>1. L + 1 <= c.index /\ c.index \in 0 .. L
    BY <1>12
  <2> QED
    BY <1>2, <2>1
<1> QED
  BY <1>12, <1>13

-----------------------------------------------------------------------------
LEMMA PowerValues ==
    /\ Power2(1) = 2 /\ Power2(4) = 16 /\ Power2(6) = 64 /\ Power2(9) = 512
<1>1. 0 + 1 = 1 /\ 1 + 1 = 2 /\ 2 + 1 = 3 /\ 3 + 1 = 4 /\ 4 + 1 = 5 /\ 5 + 1 = 6 /\ 6 + 1 = 7 /\ 7 + 1 = 8 /\ 8 + 1 = 9
  BY SMT
<1>2. /\ Power2(1) = 2 * Power2(0) /\ Power2(2) = 2 * Power2(1) /\ Power2(3) = 2 * Power2(2)
      /\ Power2(4) = 2 * Power2(3) /\ Power2(5) = 2 * Power2(4) /\ Power2(6) = 2 * Power2(5)
      /\ Power2(7) = 2 * Power2(6) /\ Power2(8) = 2 * Power2(7) /\ Power2(9) = 2 * Power2(8)
  BY <1>1, Power2Doubles, SMT
<1> QED
  BY <1>2, Power2Doubles, SMT

(* The blocks of the registries, one by one. *)

LEMMA Blocks4Are ==
    ASSUME NEW a
    PROVE  /\ InBlock(a, <<<<0>>, 8>>, 8) <=> (a[1] = 0)
           /\ InBlock(a, <<<<10>>, 8>>, 8) <=> (a[1] = 10)
           /\ InBlock(a, <<<<100, 64>>, 10>>, 8) <=> (a[1] = 100 /\ a[2] \div 64 = 1)
           /\ InBlock(a, <<<<127>>, 8>>, 8) <=> (a[1] = 127)
           /\ InBlock(a, <<<<169, 254>>, 16>>, 8) <=> (a[1] = 169 /\ a[2] = 254)
           /\ InBlock(a, <<<<172, 16>>, 12>>, 8) <=> (a[1] = 172 /\ a[2] \div 16 = 1)
           /\ InBlock(a, <<<<192, 0, 0>>, 24>>, 8) <=> (a[1] = 192 /\ a[2] = 0 /\ a[3] = 0)
           /\ InBlock(a, <<<<192, 0, 2>>, 24>>, 8) <=> (a[1] = 192 /\ a[2] = 0 /\ a[3] = 2)
           /\ InBlock(a, <<<<192, 168>>, 16>>, 8) <=> (a[1] = 192 /\ a[2] = 168)
           /\ InBlock(a, <<<<198, 18>>, 15>>, 8) <=> (a[1] = 198 /\ a[2] \div 2 = 9)
           /\ InBlock(a, <<<<198, 51, 100>>, 24>>, 8) <=> (a[1] = 198 /\ a[2] = 51 /\ a[3] = 100)
           /\ InBlock(a, <<<<203, 0, 113>>, 24>>, 8) <=> (a[1] = 203 /\ a[2] = 0 /\ a[3] = 113)
           /\ InBlock(a, <<<<240>>, 4>>, 8) <=> (a[1] \div 16 = 15)
<1>1. InBlock(a, <<<<0>>, 8>>, 8) <=> (a[1] = 0)
  <2> DEFINE w == <<0>>
             block == <<w, 8>>
  <2>1. block[1] = w /\ block[2] = 8 /\ 8 \div 8 = 1 /\ 8 % 8 = 0
    BY SMT
  <2>2. w[1] = 0
    BY SMT
  <2> HIDE DEF block, w
  <2>4. InBlock(a, block, 8) <=> \A i \in 1 .. 1 : a[i] = w[i]
    BY <2>1, SMT DEF InBlock
  <2>5. (\A i \in 1 .. 1 : a[i] = w[i]) <=> (a[1] = w[1])
    BY SMT
  <2>7. InBlock(a, block, 8) <=> (a[1] = 0)
    BY <2>2, <2>4, <2>5, SMT
  <2> QED
    BY <2>7 DEF block, w
<1>2. InBlock(a, <<<<10>>, 8>>, 8) <=> (a[1] = 10)
  <2> DEFINE w == <<10>>
             block == <<w, 8>>
  <2>1. block[1] = w /\ block[2] = 8 /\ 8 \div 8 = 1 /\ 8 % 8 = 0
    BY SMT
  <2>2. w[1] = 10
    BY SMT
  <2> HIDE DEF block, w
  <2>4. InBlock(a, block, 8) <=> \A i \in 1 .. 1 : a[i] = w[i]
    BY <2>1, SMT DEF InBlock
  <2>5. (\A i \in 1 .. 1 : a[i] = w[i]) <=> (a[1] = w[1])
    BY SMT
  <2>7. InBlock(a, block, 8) <=> (a[1] = 10)
    BY <2>2, <2>4, <2>5, SMT
  <2> QED
    BY <2>7 DEF block, w
<1>3. InBlock(a, <<<<100, 64>>, 10>>, 8) <=> (a[1] = 100 /\ a[2] \div 64 = 1)
  <2> DEFINE w == <<100, 64>>
             block == <<w, 10>>
  <2>1. block[1] = w /\ block[2] = 10 /\ 10 \div 8 = 1 /\ 10 % 8 = 2
    BY SMT
  <2>2. w[1] = 100 /\ w[2] = 64
    BY SMT
  <2>3. Power2(8 - 2) = 64 /\ 64 \div 64 = 1
    BY PowerValues, SMT
  <2> HIDE DEF block, w
  <2>4. InBlock(a, block, 8) <=> (\A i \in 1 .. 1 : a[i] = w[i]) /\ a[1 + 1] \div 64 = w[1 + 1] \div 64
    BY <2>1, <2>3, SMT DEF InBlock
  <2>5. (\A i \in 1 .. 1 : a[i] = w[i]) <=> (a[1] = w[1])
    BY SMT
  <2>6. 1 + 1 = 2
    BY SMT
  <2>7. InBlock(a, block, 8) <=> (a[1] = 100 /\ a[2] \div 64 = 1)
    BY <2>2, <2>3, <2>4, <2>5, <2>6, SMT
  <2> QED
    BY <2>7 DEF block, w
<1>4. InBlock(a, <<<<127>>, 8>>, 8) <=> (a[1] = 127)
  <2> DEFINE w == <<127>>
             block == <<w, 8>>
  <2>1. block[1] = w /\ block[2] = 8 /\ 8 \div 8 = 1 /\ 8 % 8 = 0
    BY SMT
  <2>2. w[1] = 127
    BY SMT
  <2> HIDE DEF block, w
  <2>4. InBlock(a, block, 8) <=> \A i \in 1 .. 1 : a[i] = w[i]
    BY <2>1, SMT DEF InBlock
  <2>5. (\A i \in 1 .. 1 : a[i] = w[i]) <=> (a[1] = w[1])
    BY SMT
  <2>7. InBlock(a, block, 8) <=> (a[1] = 127)
    BY <2>2, <2>4, <2>5, SMT
  <2> QED
    BY <2>7 DEF block, w
<1>5. InBlock(a, <<<<169, 254>>, 16>>, 8) <=> (a[1] = 169 /\ a[2] = 254)
  <2> DEFINE w == <<169, 254>>
             block == <<w, 16>>
  <2>1. block[1] = w /\ block[2] = 16 /\ 16 \div 8 = 2 /\ 16 % 8 = 0
    BY SMT
  <2>2. w[1] = 169 /\ w[2] = 254
    BY SMT
  <2> HIDE DEF block, w
  <2>4. InBlock(a, block, 8) <=> \A i \in 1 .. 2 : a[i] = w[i]
    BY <2>1, SMT DEF InBlock
  <2>5. (\A i \in 1 .. 2 : a[i] = w[i]) <=> (a[1] = w[1] /\ a[2] = w[2])
    BY SMT
  <2>7. InBlock(a, block, 8) <=> (a[1] = 169 /\ a[2] = 254)
    BY <2>2, <2>4, <2>5, SMT
  <2> QED
    BY <2>7 DEF block, w
<1>6. InBlock(a, <<<<172, 16>>, 12>>, 8) <=> (a[1] = 172 /\ a[2] \div 16 = 1)
  <2> DEFINE w == <<172, 16>>
             block == <<w, 12>>
  <2>1. block[1] = w /\ block[2] = 12 /\ 12 \div 8 = 1 /\ 12 % 8 = 4
    BY SMT
  <2>2. w[1] = 172 /\ w[2] = 16
    BY SMT
  <2>3. Power2(8 - 4) = 16 /\ 16 \div 16 = 1
    BY PowerValues, SMT
  <2> HIDE DEF block, w
  <2>4. InBlock(a, block, 8) <=> (\A i \in 1 .. 1 : a[i] = w[i]) /\ a[1 + 1] \div 16 = w[1 + 1] \div 16
    BY <2>1, <2>3, SMT DEF InBlock
  <2>5. (\A i \in 1 .. 1 : a[i] = w[i]) <=> (a[1] = w[1])
    BY SMT
  <2>6. 1 + 1 = 2
    BY SMT
  <2>7. InBlock(a, block, 8) <=> (a[1] = 172 /\ a[2] \div 16 = 1)
    BY <2>2, <2>3, <2>4, <2>5, <2>6, SMT
  <2> QED
    BY <2>7 DEF block, w
<1>7. InBlock(a, <<<<192, 0, 0>>, 24>>, 8) <=> (a[1] = 192 /\ a[2] = 0 /\ a[3] = 0)
  <2> DEFINE w == <<192, 0, 0>>
             block == <<w, 24>>
  <2>1. block[1] = w /\ block[2] = 24 /\ 24 \div 8 = 3 /\ 24 % 8 = 0
    BY SMT
  <2>2. w[1] = 192 /\ w[2] = 0 /\ w[3] = 0
    BY SMT
  <2> HIDE DEF block, w
  <2>4. InBlock(a, block, 8) <=> \A i \in 1 .. 3 : a[i] = w[i]
    BY <2>1, SMT DEF InBlock
  <2>5. (\A i \in 1 .. 3 : a[i] = w[i]) <=> (a[1] = w[1] /\ a[2] = w[2] /\ a[3] = w[3])
    BY SMT
  <2>7. InBlock(a, block, 8) <=> (a[1] = 192 /\ a[2] = 0 /\ a[3] = 0)
    BY <2>2, <2>4, <2>5, SMT
  <2> QED
    BY <2>7 DEF block, w
<1>8. InBlock(a, <<<<192, 0, 2>>, 24>>, 8) <=> (a[1] = 192 /\ a[2] = 0 /\ a[3] = 2)
  <2> DEFINE w == <<192, 0, 2>>
             block == <<w, 24>>
  <2>1. block[1] = w /\ block[2] = 24 /\ 24 \div 8 = 3 /\ 24 % 8 = 0
    BY SMT
  <2>2. w[1] = 192 /\ w[2] = 0 /\ w[3] = 2
    BY SMT
  <2> HIDE DEF block, w
  <2>4. InBlock(a, block, 8) <=> \A i \in 1 .. 3 : a[i] = w[i]
    BY <2>1, SMT DEF InBlock
  <2>5. (\A i \in 1 .. 3 : a[i] = w[i]) <=> (a[1] = w[1] /\ a[2] = w[2] /\ a[3] = w[3])
    BY SMT
  <2>7. InBlock(a, block, 8) <=> (a[1] = 192 /\ a[2] = 0 /\ a[3] = 2)
    BY <2>2, <2>4, <2>5, SMT
  <2> QED
    BY <2>7 DEF block, w
<1>9. InBlock(a, <<<<192, 168>>, 16>>, 8) <=> (a[1] = 192 /\ a[2] = 168)
  <2> DEFINE w == <<192, 168>>
             block == <<w, 16>>
  <2>1. block[1] = w /\ block[2] = 16 /\ 16 \div 8 = 2 /\ 16 % 8 = 0
    BY SMT
  <2>2. w[1] = 192 /\ w[2] = 168
    BY SMT
  <2> HIDE DEF block, w
  <2>4. InBlock(a, block, 8) <=> \A i \in 1 .. 2 : a[i] = w[i]
    BY <2>1, SMT DEF InBlock
  <2>5. (\A i \in 1 .. 2 : a[i] = w[i]) <=> (a[1] = w[1] /\ a[2] = w[2])
    BY SMT
  <2>7. InBlock(a, block, 8) <=> (a[1] = 192 /\ a[2] = 168)
    BY <2>2, <2>4, <2>5, SMT
  <2> QED
    BY <2>7 DEF block, w
<1>10. InBlock(a, <<<<198, 18>>, 15>>, 8) <=> (a[1] = 198 /\ a[2] \div 2 = 9)
  <2> DEFINE w == <<198, 18>>
             block == <<w, 15>>
  <2>1. block[1] = w /\ block[2] = 15 /\ 15 \div 8 = 1 /\ 15 % 8 = 7
    BY SMT
  <2>2. w[1] = 198 /\ w[2] = 18
    BY SMT
  <2>3. Power2(8 - 7) = 2 /\ 18 \div 2 = 9
    BY PowerValues, SMT
  <2> HIDE DEF block, w
  <2>4. InBlock(a, block, 8) <=> (\A i \in 1 .. 1 : a[i] = w[i]) /\ a[1 + 1] \div 2 = w[1 + 1] \div 2
    BY <2>1, <2>3, SMT DEF InBlock
  <2>5. (\A i \in 1 .. 1 : a[i] = w[i]) <=> (a[1] = w[1])
    BY SMT
  <2>6. 1 + 1 = 2
    BY SMT
  <2>7. InBlock(a, block, 8) <=> (a[1] = 198 /\ a[2] \div 2 = 9)
    BY <2>2, <2>3, <2>4, <2>5, <2>6, SMT
  <2> QED
    BY <2>7 DEF block, w
<1>11. InBlock(a, <<<<198, 51, 100>>, 24>>, 8) <=> (a[1] = 198 /\ a[2] = 51 /\ a[3] = 100)
  <2> DEFINE w == <<198, 51, 100>>
             block == <<w, 24>>
  <2>1. block[1] = w /\ block[2] = 24 /\ 24 \div 8 = 3 /\ 24 % 8 = 0
    BY SMT
  <2>2. w[1] = 198 /\ w[2] = 51 /\ w[3] = 100
    BY SMT
  <2> HIDE DEF block, w
  <2>4. InBlock(a, block, 8) <=> \A i \in 1 .. 3 : a[i] = w[i]
    BY <2>1, SMT DEF InBlock
  <2>5. (\A i \in 1 .. 3 : a[i] = w[i]) <=> (a[1] = w[1] /\ a[2] = w[2] /\ a[3] = w[3])
    BY SMT
  <2>7. InBlock(a, block, 8) <=> (a[1] = 198 /\ a[2] = 51 /\ a[3] = 100)
    BY <2>2, <2>4, <2>5, SMT
  <2> QED
    BY <2>7 DEF block, w
<1>12. InBlock(a, <<<<203, 0, 113>>, 24>>, 8) <=> (a[1] = 203 /\ a[2] = 0 /\ a[3] = 113)
  <2> DEFINE w == <<203, 0, 113>>
             block == <<w, 24>>
  <2>1. block[1] = w /\ block[2] = 24 /\ 24 \div 8 = 3 /\ 24 % 8 = 0
    BY SMT
  <2>2. w[1] = 203 /\ w[2] = 0 /\ w[3] = 113
    BY SMT
  <2> HIDE DEF block, w
  <2>4. InBlock(a, block, 8) <=> \A i \in 1 .. 3 : a[i] = w[i]
    BY <2>1, SMT DEF InBlock
  <2>5. (\A i \in 1 .. 3 : a[i] = w[i]) <=> (a[1] = w[1] /\ a[2] = w[2] /\ a[3] = w[3])
    BY SMT
  <2>7. InBlock(a, block, 8) <=> (a[1] = 203 /\ a[2] = 0 /\ a[3] = 113)
    BY <2>2, <2>4, <2>5, SMT
  <2> QED
    BY <2>7 DEF block, w
<1>13. InBlock(a, <<<<240>>, 4>>, 8) <=> (a[1] \div 16 = 15)
  <2> DEFINE w == <<240>>
             block == <<w, 4>>
  <2>1. block[1] = w /\ block[2] = 4 /\ 4 \div 8 = 0 /\ 4 % 8 = 4
    BY SMT
  <2>2. w[1] = 240
    BY SMT
  <2>3. Power2(8 - 4) = 16 /\ 240 \div 16 = 15
    BY PowerValues, SMT
  <2> HIDE DEF block, w
  <2>4. InBlock(a, block, 8) <=> (\A i \in 1 .. 0 : a[i] = w[i]) /\ a[0 + 1] \div 16 = w[0 + 1] \div 16
    BY <2>1, <2>3, SMT DEF InBlock
  <2>5. (\A i \in 1 .. 0 : a[i] = w[i]) <=> (TRUE)
    BY SMT
  <2>6. 0 + 1 = 1
    BY SMT
  <2>7. InBlock(a, block, 8) <=> (a[1] \div 16 = 15)
    BY <2>2, <2>3, <2>4, <2>5, <2>6, SMT
  <2> QED
    BY <2>7 DEF block, w
<1> QED
  BY <1>1, <1>2, <1>3, <1>4, <1>5, <1>6, <1>7, <1>8, <1>9, <1>10, <1>11, <1>12, <1>13

LEMMA Again4Are ==
    ASSUME NEW a
    PROVE  /\ InBlock(a, <<<<192, 0, 0, 9>>, 32>>, 8) <=> (a[1] = 192 /\ a[2] = 0 /\ a[3] = 0 /\ a[4] = 9)
           /\ InBlock(a, <<<<192, 0, 0, 10>>, 32>>, 8) <=> (a[1] = 192 /\ a[2] = 0 /\ a[3] = 0 /\ a[4] = 10)
<1>1. InBlock(a, <<<<192, 0, 0, 9>>, 32>>, 8) <=> (a[1] = 192 /\ a[2] = 0 /\ a[3] = 0 /\ a[4] = 9)
  <2> DEFINE w == <<192, 0, 0, 9>>
             block == <<w, 32>>
  <2>1. block[1] = w /\ block[2] = 32 /\ 32 \div 8 = 4 /\ 32 % 8 = 0
    BY SMT
  <2>2. w[1] = 192 /\ w[2] = 0 /\ w[3] = 0 /\ w[4] = 9
    BY SMT
  <2> HIDE DEF block, w
  <2>4. InBlock(a, block, 8) <=> \A i \in 1 .. 4 : a[i] = w[i]
    BY <2>1, SMT DEF InBlock
  <2>5. (\A i \in 1 .. 4 : a[i] = w[i]) <=> (a[1] = w[1] /\ a[2] = w[2] /\ a[3] = w[3] /\ a[4] = w[4])
    BY SMT
  <2>7. InBlock(a, block, 8) <=> (a[1] = 192 /\ a[2] = 0 /\ a[3] = 0 /\ a[4] = 9)
    BY <2>2, <2>4, <2>5, SMT
  <2> QED
    BY <2>7 DEF block, w
<1>2. InBlock(a, <<<<192, 0, 0, 10>>, 32>>, 8) <=> (a[1] = 192 /\ a[2] = 0 /\ a[3] = 0 /\ a[4] = 10)
  <2> DEFINE w == <<192, 0, 0, 10>>
             block == <<w, 32>>
  <2>1. block[1] = w /\ block[2] = 32 /\ 32 \div 8 = 4 /\ 32 % 8 = 0
    BY SMT
  <2>2. w[1] = 192 /\ w[2] = 0 /\ w[3] = 0 /\ w[4] = 10
    BY SMT
  <2> HIDE DEF block, w
  <2>4. InBlock(a, block, 8) <=> \A i \in 1 .. 4 : a[i] = w[i]
    BY <2>1, SMT DEF InBlock
  <2>5. (\A i \in 1 .. 4 : a[i] = w[i]) <=> (a[1] = w[1] /\ a[2] = w[2] /\ a[3] = w[3] /\ a[4] = w[4])
    BY SMT
  <2>7. InBlock(a, block, 8) <=> (a[1] = 192 /\ a[2] = 0 /\ a[3] = 0 /\ a[4] = 10)
    BY <2>2, <2>4, <2>5, SMT
  <2> QED
    BY <2>7 DEF block, w
<1> QED
  BY <1>1, <1>2

LEMMA Blocks6Are ==
    ASSUME NEW a
    PROVE  /\ InBlock(a, <<<<0, 0, 0, 0, 0, 0, 0, 0>>, 128>>, 16) <=> (a[1] = 0 /\ a[2] = 0 /\ a[3] = 0 /\ a[4] = 0 /\ a[5] = 0 /\ a[6] = 0 /\ a[7] = 0 /\ a[8] = 0)
           /\ InBlock(a, <<<<0, 0, 0, 0, 0, 0, 0, 1>>, 128>>, 16) <=> (a[1] = 0 /\ a[2] = 0 /\ a[3] = 0 /\ a[4] = 0 /\ a[5] = 0 /\ a[6] = 0 /\ a[7] = 0 /\ a[8] = 1)
           /\ InBlock(a, <<<<0, 0, 0, 0, 0, 65535>>, 96>>, 16) <=> (a[1] = 0 /\ a[2] = 0 /\ a[3] = 0 /\ a[4] = 0 /\ a[5] = 0 /\ a[6] = 65535)
           /\ InBlock(a, <<<<100, 65435, 1>>, 48>>, 16) <=> (a[1] = 100 /\ a[2] = 65435 /\ a[3] = 1)
           /\ InBlock(a, <<<<256, 0, 0, 0>>, 64>>, 16) <=> (a[1] = 256 /\ a[2] = 0 /\ a[3] = 0 /\ a[4] = 0)
           /\ InBlock(a, <<<<8193, 0>>, 23>>, 16) <=> (a[1] = 8193 /\ a[2] \div 512 = 0)
           /\ InBlock(a, <<<<8193, 3512>>, 32>>, 16) <=> (a[1] = 8193 /\ a[2] = 3512)
           /\ InBlock(a, <<<<64512>>, 7>>, 16) <=> (a[1] \div 512 = 126)
           /\ InBlock(a, <<<<65152>>, 10>>, 16) <=> (a[1] \div 64 = 1018)
<1>1. InBlock(a, <<<<0, 0, 0, 0, 0, 0, 0, 0>>, 128>>, 16) <=> (a[1] = 0 /\ a[2] = 0 /\ a[3] = 0 /\ a[4] = 0 /\ a[5] = 0 /\ a[6] = 0 /\ a[7] = 0 /\ a[8] = 0)
  <2> DEFINE w == <<0, 0, 0, 0, 0, 0, 0, 0>>
             block == <<w, 128>>
  <2>1. block[1] = w /\ block[2] = 128 /\ 128 \div 16 = 8 /\ 128 % 16 = 0
    BY SMT
  <2>2. w[1] = 0 /\ w[2] = 0 /\ w[3] = 0 /\ w[4] = 0 /\ w[5] = 0 /\ w[6] = 0 /\ w[7] = 0 /\ w[8] = 0
    BY SMT
  <2> HIDE DEF block, w
  <2>4. InBlock(a, block, 16) <=> \A i \in 1 .. 8 : a[i] = w[i]
    BY <2>1, SMT DEF InBlock
  <2>5. (\A i \in 1 .. 8 : a[i] = w[i]) <=> (a[1] = w[1] /\ a[2] = w[2] /\ a[3] = w[3] /\ a[4] = w[4] /\ a[5] = w[5] /\ a[6] = w[6] /\ a[7] = w[7] /\ a[8] = w[8])
    BY SMT
  <2>7. InBlock(a, block, 16) <=> (a[1] = 0 /\ a[2] = 0 /\ a[3] = 0 /\ a[4] = 0 /\ a[5] = 0 /\ a[6] = 0 /\ a[7] = 0 /\ a[8] = 0)
    BY <2>2, <2>4, <2>5, SMT
  <2> QED
    BY <2>7 DEF block, w
<1>2. InBlock(a, <<<<0, 0, 0, 0, 0, 0, 0, 1>>, 128>>, 16) <=> (a[1] = 0 /\ a[2] = 0 /\ a[3] = 0 /\ a[4] = 0 /\ a[5] = 0 /\ a[6] = 0 /\ a[7] = 0 /\ a[8] = 1)
  <2> DEFINE w == <<0, 0, 0, 0, 0, 0, 0, 1>>
             block == <<w, 128>>
  <2>1. block[1] = w /\ block[2] = 128 /\ 128 \div 16 = 8 /\ 128 % 16 = 0
    BY SMT
  <2>2. w[1] = 0 /\ w[2] = 0 /\ w[3] = 0 /\ w[4] = 0 /\ w[5] = 0 /\ w[6] = 0 /\ w[7] = 0 /\ w[8] = 1
    BY SMT
  <2> HIDE DEF block, w
  <2>4. InBlock(a, block, 16) <=> \A i \in 1 .. 8 : a[i] = w[i]
    BY <2>1, SMT DEF InBlock
  <2>5. (\A i \in 1 .. 8 : a[i] = w[i]) <=> (a[1] = w[1] /\ a[2] = w[2] /\ a[3] = w[3] /\ a[4] = w[4] /\ a[5] = w[5] /\ a[6] = w[6] /\ a[7] = w[7] /\ a[8] = w[8])
    BY SMT
  <2>7. InBlock(a, block, 16) <=> (a[1] = 0 /\ a[2] = 0 /\ a[3] = 0 /\ a[4] = 0 /\ a[5] = 0 /\ a[6] = 0 /\ a[7] = 0 /\ a[8] = 1)
    BY <2>2, <2>4, <2>5, SMT
  <2> QED
    BY <2>7 DEF block, w
<1>3. InBlock(a, <<<<0, 0, 0, 0, 0, 65535>>, 96>>, 16) <=> (a[1] = 0 /\ a[2] = 0 /\ a[3] = 0 /\ a[4] = 0 /\ a[5] = 0 /\ a[6] = 65535)
  <2> DEFINE w == <<0, 0, 0, 0, 0, 65535>>
             block == <<w, 96>>
  <2>1. block[1] = w /\ block[2] = 96 /\ 96 \div 16 = 6 /\ 96 % 16 = 0
    BY SMT
  <2>2. w[1] = 0 /\ w[2] = 0 /\ w[3] = 0 /\ w[4] = 0 /\ w[5] = 0 /\ w[6] = 65535
    BY SMT
  <2> HIDE DEF block, w
  <2>4. InBlock(a, block, 16) <=> \A i \in 1 .. 6 : a[i] = w[i]
    BY <2>1, SMT DEF InBlock
  <2>5. (\A i \in 1 .. 6 : a[i] = w[i]) <=> (a[1] = w[1] /\ a[2] = w[2] /\ a[3] = w[3] /\ a[4] = w[4] /\ a[5] = w[5] /\ a[6] = w[6])
    BY SMT
  <2>7. InBlock(a, block, 16) <=> (a[1] = 0 /\ a[2] = 0 /\ a[3] = 0 /\ a[4] = 0 /\ a[5] = 0 /\ a[6] = 65535)
    BY <2>2, <2>4, <2>5, SMT
  <2> QED
    BY <2>7 DEF block, w
<1>4. InBlock(a, <<<<100, 65435, 1>>, 48>>, 16) <=> (a[1] = 100 /\ a[2] = 65435 /\ a[3] = 1)
  <2> DEFINE w == <<100, 65435, 1>>
             block == <<w, 48>>
  <2>1. block[1] = w /\ block[2] = 48 /\ 48 \div 16 = 3 /\ 48 % 16 = 0
    BY SMT
  <2>2. w[1] = 100 /\ w[2] = 65435 /\ w[3] = 1
    BY SMT
  <2> HIDE DEF block, w
  <2>4. InBlock(a, block, 16) <=> \A i \in 1 .. 3 : a[i] = w[i]
    BY <2>1, SMT DEF InBlock
  <2>5. (\A i \in 1 .. 3 : a[i] = w[i]) <=> (a[1] = w[1] /\ a[2] = w[2] /\ a[3] = w[3])
    BY SMT
  <2>7. InBlock(a, block, 16) <=> (a[1] = 100 /\ a[2] = 65435 /\ a[3] = 1)
    BY <2>2, <2>4, <2>5, SMT
  <2> QED
    BY <2>7 DEF block, w
<1>5. InBlock(a, <<<<256, 0, 0, 0>>, 64>>, 16) <=> (a[1] = 256 /\ a[2] = 0 /\ a[3] = 0 /\ a[4] = 0)
  <2> DEFINE w == <<256, 0, 0, 0>>
             block == <<w, 64>>
  <2>1. block[1] = w /\ block[2] = 64 /\ 64 \div 16 = 4 /\ 64 % 16 = 0
    BY SMT
  <2>2. w[1] = 256 /\ w[2] = 0 /\ w[3] = 0 /\ w[4] = 0
    BY SMT
  <2> HIDE DEF block, w
  <2>4. InBlock(a, block, 16) <=> \A i \in 1 .. 4 : a[i] = w[i]
    BY <2>1, SMT DEF InBlock
  <2>5. (\A i \in 1 .. 4 : a[i] = w[i]) <=> (a[1] = w[1] /\ a[2] = w[2] /\ a[3] = w[3] /\ a[4] = w[4])
    BY SMT
  <2>7. InBlock(a, block, 16) <=> (a[1] = 256 /\ a[2] = 0 /\ a[3] = 0 /\ a[4] = 0)
    BY <2>2, <2>4, <2>5, SMT
  <2> QED
    BY <2>7 DEF block, w
<1>6. InBlock(a, <<<<8193, 0>>, 23>>, 16) <=> (a[1] = 8193 /\ a[2] \div 512 = 0)
  <2> DEFINE w == <<8193, 0>>
             block == <<w, 23>>
  <2>1. block[1] = w /\ block[2] = 23 /\ 23 \div 16 = 1 /\ 23 % 16 = 7
    BY SMT
  <2>2. w[1] = 8193 /\ w[2] = 0
    BY SMT
  <2>3. Power2(16 - 7) = 512 /\ 0 \div 512 = 0
    BY PowerValues, SMT
  <2> HIDE DEF block, w
  <2>4. InBlock(a, block, 16) <=> (\A i \in 1 .. 1 : a[i] = w[i]) /\ a[1 + 1] \div 512 = w[1 + 1] \div 512
    BY <2>1, <2>3, SMT DEF InBlock
  <2>5. (\A i \in 1 .. 1 : a[i] = w[i]) <=> (a[1] = w[1])
    BY SMT
  <2>6. 1 + 1 = 2
    BY SMT
  <2>7. InBlock(a, block, 16) <=> (a[1] = 8193 /\ a[2] \div 512 = 0)
    BY <2>2, <2>3, <2>4, <2>5, <2>6, SMT
  <2> QED
    BY <2>7 DEF block, w
<1>7. InBlock(a, <<<<8193, 3512>>, 32>>, 16) <=> (a[1] = 8193 /\ a[2] = 3512)
  <2> DEFINE w == <<8193, 3512>>
             block == <<w, 32>>
  <2>1. block[1] = w /\ block[2] = 32 /\ 32 \div 16 = 2 /\ 32 % 16 = 0
    BY SMT
  <2>2. w[1] = 8193 /\ w[2] = 3512
    BY SMT
  <2> HIDE DEF block, w
  <2>4. InBlock(a, block, 16) <=> \A i \in 1 .. 2 : a[i] = w[i]
    BY <2>1, SMT DEF InBlock
  <2>5. (\A i \in 1 .. 2 : a[i] = w[i]) <=> (a[1] = w[1] /\ a[2] = w[2])
    BY SMT
  <2>7. InBlock(a, block, 16) <=> (a[1] = 8193 /\ a[2] = 3512)
    BY <2>2, <2>4, <2>5, SMT
  <2> QED
    BY <2>7 DEF block, w
<1>8. InBlock(a, <<<<64512>>, 7>>, 16) <=> (a[1] \div 512 = 126)
  <2> DEFINE w == <<64512>>
             block == <<w, 7>>
  <2>1. block[1] = w /\ block[2] = 7 /\ 7 \div 16 = 0 /\ 7 % 16 = 7
    BY SMT
  <2>2. w[1] = 64512
    BY SMT
  <2>3. Power2(16 - 7) = 512 /\ 64512 \div 512 = 126
    BY PowerValues, SMT
  <2> HIDE DEF block, w
  <2>4. InBlock(a, block, 16) <=> (\A i \in 1 .. 0 : a[i] = w[i]) /\ a[0 + 1] \div 512 = w[0 + 1] \div 512
    BY <2>1, <2>3, SMT DEF InBlock
  <2>5. (\A i \in 1 .. 0 : a[i] = w[i]) <=> (TRUE)
    BY SMT
  <2>6. 0 + 1 = 1
    BY SMT
  <2>7. InBlock(a, block, 16) <=> (a[1] \div 512 = 126)
    BY <2>2, <2>3, <2>4, <2>5, <2>6, SMT
  <2> QED
    BY <2>7 DEF block, w
<1>9. InBlock(a, <<<<65152>>, 10>>, 16) <=> (a[1] \div 64 = 1018)
  <2> DEFINE w == <<65152>>
             block == <<w, 10>>
  <2>1. block[1] = w /\ block[2] = 10 /\ 10 \div 16 = 0 /\ 10 % 16 = 10
    BY SMT
  <2>2. w[1] = 65152
    BY SMT
  <2>3. Power2(16 - 10) = 64 /\ 65152 \div 64 = 1018
    BY PowerValues, SMT
  <2> HIDE DEF block, w
  <2>4. InBlock(a, block, 16) <=> (\A i \in 1 .. 0 : a[i] = w[i]) /\ a[0 + 1] \div 64 = w[0 + 1] \div 64
    BY <2>1, <2>3, SMT DEF InBlock
  <2>5. (\A i \in 1 .. 0 : a[i] = w[i]) <=> (TRUE)
    BY SMT
  <2>6. 0 + 1 = 1
    BY SMT
  <2>7. InBlock(a, block, 16) <=> (a[1] \div 64 = 1018)
    BY <2>2, <2>3, <2>4, <2>5, <2>6, SMT
  <2> QED
    BY <2>7 DEF block, w
<1> QED
  BY <1>1, <1>2, <1>3, <1>4, <1>5, <1>6, <1>7, <1>8, <1>9

LEMMA Again6Are ==
    ASSUME NEW a
    PROVE  /\ InBlock(a, <<<<8193, 1, 0, 0, 0, 0, 0, 1>>, 128>>, 16) <=> (a[1] = 8193 /\ a[2] = 1 /\ a[3] = 0 /\ a[4] = 0 /\ a[5] = 0 /\ a[6] = 0 /\ a[7] = 0 /\ a[8] = 1)
           /\ InBlock(a, <<<<8193, 1, 0, 0, 0, 0, 0, 2>>, 128>>, 16) <=> (a[1] = 8193 /\ a[2] = 1 /\ a[3] = 0 /\ a[4] = 0 /\ a[5] = 0 /\ a[6] = 0 /\ a[7] = 0 /\ a[8] = 2)
           /\ InBlock(a, <<<<8193, 3>>, 32>>, 16) <=> (a[1] = 8193 /\ a[2] = 3)
           /\ InBlock(a, <<<<8193, 4, 274>>, 48>>, 16) <=> (a[1] = 8193 /\ a[2] = 4 /\ a[3] = 274)
           /\ InBlock(a, <<<<8193, 32>>, 28>>, 16) <=> (a[1] = 8193 /\ a[2] \div 16 = 2)
<1>1. InBlock(a, <<<<8193, 1, 0, 0, 0, 0, 0, 1>>, 128>>, 16) <=> (a[1] = 8193 /\ a[2] = 1 /\ a[3] = 0 /\ a[4] = 0 /\ a[5] = 0 /\ a[6] = 0 /\ a[7] = 0 /\ a[8] = 1)
  <2> DEFINE w == <<8193, 1, 0, 0, 0, 0, 0, 1>>
             block == <<w, 128>>
  <2>1. block[1] = w /\ block[2] = 128 /\ 128 \div 16 = 8 /\ 128 % 16 = 0
    BY SMT
  <2>2. w[1] = 8193 /\ w[2] = 1 /\ w[3] = 0 /\ w[4] = 0 /\ w[5] = 0 /\ w[6] = 0 /\ w[7] = 0 /\ w[8] = 1
    BY SMT
  <2> HIDE DEF block, w
  <2>4. InBlock(a, block, 16) <=> \A i \in 1 .. 8 : a[i] = w[i]
    BY <2>1, SMT DEF InBlock
  <2>5. (\A i \in 1 .. 8 : a[i] = w[i]) <=> (a[1] = w[1] /\ a[2] = w[2] /\ a[3] = w[3] /\ a[4] = w[4] /\ a[5] = w[5] /\ a[6] = w[6] /\ a[7] = w[7] /\ a[8] = w[8])
    BY SMT
  <2>7. InBlock(a, block, 16) <=> (a[1] = 8193 /\ a[2] = 1 /\ a[3] = 0 /\ a[4] = 0 /\ a[5] = 0 /\ a[6] = 0 /\ a[7] = 0 /\ a[8] = 1)
    BY <2>2, <2>4, <2>5, SMT
  <2> QED
    BY <2>7 DEF block, w
<1>2. InBlock(a, <<<<8193, 1, 0, 0, 0, 0, 0, 2>>, 128>>, 16) <=> (a[1] = 8193 /\ a[2] = 1 /\ a[3] = 0 /\ a[4] = 0 /\ a[5] = 0 /\ a[6] = 0 /\ a[7] = 0 /\ a[8] = 2)
  <2> DEFINE w == <<8193, 1, 0, 0, 0, 0, 0, 2>>
             block == <<w, 128>>
  <2>1. block[1] = w /\ block[2] = 128 /\ 128 \div 16 = 8 /\ 128 % 16 = 0
    BY SMT
  <2>2. w[1] = 8193 /\ w[2] = 1 /\ w[3] = 0 /\ w[4] = 0 /\ w[5] = 0 /\ w[6] = 0 /\ w[7] = 0 /\ w[8] = 2
    BY SMT
  <2> HIDE DEF block, w
  <2>4. InBlock(a, block, 16) <=> \A i \in 1 .. 8 : a[i] = w[i]
    BY <2>1, SMT DEF InBlock
  <2>5. (\A i \in 1 .. 8 : a[i] = w[i]) <=> (a[1] = w[1] /\ a[2] = w[2] /\ a[3] = w[3] /\ a[4] = w[4] /\ a[5] = w[5] /\ a[6] = w[6] /\ a[7] = w[7] /\ a[8] = w[8])
    BY SMT
  <2>7. InBlock(a, block, 16) <=> (a[1] = 8193 /\ a[2] = 1 /\ a[3] = 0 /\ a[4] = 0 /\ a[5] = 0 /\ a[6] = 0 /\ a[7] = 0 /\ a[8] = 2)
    BY <2>2, <2>4, <2>5, SMT
  <2> QED
    BY <2>7 DEF block, w
<1>3. InBlock(a, <<<<8193, 3>>, 32>>, 16) <=> (a[1] = 8193 /\ a[2] = 3)
  <2> DEFINE w == <<8193, 3>>
             block == <<w, 32>>
  <2>1. block[1] = w /\ block[2] = 32 /\ 32 \div 16 = 2 /\ 32 % 16 = 0
    BY SMT
  <2>2. w[1] = 8193 /\ w[2] = 3
    BY SMT
  <2> HIDE DEF block, w
  <2>4. InBlock(a, block, 16) <=> \A i \in 1 .. 2 : a[i] = w[i]
    BY <2>1, SMT DEF InBlock
  <2>5. (\A i \in 1 .. 2 : a[i] = w[i]) <=> (a[1] = w[1] /\ a[2] = w[2])
    BY SMT
  <2>7. InBlock(a, block, 16) <=> (a[1] = 8193 /\ a[2] = 3)
    BY <2>2, <2>4, <2>5, SMT
  <2> QED
    BY <2>7 DEF block, w
<1>4. InBlock(a, <<<<8193, 4, 274>>, 48>>, 16) <=> (a[1] = 8193 /\ a[2] = 4 /\ a[3] = 274)
  <2> DEFINE w == <<8193, 4, 274>>
             block == <<w, 48>>
  <2>1. block[1] = w /\ block[2] = 48 /\ 48 \div 16 = 3 /\ 48 % 16 = 0
    BY SMT
  <2>2. w[1] = 8193 /\ w[2] = 4 /\ w[3] = 274
    BY SMT
  <2> HIDE DEF block, w
  <2>4. InBlock(a, block, 16) <=> \A i \in 1 .. 3 : a[i] = w[i]
    BY <2>1, SMT DEF InBlock
  <2>5. (\A i \in 1 .. 3 : a[i] = w[i]) <=> (a[1] = w[1] /\ a[2] = w[2] /\ a[3] = w[3])
    BY SMT
  <2>7. InBlock(a, block, 16) <=> (a[1] = 8193 /\ a[2] = 4 /\ a[3] = 274)
    BY <2>2, <2>4, <2>5, SMT
  <2> QED
    BY <2>7 DEF block, w
<1>5. InBlock(a, <<<<8193, 32>>, 28>>, 16) <=> (a[1] = 8193 /\ a[2] \div 16 = 2)
  <2> DEFINE w == <<8193, 32>>
             block == <<w, 28>>
  <2>1. block[1] = w /\ block[2] = 28 /\ 28 \div 16 = 1 /\ 28 % 16 = 12
    BY SMT
  <2>2. w[1] = 8193 /\ w[2] = 32
    BY SMT
  <2>3. Power2(16 - 12) = 16 /\ 32 \div 16 = 2
    BY PowerValues, SMT
  <2> HIDE DEF block, w
  <2>4. InBlock(a, block, 16) <=> (\A i \in 1 .. 1 : a[i] = w[i]) /\ a[1 + 1] \div 16 = w[1 + 1] \div 16
    BY <2>1, <2>3, SMT DEF InBlock
  <2>5. (\A i \in 1 .. 1 : a[i] = w[i]) <=> (a[1] = w[1])
    BY SMT
  <2>6. 1 + 1 = 2
    BY SMT
  <2>7. InBlock(a, block, 16) <=> (a[1] = 8193 /\ a[2] \div 16 = 2)
    BY <2>2, <2>3, <2>4, <2>5, <2>6, SMT
  <2> QED
    BY <2>7 DEF block, w
<1> QED
  BY <1>1, <1>2, <1>3, <1>4, <1>5


-----------------------------------------------------------------------------
LEMMA HeadIs ==
    ASSUME NEW a \in Seq(Nat), NEW w \in Seq(Nat), Len(w) <= Len(a)
    PROVE  SubSeq(a, 1, Len(w)) = w <=> \A i \in 1 .. Len(w) : a[i] = w[i]
<1> DEFINE m == Len(w)
           c == SubSeq(a, 1, m)
<1>1. m \in Nat /\ Len(a) \in Nat /\ m <= Len(a) /\ (\A i \in 1 .. Len(a) : a[i] \in Nat)
  BY LenProperties, ElementOfSeq
<1>2. 1 \in Int /\ m \in Int /\ \A i \in 1 .. m : a[i] \in Nat
  BY <1>1, SMT
<1>3. /\ c \in Seq(Nat) /\ Len(c) = (IF 1 <= m THEN m - 1 + 1 ELSE 0)
      /\ \A i \in 1 .. (m - 1 + 1) : c[i] = a[1 + i - 1]
  BY <1>2, SubSeqProperties
<1>4. Len(c) = m /\ \A i \in 1 .. m : c[i] = a[i]
  <2> HIDE DEF c, m
  <2> QED
    BY <1>1, <1>3, SMT
<1>5. ASSUME \A i \in 1 .. m : a[i] = w[i] PROVE c = w
  <2>1. \A i \in 1 .. Len(c) : c[i] = w[i]
    BY <1>4, <1>5
  <2> HIDE DEF c, m
  <2> QED
    BY <1>3, <1>4, <2>1, SeqEqual DEF m
<1> QED
  BY <1>4, <1>5

LEMMA AllOf ==
    ASSUME NEW P, NEW Q
    PROVE  /\ (\A i \in 1 .. 3 : P[i] = Q[i]) <=> (P[1] = Q[1] /\ P[2] = Q[2] /\ P[3] = Q[3])
           /\ (\A i \in 1 .. 4 : P[i] = Q[i]) <=> (P[1] = Q[1] /\ P[2] = Q[2] /\ P[3] = Q[3] /\ P[4] = Q[4])
           /\ (\A i \in 1 .. 6 : P[i] = Q[i]) <=> (P[1] = Q[1] /\ P[2] = Q[2] /\ P[3] = Q[3] /\ P[4] = Q[4]
                                                   /\ P[5] = Q[5] /\ P[6] = Q[6])
           /\ (\A i \in 1 .. 8 : P[i] = Q[i]) <=> (P[1] = Q[1] /\ P[2] = Q[2] /\ P[3] = Q[3] /\ P[4] = Q[4]
                                                   /\ P[5] = Q[5] /\ P[6] = Q[6] /\ P[7] = Q[7] /\ P[8] = Q[8])
<1>1. 1 .. 3 = {1, 2, 3} /\ 1 .. 4 = {1, 2, 3, 4}
  BY SMT
<1>2. 1 .. 6 = {1, 2, 3, 4, 5, 6} /\ 1 .. 8 = {1, 2, 3, 4, 5, 6, 7, 8}
  BY SMT
<1> QED
  BY <1>1, <1>2, SMT

LEMMA Head3 ==
    ASSUME NEW a \in Seq(Nat), Len(a) >= 3, NEW x \in Nat, NEW y \in Nat, NEW z \in Nat
    PROVE  SubSeq(a, 1, 3) = <<x, y, z>> <=> (a[1] = x /\ a[2] = y /\ a[3] = z)
<1> DEFINE w == <<x, y, z>>
<1>1. w \in Seq(Nat) /\ Len(w) = 3 /\ w[1] = x /\ w[2] = y /\ w[3] = z
  BY SMT
<1>2. Len(a) \in Nat
  BY LenProperties
<1> HIDE DEF w
<1>3. SubSeq(a, 1, Len(w)) = w <=> \A i \in 1 .. Len(w) : a[i] = w[i]
  <2>1. Len(w) <= Len(a)
    BY <1>1, <1>2, SMT
  <2> QED
    BY <1>1, <2>1, HeadIs
<1>4. SubSeq(a, 1, 3) = w <=> (a[1] = x /\ a[2] = y /\ a[3] = z)
  BY <1>1, <1>3, AllOf, SMT
<1> QED
  BY <1>4 DEF w

LEMMA Head4 ==
    ASSUME NEW a \in Seq(Nat), Len(a) >= 4, NEW x \in Nat, NEW y \in Nat, NEW z \in Nat, NEW u \in Nat
    PROVE  SubSeq(a, 1, 4) = <<x, y, z, u>> <=> (a[1] = x /\ a[2] = y /\ a[3] = z /\ a[4] = u)
<1> DEFINE w == <<x, y, z, u>>
<1>1. w \in Seq(Nat) /\ Len(w) = 4 /\ w[1] = x /\ w[2] = y /\ w[3] = z /\ w[4] = u
  BY SMT
<1>2. Len(a) \in Nat
  BY LenProperties
<1> HIDE DEF w
<1>3. SubSeq(a, 1, Len(w)) = w <=> \A i \in 1 .. Len(w) : a[i] = w[i]
  <2>1. Len(w) <= Len(a)
    BY <1>1, <1>2, SMT
  <2> QED
    BY <1>1, <2>1, HeadIs
<1>4. SubSeq(a, 1, 4) = w <=> (a[1] = x /\ a[2] = y /\ a[3] = z /\ a[4] = u)
  BY <1>1, <1>3, AllOf, SMT
<1> QED
  BY <1>4 DEF w

LEMMA Head6 ==
    ASSUME NEW a \in Seq(Nat), Len(a) >= 6, NEW w \in Seq(Nat), Len(w) = 6
    PROVE  SubSeq(a, 1, 6) = w <=> (a[1] = w[1] /\ a[2] = w[2] /\ a[3] = w[3] /\ a[4] = w[4] /\ a[5] = w[5] /\ a[6] = w[6])
<1>1. Len(w) <= Len(a)
  BY LenProperties, SMT
<1>2. SubSeq(a, 1, Len(w)) = w <=> \A i \in 1 .. Len(w) : a[i] = w[i]
  BY <1>1, HeadIs
<1> QED
  BY <1>2, AllOf, SMT

Same8(a, w) == /\ a[1] = w[1] /\ a[2] = w[2] /\ a[3] = w[3] /\ a[4] = w[4]
               /\ a[5] = w[5] /\ a[6] = w[6] /\ a[7] = w[7] /\ a[8] = w[8]
LEMMA Equal8 ==
    ASSUME NEW a \in Seq(Nat), Len(a) = 8, NEW w \in Seq(Nat), Len(w) = 8
    PROVE  a = w <=> Same8(a, w)
<1>1. (\A i \in 1 .. Len(a) : a[i] = w[i]) => a = w
  BY SeqEqual
<1> QED
  BY <1>1, AllOf, SMT DEF Same8

\* The conditions of is_ipv4_global, octet by octet.
NotGlobal4(a) ==
    \/ a[1] = 0 \/ a[1] = 10 \/ (a[1] = 172 /\ a[2] \div 16 = 1) \/ (a[1] = 192 /\ a[2] = 168)
    \/ (a[1] = 100 /\ a[2] \div 64 = 1) \/ a[1] = 127 \/ (a[1] = 169 /\ a[2] = 254)
    \/ (a[1] = 192 /\ a[2] = 0 /\ a[3] = 0 /\ a[4] # 9 /\ a[4] # 10)
    \/ (a[1] = 192 /\ a[2] = 0 /\ a[3] = 2)
    \/ (a[1] = 198 /\ a[2] = 51 /\ a[3] = 100)
    \/ (a[1] = 203 /\ a[2] = 0 /\ a[3] = 113)
    \/ (a[1] = 198 /\ a[2] \div 2 = 9) \/ a[1] \div 16 = 15

LEMMA Global4Is ==
    ASSUME NEW a \in Ipv4s
    PROVE  is_ipv4_global(a) <=> ~ NotGlobal4(a)
<1>1. a \in Seq(Octets) /\ Len(a) = 4
  BY DEF Ipv4s
<1>2. a[1] \in Octets /\ a[2] \in Octets /\ a[3] \in Octets /\ a[4] \in Octets
  <2>1. 1 \in 1 .. 4 /\ 2 \in 1 .. 4 /\ 3 \in 1 .. 4 /\ 4 \in 1 .. 4
    BY SMT
  <2> QED
    BY <1>1, <2>1, ElementOfSeq
<1>3. a \in Seq(Nat) /\ Len(a) >= 3
  <2>1. \A x \in Octets : x \in Nat
    BY SMT DEF Octets
  <2>2. a \in Seq(Nat)
    BY <1>1, <2>1, SMT
  <2> QED
    BY <1>1, <2>2, SMT
<1>4. is_documentation(a) <=> \/ a[1] = 192 /\ a[2] = 0 /\ a[3] = 2
                              \/ (a[1] = 198 /\ a[2] = 51 /\ a[3] = 100)
                              \/ (a[1] = 203 /\ a[2] = 0 /\ a[3] = 113)
  <2>0. 192 \in Nat /\ 0 \in Nat /\ 2 \in Nat /\ 198 \in Nat /\ 51 \in Nat /\ 100 \in Nat /\ 203 \in Nat /\ 113 \in Nat
    BY SMT
  <2>1. SubSeq(a, 1, 3) = <<192, 0, 2>> <=> a[1] = 192 /\ a[2] = 0 /\ a[3] = 2
    BY <1>3, <2>0, Head3, SMT
  <2>2. SubSeq(a, 1, 3) = <<198, 51, 100>> <=> a[1] = 198 /\ a[2] = 51 /\ a[3] = 100
    BY <1>3, <2>0, Head3, SMT
  <2>3. SubSeq(a, 1, 3) = <<203, 0, 113>> <=> a[1] = 203 /\ a[2] = 0 /\ a[3] = 113
    BY <1>3, <2>0, Head3, SMT
  <2> DEFINE s == SubSeq(a, 1, 3)
             x == <<192, 0, 2>>
             y == <<198, 51, 100>>
             z == <<203, 0, 113>>
  <2>4. is_documentation(a) <=> s \in {x, y, z}
    BY DEF is_documentation
  <2>5. is_documentation(a) <=> s = x \/ s = y \/ s = z
    <3> HIDE DEF s, x, y, z
    <3> QED
      BY <2>4
  <2> QED
    BY <2>1, <2>2, <2>3, <2>5, SMT
<1>5. is_private(a) <=> a[1] = 10 \/ (a[1] = 172 /\ a[2] \div 16 = 1) \/ (a[1] = 192 /\ a[2] = 168)
  <2>1. a[2] \in 16 .. 31 <=> a[2] \div 16 = 1
    BY <1>2, SMT DEF Octets
  <2> QED
    BY <2>1, SMT DEF is_private
<1>6. is_broadcast(a) => a[1] \div 16 = 15
  <2>1. is_broadcast(a) => a[1] = 255
    BY SMT DEF is_broadcast
  <2>2. 255 \div 16 = 15
    BY SMT
  <2> QED
    BY <2>1, <2>2
<1> DEFINE d == is_documentation(a)
           p == is_private(a)
           b == is_broadcast(a)
<1>7. is_ipv4_global(a) <=>
         ~ \/ a[1] = 0
           \/ p
           \/ (a[1] = 100 /\ a[2] \div 64 = 1)
           \/ a[1] = 127
           \/ (a[1] = 169 /\ a[2] = 254)
           \/ (a[1] = 192 /\ a[2] = 0 /\ a[3] = 0 /\ a[4] # 9 /\ a[4] # 10)
           \/ d
           \/ (a[1] = 198 /\ a[2] \div 2 = 9)
           \/ (a[1] \div 16 = 15 /\ ~ b)
           \/ b
  BY DEF is_ipv4_global
<1> HIDE DEF d, p, b
<1>8. is_ipv4_global(a) <=>
         ~ \/ a[1] = 0 \/ p \/ (a[1] = 100 /\ a[2] \div 64 = 1) \/ a[1] = 127
           \/ (a[1] = 169 /\ a[2] = 254)
           \/ (a[1] = 192 /\ a[2] = 0 /\ a[3] = 0 /\ a[4] # 9 /\ a[4] # 10)
           \/ d \/ (a[1] = 198 /\ a[2] \div 2 = 9) \/ a[1] \div 16 = 15
  BY <1>6, <1>7 DEF b
<1> QED
  BY <1>4, <1>5, <1>8, SMT DEF d, p, NotGlobal4

(* is_ipv4_global (nat/mod.rs), written octet by octet, calls an address      *)
(* public exactly when the special-purpose registry does, for every address. *)
THEOREM Public4 ==
    ASSUME NEW a \in Ipv4s
    PROVE  PublicAddress(a)
<1>1. Len(a) = 4
  BY DEF Ipv4s
<1>2. InSome(a, Again4, 8) <=> a[1] = 192 /\ a[2] = 0 /\ a[3] = 0 /\ (a[4] = 9 \/ a[4] = 10)
  <2> DEFINE x == <<<<192, 0, 0, 9>>, 32>>
             y == <<<<192, 0, 0, 10>>, 32>>
  <2>1. InSome(a, Again4, 8) <=> \E block \in {x, y} : InBlock(a, block, 8)
    BY DEF InSome, Again4
  <2>2. /\ InBlock(a, x, 8) <=> a[1] = 192 /\ a[2] = 0 /\ a[3] = 0 /\ a[4] = 9
        /\ InBlock(a, y, 8) <=> a[1] = 192 /\ a[2] = 0 /\ a[3] = 0 /\ a[4] = 10
    BY Again4Are
  <2> HIDE DEF x, y
  <2>3. InSome(a, Again4, 8) <=> InBlock(a, x, 8) \/ InBlock(a, y, 8)
    BY <2>1
  <2> QED
    BY <2>2, <2>3, SMT
<1>3. InSome(a, Blocks4, 8) <=>
         \/ a[1] = 0 \/ a[1] = 10 \/ (a[1] = 100 /\ a[2] \div 64 = 1) \/ a[1] = 127 \/ (a[1] = 169 /\ a[2] = 254)
         \/ (a[1] = 172 /\ a[2] \div 16 = 1) \/ (a[1] = 192 /\ a[2] = 0 /\ a[3] = 0)
         \/ (a[1] = 192 /\ a[2] = 0 /\ a[3] = 2) \/ (a[1] = 192 /\ a[2] = 168) \/ (a[1] = 198 /\ a[2] \div 2 = 9)
         \/ (a[1] = 198 /\ a[2] = 51 /\ a[3] = 100) \/ (a[1] = 203 /\ a[2] = 0 /\ a[3] = 113) \/ a[1] \div 16 = 15
  <2> DEFINE b1 == <<<<0>>, 8>>
             b2 == <<<<10>>, 8>>
             b3 == <<<<100, 64>>, 10>>
             b4 == <<<<127>>, 8>>
             b5 == <<<<169, 254>>, 16>>
             b6 == <<<<172, 16>>, 12>>
             b7 == <<<<192, 0, 0>>, 24>>
             b8 == <<<<192, 0, 2>>, 24>>
             b9 == <<<<192, 168>>, 16>>
             b10 == <<<<198, 18>>, 15>>
             b11 == <<<<198, 51, 100>>, 24>>
             b12 == <<<<203, 0, 113>>, 24>>
             b13 == <<<<240>>, 4>>
  <2>1. InSome(a, Blocks4, 8) <=>
           \E block \in {b1, b2, b3, b4, b5, b6, b7, b8, b9, b10, b11, b12, b13} : InBlock(a, block, 8)
    BY DEF InSome, Blocks4
  <2>2. /\ InBlock(a, b1, 8) <=> a[1] = 0
        /\ InBlock(a, b2, 8) <=> a[1] = 10
        /\ InBlock(a, b3, 8) <=> a[1] = 100 /\ a[2] \div 64 = 1
        /\ InBlock(a, b4, 8) <=> a[1] = 127
        /\ InBlock(a, b5, 8) <=> a[1] = 169 /\ a[2] = 254
        /\ InBlock(a, b6, 8) <=> a[1] = 172 /\ a[2] \div 16 = 1
        /\ InBlock(a, b7, 8) <=> a[1] = 192 /\ a[2] = 0 /\ a[3] = 0
        /\ InBlock(a, b8, 8) <=> a[1] = 192 /\ a[2] = 0 /\ a[3] = 2
        /\ InBlock(a, b9, 8) <=> a[1] = 192 /\ a[2] = 168
        /\ InBlock(a, b10, 8) <=> a[1] = 198 /\ a[2] \div 2 = 9
        /\ InBlock(a, b11, 8) <=> a[1] = 198 /\ a[2] = 51 /\ a[3] = 100
        /\ InBlock(a, b12, 8) <=> a[1] = 203 /\ a[2] = 0 /\ a[3] = 113
        /\ InBlock(a, b13, 8) <=> a[1] \div 16 = 15
    BY Blocks4Are
  <2> HIDE DEF b1, b2, b3, b4, b5, b6, b7, b8, b9, b10, b11, b12, b13
  <2>3. InSome(a, Blocks4, 8) <=>
           \/ InBlock(a, b1, 8) \/ InBlock(a, b2, 8) \/ InBlock(a, b3, 8) \/ InBlock(a, b4, 8) \/ InBlock(a, b5, 8)
           \/ InBlock(a, b6, 8) \/ InBlock(a, b7, 8) \/ InBlock(a, b8, 8) \/ InBlock(a, b9, 8) \/ InBlock(a, b10, 8)
           \/ InBlock(a, b11, 8) \/ InBlock(a, b12, 8) \/ InBlock(a, b13, 8)
    BY <2>1
  <2> QED
    BY <2>2, <2>3, SMT
<1>4. is_ipv4_global(a) <=> (InSome(a, Again4, 8) \/ ~ InSome(a, Blocks4, 8))
  <2>1. a[1] \in Int
    <3>1. 1 \in 1 .. 4 /\ a \in Seq(Octets)
      BY SMT DEF Ipv4s
    <3>2. a[1] \in Octets
      BY <1>1, <3>1, ElementOfSeq
    <3> QED
      BY <3>2, SMT DEF Octets
  <2> QED
    BY <1>2, <1>3, <2>1, Global4Is, SMT DEF NotGlobal4
<1>5. is_ipv4_global(a) \in BOOLEAN /\ InSome(a, Again4, 8) \in BOOLEAN /\ InSome(a, Blocks4, 8) \in BOOLEAN
  BY DEF is_ipv4_global, InSome
<1>6. is_ipv4_global(a) = (InSome(a, Again4, 8) \/ ~ InSome(a, Blocks4, 8))
  BY <1>4, <1>5, Zenon
<1> QED
  BY <1>1, <1>6 DEF PublicAddress

\* The conditions of is_ipv6_global, segment by segment.
NotGlobal6(a) ==
    \/ (a[1] = 0 /\ a[2] = 0 /\ a[3] = 0 /\ a[4] = 0 /\ a[5] = 0 /\ a[6] = 0 /\ a[7] = 0 /\ a[8] = 0)
    \/ (a[1] = 0 /\ a[2] = 0 /\ a[3] = 0 /\ a[4] = 0 /\ a[5] = 0 /\ a[6] = 0 /\ a[7] = 0 /\ a[8] = 1)
    \/ (a[1] = 0 /\ a[2] = 0 /\ a[3] = 0 /\ a[4] = 0 /\ a[5] = 0 /\ a[6] = 65535)
    \/ (a[1] = 100 /\ a[2] = 65435 /\ a[3] = 1)
    \/ (a[1] = 256 /\ a[2] = 0 /\ a[3] = 0 /\ a[4] = 0)
    \/ /\ a[1] = 8193 /\ a[2] \div 512 = 0
       /\ ~ \/ (a[1] = 8193 /\ a[2] = 1 /\ a[3] = 0 /\ a[4] = 0 /\ a[5] = 0 /\ a[6] = 0 /\ a[7] = 0 /\ a[8] = 1)
            \/ (a[1] = 8193 /\ a[2] = 1 /\ a[3] = 0 /\ a[4] = 0 /\ a[5] = 0 /\ a[6] = 0 /\ a[7] = 0 /\ a[8] = 2)
            \/ a[2] = 3
            \/ (a[2] = 4 /\ a[3] = 274)
            \/ a[2] \div 16 = 2
    \/ (a[1] = 8193 /\ a[2] = 3512)
    \/ a[1] \div 512 = 126
    \/ a[1] \div 64 = 1018

LEMMA Global6Is ==
    ASSUME NEW a \in Ipv6s
    PROVE  is_ipv6_global(a) <=> ~ NotGlobal6(a)
<1>1. a \in Seq(Segments) /\ Len(a) = 8
  BY DEF Ipv6s
<1>2. a[2] \in Nat
  <2>1. 2 \in 1 .. 8
    BY SMT
  <2>2. a[2] \in Segments
    BY <1>1, <2>1, ElementOfSeq
  <2> QED
    BY <2>2 DEF Segments
<1>3. a \in Seq(Nat)
  <2>1. \A x \in Segments : x \in Nat
    BY DEF Segments
  <2> QED
    BY <1>1, <2>1, SMT
<1> DEFINE z == <<0, 0, 0, 0, 0, 0, 0, 0>>
           l == <<0, 0, 0, 0, 0, 0, 0, 1>>
           m == <<0, 0, 0, 0, 0, 65535>>
           p == <<8193, 1, 0, 0, 0, 0, 0, 1>>
           q == <<8193, 1, 0, 0, 0, 0, 0, 2>>
<1>4. /\ z \in Seq(Nat) /\ Len(z) = 8 /\ z[1] = 0 /\ z[2] = 0 /\ z[3] = 0 /\ z[4] = 0 /\ z[5] = 0 /\ z[6] = 0 /\ z[7] = 0 /\ z[8] = 0
  BY SMT
<1>5. /\ l \in Seq(Nat) /\ Len(l) = 8 /\ l[1] = 0 /\ l[2] = 0 /\ l[3] = 0 /\ l[4] = 0 /\ l[5] = 0 /\ l[6] = 0 /\ l[7] = 0 /\ l[8] = 1
  BY SMT
<1>6. /\ m \in Seq(Nat) /\ Len(m) = 6 /\ m[1] = 0 /\ m[2] = 0 /\ m[3] = 0 /\ m[4] = 0 /\ m[5] = 0 /\ m[6] = 65535
  BY SMT
<1>7. /\ p \in Seq(Nat) /\ Len(p) = 8 /\ p[1] = 8193 /\ p[2] = 1 /\ p[3] = 0 /\ p[4] = 0 /\ p[5] = 0 /\ p[6] = 0 /\ p[7] = 0 /\ p[8] = 1
  BY SMT
<1>8. /\ q \in Seq(Nat) /\ Len(q) = 8 /\ q[1] = 8193 /\ q[2] = 1 /\ q[3] = 0 /\ q[4] = 0 /\ q[5] = 0 /\ q[6] = 0 /\ q[7] = 0 /\ q[8] = 2
  BY SMT
<1>9. is_ipv6_global(a) <=>
         ~ \/ a = z \/ a = l
           \/ SubSeq(a, 1, 6) = m
           \/ SubSeq(a, 1, 3) = <<100, 65435, 1>>
           \/ SubSeq(a, 1, 4) = <<256, 0, 0, 0>>
           \/ /\ a[1] = 8193 /\ a[2] < 512
              /\ ~ \/ a \in {p, q}
                   \/ a[2] = 3
                   \/ (a[2] = 4 /\ a[3] = 274)
                   \/ a[2] \in 32 .. 47
           \/ (a[1] = 8193 /\ a[2] = 3512)
           \/ a[1] \div 512 = 126
           \/ a[1] \div 64 = 1018
  BY SMT DEF is_ipv6_global
<1> HIDE DEF z, l, m, p, q
<1>10. a = z <=> (a[1] = 0 /\ a[2] = 0 /\ a[3] = 0 /\ a[4] = 0 /\ a[5] = 0 /\ a[6] = 0 /\ a[7] = 0 /\ a[8] = 0)
  <2>1. a = z <=> Same8(a, z)
    BY <1>1, <1>3, <1>4, Equal8
  <2> QED
    BY <1>4, <2>1, SMT DEF Same8
<1>11. a = l <=> (a[1] = 0 /\ a[2] = 0 /\ a[3] = 0 /\ a[4] = 0 /\ a[5] = 0 /\ a[6] = 0 /\ a[7] = 0 /\ a[8] = 1)
  <2>1. a = l <=> Same8(a, l)
    BY <1>1, <1>3, <1>5, Equal8
  <2> QED
    BY <1>5, <2>1, SMT DEF Same8
<1>12. SubSeq(a, 1, 6) = m <=> (a[1] = 0 /\ a[2] = 0 /\ a[3] = 0 /\ a[4] = 0 /\ a[5] = 0 /\ a[6] = 65535)
  BY <1>1, <1>3, <1>6, Head6, SMT
<1>13. a = p <=> (a[1] = 8193 /\ a[2] = 1 /\ a[3] = 0 /\ a[4] = 0 /\ a[5] = 0 /\ a[6] = 0 /\ a[7] = 0 /\ a[8] = 1)
  <2>1. a = p <=> Same8(a, p)
    BY <1>1, <1>3, <1>7, Equal8
  <2> QED
    BY <1>7, <2>1, SMT DEF Same8
<1>14. a = q <=> (a[1] = 8193 /\ a[2] = 1 /\ a[3] = 0 /\ a[4] = 0 /\ a[5] = 0 /\ a[6] = 0 /\ a[7] = 0 /\ a[8] = 2)
  <2>1. a = q <=> Same8(a, q)
    BY <1>1, <1>3, <1>8, Equal8
  <2> QED
    BY <1>8, <2>1, SMT DEF Same8
<1>15. SubSeq(a, 1, 3) = <<100, 65435, 1>> <=> (a[1] = 100 /\ a[2] = 65435 /\ a[3] = 1)
  <2>1. 100 \in Nat /\ 65435 \in Nat /\ 1 \in Nat /\ Len(a) >= 3
    BY <1>1, SMT
  <2> QED
    BY <1>3, <2>1, Head3, SMT
<1>16. SubSeq(a, 1, 4) = <<256, 0, 0, 0>> <=> (a[1] = 256 /\ a[2] = 0 /\ a[3] = 0 /\ a[4] = 0)
  <2>1. 256 \in Nat /\ 0 \in Nat /\ Len(a) >= 4
    BY <1>1, SMT
  <2> QED
    BY <1>3, <2>1, Head4, SMTT(60)
<1>17. (a[2] < 512 <=> a[2] \div 512 = 0) /\ (a[2] \in 32 .. 47 <=> a[2] \div 16 = 2)
  BY <1>2, SMT
<1>18. a \in {p, q} <=> a = p \/ a = q
  OBVIOUS
<1> QED
  BY <1>9, <1>10, <1>11, <1>12, <1>13, <1>14, <1>15, <1>16, <1>17, <1>18, SMT DEF NotGlobal6

(* is_ipv6_global (nat/mod.rs), written segment by segment, calls an address  *)
(* public exactly when the special-purpose registry does, for every address. *)
THEOREM Public6 ==
    ASSUME NEW a \in Ipv6s
    PROVE  PublicAddress(a)
<1>1. Len(a) # 4
  BY SMTT(60) DEF Ipv6s
<1>2. InSome(a, Again6, 16) <=>
         \/ (a[1] = 8193 /\ a[2] = 1 /\ a[3] = 0 /\ a[4] = 0 /\ a[5] = 0 /\ a[6] = 0 /\ a[7] = 0 /\ a[8] = 1)
         \/ (a[1] = 8193 /\ a[2] = 1 /\ a[3] = 0 /\ a[4] = 0 /\ a[5] = 0 /\ a[6] = 0 /\ a[7] = 0 /\ a[8] = 2)
         \/ (a[1] = 8193 /\ a[2] = 3)
         \/ (a[1] = 8193 /\ a[2] = 4 /\ a[3] = 274)
         \/ (a[1] = 8193 /\ a[2] \div 16 = 2)
  <2> DEFINE b1 == <<<<8193, 1, 0, 0, 0, 0, 0, 1>>, 128>>
             b2 == <<<<8193, 1, 0, 0, 0, 0, 0, 2>>, 128>>
             b3 == <<<<8193, 3>>, 32>>
             b4 == <<<<8193, 4, 274>>, 48>>
             b5 == <<<<8193, 32>>, 28>>
  <2>1. InSome(a, Again6, 16) <=>
           \E block \in {b1, b2, b3, b4, b5} : InBlock(a, block, 16)
    BY DEF InSome, Again6
  <2>2. /\ InBlock(a, b1, 16) <=> (a[1] = 8193 /\ a[2] = 1 /\ a[3] = 0 /\ a[4] = 0 /\ a[5] = 0 /\ a[6] = 0 /\ a[7] = 0 /\ a[8] = 1)
        /\ InBlock(a, b2, 16) <=> (a[1] = 8193 /\ a[2] = 1 /\ a[3] = 0 /\ a[4] = 0 /\ a[5] = 0 /\ a[6] = 0 /\ a[7] = 0 /\ a[8] = 2)
        /\ InBlock(a, b3, 16) <=> (a[1] = 8193 /\ a[2] = 3)
        /\ InBlock(a, b4, 16) <=> (a[1] = 8193 /\ a[2] = 4 /\ a[3] = 274)
        /\ InBlock(a, b5, 16) <=> (a[1] = 8193 /\ a[2] \div 16 = 2)
    BY Again6Are, SMT
  <2> HIDE DEF b1, b2, b3, b4, b5
  <2>3. InSome(a, Again6, 16) <=>
           \/ InBlock(a, b1, 16) \/ InBlock(a, b2, 16) \/ InBlock(a, b3, 16) \/ InBlock(a, b4, 16) \/ InBlock(a, b5, 16)
    BY <2>1
  <2> QED
    BY <2>2, <2>3, SMT
<1>3. InSome(a, Blocks6, 16) <=>
         \/ (a[1] = 0 /\ a[2] = 0 /\ a[3] = 0 /\ a[4] = 0 /\ a[5] = 0 /\ a[6] = 0 /\ a[7] = 0 /\ a[8] = 0)
         \/ (a[1] = 0 /\ a[2] = 0 /\ a[3] = 0 /\ a[4] = 0 /\ a[5] = 0 /\ a[6] = 0 /\ a[7] = 0 /\ a[8] = 1)
         \/ (a[1] = 0 /\ a[2] = 0 /\ a[3] = 0 /\ a[4] = 0 /\ a[5] = 0 /\ a[6] = 65535)
         \/ (a[1] = 100 /\ a[2] = 65435 /\ a[3] = 1)
         \/ (a[1] = 256 /\ a[2] = 0 /\ a[3] = 0 /\ a[4] = 0)
         \/ (a[1] = 8193 /\ a[2] \div 512 = 0)
         \/ (a[1] = 8193 /\ a[2] = 3512)
         \/ (a[1] \div 512 = 126)
         \/ (a[1] \div 64 = 1018)
  <2> DEFINE b1 == <<<<0, 0, 0, 0, 0, 0, 0, 0>>, 128>>
             b2 == <<<<0, 0, 0, 0, 0, 0, 0, 1>>, 128>>
             b3 == <<<<0, 0, 0, 0, 0, 65535>>, 96>>
             b4 == <<<<100, 65435, 1>>, 48>>
             b5 == <<<<256, 0, 0, 0>>, 64>>
             b6 == <<<<8193, 0>>, 23>>
             b7 == <<<<8193, 3512>>, 32>>
             b8 == <<<<64512>>, 7>>
             b9 == <<<<65152>>, 10>>
  <2>1. InSome(a, Blocks6, 16) <=>
           \E block \in {b1, b2, b3, b4, b5, b6, b7, b8, b9} : InBlock(a, block, 16)
    BY DEF InSome, Blocks6
  <2>2. /\ InBlock(a, b1, 16) <=> (a[1] = 0 /\ a[2] = 0 /\ a[3] = 0 /\ a[4] = 0 /\ a[5] = 0 /\ a[6] = 0 /\ a[7] = 0 /\ a[8] = 0)
        /\ InBlock(a, b2, 16) <=> (a[1] = 0 /\ a[2] = 0 /\ a[3] = 0 /\ a[4] = 0 /\ a[5] = 0 /\ a[6] = 0 /\ a[7] = 0 /\ a[8] = 1)
        /\ InBlock(a, b3, 16) <=> (a[1] = 0 /\ a[2] = 0 /\ a[3] = 0 /\ a[4] = 0 /\ a[5] = 0 /\ a[6] = 65535)
        /\ InBlock(a, b4, 16) <=> (a[1] = 100 /\ a[2] = 65435 /\ a[3] = 1)
        /\ InBlock(a, b5, 16) <=> (a[1] = 256 /\ a[2] = 0 /\ a[3] = 0 /\ a[4] = 0)
        /\ InBlock(a, b6, 16) <=> (a[1] = 8193 /\ a[2] \div 512 = 0)
        /\ InBlock(a, b7, 16) <=> (a[1] = 8193 /\ a[2] = 3512)
        /\ InBlock(a, b8, 16) <=> (a[1] \div 512 = 126)
        /\ InBlock(a, b9, 16) <=> (a[1] \div 64 = 1018)
    BY Blocks6Are, SMT
  <2> HIDE DEF b1, b2, b3, b4, b5, b6, b7, b8, b9
  <2>3. InSome(a, Blocks6, 16) <=>
           \/ InBlock(a, b1, 16) \/ InBlock(a, b2, 16) \/ InBlock(a, b3, 16) \/ InBlock(a, b4, 16) \/ InBlock(a, b5, 16) \/ InBlock(a, b6, 16) \/ InBlock(a, b7, 16) \/ InBlock(a, b8, 16) \/ InBlock(a, b9, 16)
    BY <2>1
  <2> QED
    BY <2>2, <2>3, SMT
<1>4. is_ipv6_global(a) <=> (InSome(a, Again6, 16) \/ ~ InSome(a, Blocks6, 16))
  <2>1. a[1] \in Nat /\ a[2] \in Nat
    <3>1. 1 \in 1 .. 8 /\ 2 \in 1 .. 8 /\ a \in Seq(Segments) /\ Len(a) = 8
      BY SMT DEF Ipv6s
    <3>2. a[1] \in Segments /\ a[2] \in Segments
      BY <3>1, ElementOfSeq
    <3> QED
      BY <3>2 DEF Segments
  <2>2. 1 \div 512 = 0 /\ 3 \div 512 = 0 /\ 4 \div 512 = 0 /\ 3512 \div 16 = 219 /\ 8193 \div 512 = 16 /\ 8193 \div 64 = 128
    BY SMT
  <2>3. a[2] \div 16 = 2 => a[2] \div 512 = 0
    BY <2>1, SMT
  <2> QED
    BY <1>2, <1>3, <2>1, <2>2, <2>3, Global6Is, SMT DEF NotGlobal6
<1>5. is_ipv6_global(a) \in BOOLEAN /\ InSome(a, Again6, 16) \in BOOLEAN /\ InSome(a, Blocks6, 16) \in BOOLEAN
  BY SMT DEF is_ipv6_global, InSome
<1>6. is_ipv6_global(a) = (InSome(a, Again6, 16) \/ ~ InSome(a, Blocks6, 16))
  BY <1>4, <1>5, Zenon
<1> QED
  BY <1>1, <1>6 DEF PublicAddress

-----------------------------------------------------------------------------
\* k is what is left of the first i elements of s, of which those in good are kept.
KeptOf(k, s, good, i) ==
    /\ \A x : x \in ToSet(k) <=> \E j \in 1 .. i : s[j] = x /\ x \in good
    /\ (\A j \in 1 .. i : s[j] \in good) => Len(k) = i /\ \A j \in 1 .. i : k[j] = s[j]

LEMMA AppendFacts ==
    ASSUME NEW T, NEW k \in Seq(T), NEW e \in T
    PROVE  /\ Append(k, e) \in Seq(T) /\ Len(k) \in Nat /\ Len(Append(k, e)) = Len(k) + 1
           /\ \A j \in 1 .. Len(k) : Append(k, e)[j] = k[j]
           /\ Append(k, e)[Len(k) + 1] = e
           /\ \A x : x \in ToSet(Append(k, e)) <=> x \in ToSet(k) \/ x = e
<1> DEFINE a == Append(k, e)
           n == Len(k)
<1>1. a \in Seq(T) /\ n \in Nat /\ Len(a) = n + 1 /\ DOMAIN a = 1 .. n + 1 /\ DOMAIN k = 1 .. n
  OBVIOUS
<1>2. (\A j \in 1 .. n : a[j] = k[j]) /\ a[n + 1] = e
  OBVIOUS
<1> HIDE DEF a, n
<1>3. \A x : x \in ToSet(a) <=> \E j \in 1 .. n + 1 : a[j] = x
  BY <1>1 DEF ToSet
<1>4. \A x : x \in ToSet(k) <=> \E j \in 1 .. n : k[j] = x
  BY <1>1 DEF ToSet
<1>5. \A j : j \in 1 .. n + 1 <=> j \in 1 .. n \/ j = n + 1
  BY <1>1
<1>6. \A x : x \in ToSet(a) <=> x \in ToSet(k) \/ x = e
  BY <1>2, <1>3, <1>4, <1>5, Zenon
<1> QED
  BY <1>1, <1>2, <1>6 DEF a, n

LEMMA KeptStep ==
    ASSUME NEW T, NEW s \in Seq(T), NEW good, NEW i \in Nat, i + 1 \in 1 .. Len(s),
           NEW k \in Seq(T), KeptOf(k, s, good, i), NEW l,
           l = IF s[i + 1] \in good THEN Append(k, s[i + 1]) ELSE k
    PROVE  l \in Seq(T) /\ KeptOf(l, s, good, i + 1)
<1> DEFINE e == s[i + 1]
<1>1. e \in T
  OBVIOUS
<1>2. \A j : j \in 1 .. i + 1 <=> j \in 1 .. i \/ j = i + 1
  OBVIOUS
<1>0. s[i + 1] = e
  OBVIOUS
<1> HIDE DEF e
<1>3. CASE e \in good
  <2>1. l = Append(k, e)
    BY <1>0, <1>3
  <2>2. /\ l \in Seq(T) /\ Len(l) = Len(k) + 1 /\ Len(k) \in Nat
        /\ \A j \in 1 .. Len(k) : l[j] = k[j]
        /\ l[Len(k) + 1] = e
        /\ \A x : x \in ToSet(l) <=> x \in ToSet(k) \/ x = e
    BY <1>1, <2>1, AppendFacts
  <2>3. \A x : x \in ToSet(l) <=> \E j \in 1 .. i + 1 : s[j] = x /\ x \in good
    BY <1>0, <1>2, <1>3, <2>2, Zenon DEF KeptOf
  <2>4. ASSUME \A j \in 1 .. i + 1 : s[j] \in good
        PROVE  Len(l) = i + 1 /\ \A j \in 1 .. i + 1 : l[j] = s[j]
    <3>1. \A j \in 1 .. i : s[j] \in good
      BY <1>2, <2>4
    <3>2. Len(k) = i /\ \A j \in 1 .. i : k[j] = s[j]
      BY <3>1 DEF KeptOf
    <3> QED
      BY <1>0, <1>2, <2>2, <3>2
  <2> QED
    BY <2>2, <2>3, <2>4 DEF KeptOf
<1>4. CASE e \notin good
  <2>1. l = k
    BY <1>0, <1>4
  <2>2. \A x : x \in ToSet(l) <=> \E j \in 1 .. i + 1 : s[j] = x /\ x \in good
    BY <1>0, <1>2, <1>4, <2>1, Zenon DEF KeptOf
  <2>3. ~ \A j \in 1 .. i + 1 : s[j] \in good
    BY <1>0, <1>2, <1>4, Zenon
  <2> QED
    BY <2>1, <2>2, <2>3 DEF KeptOf
<1> QED
  BY <1>3, <1>4

LEMMA KeptIs ==
    ASSUME NEW T, NEW s \in Seq(T), NEW good
    PROVE  Kept(s, good) \in Seq(T) /\ KeptOf(Kept(s, good), s, good, Len(s))
<1> DEFINE n == Len(s)
           S == Seq(T)
           G(i, k) == IF s[i] \in good THEN Append(k, s[i]) ELSE k
           kept == CHOOSE f : f = [i \in 0 .. n |-> IF i = 0 THEN << >> ELSE G(i, f[i - 1])]
<1>1. n \in Nat /\ << >> \in S /\ \A i \in 1 .. n : s[i] \in T
  OBVIOUS
<1>2. Kept(s, good) = kept[n]
  BY DEF Kept
<1>3. ASSUME NEW i \in 1 .. n, NEW k \in S PROVE G(i, k) \in S
  BY <1>1
<1> DEFINE g == [p \in Nat \X S |-> IF p[1] \in 1 .. n THEN G(p[1], p[2]) ELSE << >>]
<1>4. g \in [Nat \X S -> S]
  <2> HIDE DEF G, S, n
  <2> QED
    BY <1>1, <1>3
<1>5. PICK f : IsRun(f, n, << >>, g, S)
  <2> HIDE DEF g, S, n
  <2> QED
    BY <1>1, <1>4, RunExists
<1>6. f = [i \in 0 .. n |-> IF i = 0 THEN << >> ELSE G(i, f[i - 1])]
  <2>1. f \in [0 .. n -> S] /\ f[0] = << >>
    BY <1>5 DEF IsRun
  <2>2. \A i \in 1 .. n : f[i] = g[<<i, f[i - 1]>>]
    BY <1>5 DEF IsRun
  <2>3. \A i \in 1 .. n : f[i] = G(i, f[i - 1])
    <3> SUFFICES ASSUME NEW i \in 1 .. n PROVE f[i] = G(i, f[i - 1])
      OBVIOUS
    <3>1. i \in Nat /\ i - 1 \in 0 .. n
      BY <1>1
    <3> HIDE DEF S, G, n
    <3>2. f[i - 1] \in S
      BY <2>1, <3>1
    <3> QED
      BY <2>2, <3>1, <3>2
  <2> HIDE DEF S, G, n
  <2> QED
    BY <1>1, <2>1, <2>3
<1>7. kept = [i \in 0 .. n |-> IF i = 0 THEN << >> ELSE G(i, kept[i - 1])]
  <2> HIDE DEF S, G, n
  <2> QED
    BY <1>6
<1> HIDE DEF kept, g
<1> DEFINE N == {i \in Nat : i \in 0 .. n => kept[i] \in Seq(T) /\ KeptOf(kept[i], s, good, i)}
<1>8. 0 \in N
  <2>1. kept[0] = << >>
    <3> HIDE DEF G
    <3> QED
      BY <1>1, <1>7
  <2>2. KeptOf(<< >>, s, good, 0)
    <3>1. ToSet(<< >>) = {}
      BY DEF ToSet
    <3> QED
      BY <3>1 DEF KeptOf
  <2>3. << >> \in Seq(T)
    OBVIOUS
  <2> QED
    BY <2>1, <2>2, <2>3
<1>9. ASSUME NEW i \in N PROVE i + 1 \in N
  <2> SUFFICES ASSUME i + 1 \in 0 .. n PROVE kept[i + 1] \in Seq(T) /\ KeptOf(kept[i + 1], s, good, i + 1)
    OBVIOUS
  <2>1. i \in Nat /\ i \in 0 .. n /\ i + 1 \in 1 .. Len(s) /\ i + 1 # 0 /\ (i + 1) - 1 = i
    BY <1>1
  <2>2. kept[i + 1] = IF s[i + 1] \in good THEN Append(kept[i], s[i + 1]) ELSE kept[i]
    BY <1>7, <2>1
  <2>3. kept[i] \in Seq(T) /\ KeptOf(kept[i], s, good, i)
    BY <2>1
  <2> QED
    BY <2>1, <2>2, <2>3, KeptStep
<1>10. N = Nat
  <2> HIDE DEF N
  <2>1. N \in SUBSET Nat
    BY DEF N
  <2> QED
    BY <1>8, <1>9, <2>1, SetInduction
<1> QED
  BY <1>1, <1>2, <1>10

(* Vec::retain: what it leaves is in the list and kept, and a list with      *)
(* nothing to drop is left as it is.                                        *)
LEMMA KeptFacts ==
    ASSUME NEW T, NEW s \in Seq(T), NEW good
    PROVE  /\ Kept(s, good) \in Seq(T)
           /\ \A x : x \in ToSet(Kept(s, good)) <=> x \in ToSet(s) /\ x \in good
           /\ (\A j \in DOMAIN s : s[j] \in good) => Kept(s, good) = s
<1> DEFINE k == Kept(s, good)
<1>1. k \in Seq(T) /\ KeptOf(k, s, good, Len(s))
  BY KeptIs
<1>2. DOMAIN s = 1 .. Len(s)
  OBVIOUS
<1> HIDE DEF k
<1>3. \A x : x \in ToSet(k) <=> x \in ToSet(s) /\ x \in good
  BY <1>1, <1>2, Zenon DEF KeptOf, ToSet
<1>4. (\A j \in DOMAIN s : s[j] \in good) => k = s
  <2> SUFFICES ASSUME \A j \in DOMAIN s : s[j] \in good PROVE k = s
    OBVIOUS
  <2>1. Len(k) = Len(s) /\ \A j \in 1 .. Len(k) : k[j] = s[j]
    BY <1>1, <1>2, Zenon DEF KeptOf
  <2> QED
    BY <1>1, <2>1, SeqEqual
<1> QED
  BY <1>1, <1>3, <1>4 DEF k

-----------------------------------------------------------------------------
NatInfos ==
    [public_ips : Seq(Ipv4s), public_ports : Seq(Nat), range : Nat, local_ipv4 : Ipv4s \cup {NO_ADDR},
     ipv6 : Ipv6s \cup {NO_ADDR}, udp_ports : Seq(Nat), tcp_port : Nat, nat_type : {"Cone", "Symmetric"}]

\* A peer that has been cleaned of the addresses of net and of port 0.
IsClean(p, peer, net) ==
    /\ p.public_ips \in Seq(Ipv4s)
    /\ \A ip : ip \in ToSet(p.public_ips) <=> ip \in ToSet(peer.public_ips) /\ is_ipv4_global(ip) /\ ip \notin net
    /\ p.public_ports \in Seq(Nat) /\ 0 \notin ToSet(p.public_ports)
    /\ (\A j \in DOMAIN peer.public_ports : peer.public_ports[j] # 0) => p.public_ports = peer.public_ports
    /\ p.udp_ports \in Seq(Nat) /\ 0 \notin ToSet(p.udp_ports)
    /\ p.local_ipv4 \in Ipv4s \cup {NO_ADDR} /\ (p.local_ipv4 # NO_ADDR => p.local_ipv4 \notin net)
    /\ p.ipv6 = peer.ipv6 /\ p.ipv6 \in Ipv6s \cup {NO_ADDR}
    /\ p.nat_type = peer.nat_type

LEMMA CleanedIsClean ==
    ASSUME NEW peer \in NatInfos, NEW net
    PROVE  IsClean(Cleaned(peer, net), peer, net)
<1> DEFINE p == Cleaned(peer, net)
           ips == peer.public_ips
           ports == peer.public_ports
           udp == peer.udp_ports
           ok == {ip \in ToSet(ips) : is_ipv4_global(ip) /\ ip \notin net}
<1>1. /\ ips \in Seq(Ipv4s) /\ ports \in Seq(Nat) /\ udp \in Seq(Nat)
      /\ peer.local_ipv4 \in Ipv4s \cup {NO_ADDR} /\ peer.ipv6 \in Ipv6s \cup {NO_ADDR}
  BY DEF NatInfos
<1>2. /\ p.public_ips = Kept(ips, ok)
      /\ p.public_ports = Kept(ports, ToSet(ports) \ {0})
      /\ p.udp_ports = Kept(udp, ToSet(udp) \ {0})
      /\ p.local_ipv4 = IF peer.local_ipv4 \in net THEN NO_ADDR ELSE peer.local_ipv4
      /\ p.ipv6 = peer.ipv6 /\ p.nat_type = peer.nat_type
  BY DEF Cleaned, NatInfos
<1> HIDE DEF p, ips, ports, udp
<1>3. /\ p.public_ips \in Seq(Ipv4s)
      /\ \A ip : ip \in ToSet(p.public_ips) <=> ip \in ToSet(ips) /\ ip \in ok
  <2> HIDE DEF ok
  <2> QED
    BY <1>1, <1>2, KeptFacts
<1>4. /\ p.public_ports \in Seq(Nat)
      /\ \A x : x \in ToSet(p.public_ports) <=> x \in ToSet(ports) /\ x \in ToSet(ports) \ {0}
      /\ (\A j \in DOMAIN ports : ports[j] \in ToSet(ports) \ {0}) => p.public_ports = ports
  <2> DEFINE good == ToSet(ports) \ {0}
  <2>1. p.public_ports = Kept(ports, good)
    BY <1>2
  <2> HIDE DEF good
  <2>2. /\ p.public_ports \in Seq(Nat)
        /\ \A x : x \in ToSet(p.public_ports) <=> x \in ToSet(ports) /\ x \in good
        /\ (\A j \in DOMAIN ports : ports[j] \in good) => p.public_ports = ports
    BY <1>1, <2>1, KeptFacts
  <2> QED
    BY <2>2 DEF good
<1>5. /\ p.udp_ports \in Seq(Nat)
      /\ \A x : x \in ToSet(p.udp_ports) <=> x \in ToSet(udp) /\ x \in ToSet(udp) \ {0}
  <2> DEFINE good == ToSet(udp) \ {0}
  <2>1. p.udp_ports = Kept(udp, good)
    BY <1>2
  <2> HIDE DEF good
  <2>2. /\ p.udp_ports \in Seq(Nat)
        /\ \A x : x \in ToSet(p.udp_ports) <=> x \in ToSet(udp) /\ x \in good
    BY <1>1, <2>1, KeptFacts
  <2> QED
    BY <2>2 DEF good
<1>6. \A ip : ip \in ToSet(p.public_ips) <=> ip \in ToSet(ips) /\ is_ipv4_global(ip) /\ ip \notin net
  BY <1>3
<1>7. (\A j \in DOMAIN ports : ports[j] # 0) => p.public_ports = ports
  <2>1. \A j \in DOMAIN ports : ports[j] \in ToSet(ports)
    BY DEF ToSet
  <2> QED
    BY <1>4, <2>1
<1>8. 0 \notin ToSet(p.public_ports) /\ 0 \notin ToSet(p.udp_ports)
  BY <1>4, <1>5
<1> QED
  BY <1>1, <1>2, <1>3, <1>4, <1>5, <1>6, <1>7, <1>8 DEF IsClean, p, ips, ports

\* What is asked of one target.
Sensible(t, m, me, net) ==
    /\ t.port # 0 /\ (Len(t.ip) = 8 \/ t.ip \notin net)
    /\ t.ip \in {me.local_ipv4, me.ipv6} =>
         IF t.tcp THEN t.port # me.tcp_port ELSE t.port \notin ToSet(me.udp_ports)
    /\ IF t.tcp THEN use_tcp(m) ELSE use_udp(m)
    /\ IF Len(t.ip) = 8 THEN use_ipv6(m) ELSE use_ipv4(m)

TcpAt(t, ip, port) == t.tcp /\ t.ip = ip /\ t.port = port
UdpAt(t, ip, port) == ~ t.tcp /\ t.ip = ip /\ t.port = port
LEMMA TargetFields ==
    ASSUME NEW index, NEW ip, NEW port, NEW t
    PROVE  /\ t = Target(TRUE, index, ip, port) => TcpAt(t, ip, port)
           /\ t = Target(FALSE, index, ip, port) => UdpAt(t, ip, port)
BY DEF Target, TcpAt, UdpAt

LEMMA AddressLengths ==
    /\ \A ip \in Ipv4s : Len(ip) = 4 /\ Len(ip) # 8 /\ ip # NO_ADDR
    /\ \A ip \in Ipv6s : Len(ip) = 8 /\ ip # NO_ADDR /\ ip \notin Ipv4s
<1>1. Len(NO_ADDR) = 0
  BY SMT DEF NO_ADDR
<1>2. (\A ip \in Ipv4s : Len(ip) = 4) /\ (\A ip \in Ipv6s : Len(ip) = 8)
  BY SMT DEF Ipv4s, Ipv6s
<1> QED
  BY <1>1, <1>2, SMT

\* Tried by tcp: the family of the address is allowed, and it is not that of this node.
LEMMA TcpSensible ==
    ASSUME NEW m, NEW me, NEW peer, NEW net, NEW p, IsClean(p, peer, net), NEW punch_tcp,
           NEW t \in TcpTargets(m, me, p, punch_tcp)
    PROVE  Sensible(t, m, me, net)
<1> DEFINE try(ip) == IF ip = NO_ADDR \/ is_local_address(me, TRUE, ip, p.tcp_port) THEN {}
                      ELSE {Target(TRUE, 0, ip, p.tcp_port)}
<1>1. punch_tcp /\ use_tcp(m) /\ p.tcp_port # 0
  BY DEF TcpTargets
<1>2. PICK ip : /\ t \in try(ip)
                /\ \/ use_ipv6(m) /\ ip = p.ipv6
                   \/ use_ipv4(m) /\ (ip = p.local_ipv4 \/ ip \in ToSet(p.public_ips))
  <2>1. t \in (IF use_ipv6(m) THEN try(p.ipv6) ELSE {})
              \cup (IF use_ipv4(m) THEN UNION {try(ip) : ip \in {p.local_ipv4} \cup ToSet(p.public_ips)} ELSE {})
    BY <1>1 DEF TcpTargets
  <2> HIDE DEF try
  <2>2. CASE use_ipv6(m) /\ t \in try(p.ipv6)
    BY <2>2
  <2>3. CASE use_ipv4(m) /\ t \in UNION {try(ip) : ip \in {p.local_ipv4} \cup ToSet(p.public_ips)}
    BY <2>3
  <2> QED
    BY <2>1, <2>2, <2>3
<1>3. ip # NO_ADDR /\ ~ is_local_address(me, TRUE, ip, p.tcp_port) /\ t = Target(TRUE, 0, ip, p.tcp_port)
  BY <1>2
<1>4. t.tcp /\ t.ip = ip /\ t.port = p.tcp_port
  <2>1. TcpAt(t, ip, p.tcp_port)
    BY <1>3, TargetFields
  <2> QED
    BY <2>1 DEF TcpAt
<1>5. t.ip \in {me.local_ipv4, me.ipv6} => t.port # me.tcp_port
  BY <1>3, <1>4 DEF is_local_address
<1>6. IF Len(ip) = 8 THEN use_ipv6(m) ELSE use_ipv4(m) /\ ip \notin net
  <2>1. CASE use_ipv6(m) /\ ip = p.ipv6
    BY <1>3, <2>1, AddressLengths DEF IsClean
  <2>2. CASE use_ipv4(m) /\ ip = p.local_ipv4
    BY <1>3, <2>2, AddressLengths DEF IsClean
  <2>3. CASE use_ipv4(m) /\ ip \in ToSet(p.public_ips)
    <3>1. ip \in Ipv4s /\ ip \notin net
      BY <2>3 DEF IsClean, ToSet
    <3> QED
      BY <2>3, <3>1, AddressLengths
  <2> QED
    BY <1>2, <2>1, <2>2, <2>3
<1> QED
  BY <1>1, <1>4, <1>5, <1>6 DEF Sensible

\* Tried by udp at an address of the peer's own, a port for each channel.
LEMMA LocalSensible ==
    ASSUME NEW m, NEW me, NEW peer, NEW net, NEW p, IsClean(p, peer, net), use_udp(m),
           NEW ip, NEW indexes \in SUBSET Nat, NEW t \in LocalTargets(me, p, ip, indexes),
           \/ use_ipv6(m) /\ ip = p.ipv6
           \/ use_ipv4(m) /\ ip = p.local_ipv4
    PROVE  Sensible(t, m, me, net)
<1> DEFINE n == Len(p.udp_ports)
           port(i) == p.udp_ports[(i % n) + 1]
<1>1. ip # NO_ADDR /\ p.udp_ports # << >>
  BY DEF LocalTargets
<1>2. PICK i \in indexes : ~ is_local_address(me, FALSE, ip, port(i)) /\ t = Target(FALSE, i, ip, port(i))
  <2>1. t \in {Target(FALSE, i, ip, port(i)) : i \in {j \in indexes : ~ is_local_address(me, FALSE, ip, port(j))}}
    BY <1>1 DEF LocalTargets
  <2> HIDE DEF port
  <2> QED
    BY <2>1
<1>3. port(i) # 0
  <2>1. p.udp_ports \in Seq(Nat) /\ n \in Nat /\ n # 0 /\ DOMAIN p.udp_ports = 1 .. n /\ 0 \notin ToSet(p.udp_ports)
    <3>1. p.udp_ports \in Seq(Nat) /\ 0 \notin ToSet(p.udp_ports)
      BY DEF IsClean
    <3> QED
      BY <1>1, <3>1, EmptySeq, LenProperties
  <2>2. i \in Nat
    OBVIOUS
  <2> HIDE DEF n
  <2>3. i % n \in 0 .. n - 1
    BY <2>1, <2>2, ModRange
  <2> DEFINE k == i % n
  <2> HIDE DEF k
  <2>4. k + 1 \in 1 .. n
    BY <2>1, <2>3 DEF k
  <2>5. p.udp_ports[k + 1] \in ToSet(p.udp_ports)
    BY <2>1, <2>4 DEF ToSet
  <2> QED
    BY <2>1, <2>5 DEF k
<1> DEFINE o == port(i)
<1> HIDE DEF port
<1>4. ~ t.tcp /\ t.ip = ip /\ t.port = o /\ o # 0
  <2>1. UdpAt(t, ip, o)
    BY <1>2, TargetFields
  <2> QED
    BY <1>3, <2>1 DEF UdpAt
<1>5. t.ip \in {me.local_ipv4, me.ipv6} => t.port \notin ToSet(me.udp_ports)
  BY <1>1, <1>2, <1>4 DEF is_local_address
<1>6. IF Len(ip) = 8 THEN use_ipv6(m) ELSE use_ipv4(m) /\ ip \notin net
  BY <1>1, AddressLengths DEF IsClean
<1> QED
  BY <1>4, <1>5, <1>6 DEF Sensible

\* Tried by udp at a public address.
LEMMA PublicSensible ==
    ASSUME NEW m, NEW me \in NatInfos, NEW peer, NEW net, NEW p, IsClean(p, peer, net), use_udp(m), use_ipv4(m),
           me.local_ipv4 \notin ToSet(peer.public_ips) \/ ~ is_ipv4_global(me.local_ipv4),
           NEW i, NEW ip \in ToSet(p.public_ips), NEW port, port # 0,
           NEW t, t = Target(FALSE, i, ip, port)
    PROVE  Sensible(t, m, me, net)
<1>1. ~ t.tcp /\ t.ip = ip /\ t.port = port
  <2>1. UdpAt(t, ip, port)
    BY TargetFields
  <2> QED
    BY <2>1 DEF UdpAt
<1>2. ip \in Ipv4s /\ ip \notin net /\ ip \in ToSet(peer.public_ips) /\ is_ipv4_global(ip)
  BY DEF IsClean, ToSet
<1>3. ip # me.local_ipv4
  BY <1>2
<1>4. ip # me.ipv6
  <2>1. me.ipv6 \in Ipv6s \cup {NO_ADDR}
    BY DEF NatInfos
  <2> QED
    BY <1>2, <2>1, AddressLengths
<1> QED
  BY <1>1, <1>2, <1>3, <1>4, AddressLengths DEF Sensible

LEMMA UdpSensible ==
    ASSUME NEW m, NEW me \in NatInfos, NEW peer, NEW net, NEW p, IsClean(p, peer, net),
           me.local_ipv4 \notin ToSet(peer.public_ips) \/ ~ is_ipv4_global(me.local_ipv4),
           NEW channel_num \in Nat, NEW main_len \in Nat, NEW cone,
           NEW t \in UdpTargets(m, me, p, channel_num, main_len, cone)
    PROVE  Sensible(t, m, me, net)
<1> DEFINE Aimed(i, ip, port) == Target(FALSE, i, ip, port)
           Mapping(i, ip) == Target(FALSE, i, ip, p.public_ports[i + 1])
           First(i, ip) == Target(FALSE, i, ip, p.public_ports[1])
           all6 == LocalTargets(me, p, p.ipv6, channel_num .. (main_len - 1))
           ipv6 == IF m = "IPv6" THEN {x \in all6 : \A u \in all6 : x.index <= u.index} ELSE all6
           local4 == LocalTargets(me, p, p.local_ipv4, 0 .. (channel_num - 1))
           open == {Aimed(i, ip, port) :
                       i \in 0 .. (channel_num - 1), ip \in ToSet(p.public_ips), port \in ToSet(p.udp_ports)}
           n == IF Len(p.public_ports) < channel_num THEN Len(p.public_ports) ELSE channel_num
           mapped == IF p.nat_type # "Cone" THEN {}
                     ELSE IF cone THEN {Mapping(i, ip) :
                                           i \in 0 .. (n - 1), ip \in ToSet(p.public_ips)}
                     ELSE IF n = 0 THEN {}
                     ELSE {First(i, ip) :
                              i \in 0 .. (channel_num - 1), ip \in ToSet(p.public_ips)}
<1>1. UdpTargets(m, me, p, channel_num, main_len, cone) =
         IF ~ use_udp(m) THEN {}
         ELSE (IF use_ipv6(m) THEN ipv6 ELSE {})
              \cup (IF use_ipv4(m) THEN local4 \cup open \cup mapped ELSE {})
  BY DEF UdpTargets
<1>2. ipv6 \subseteq all6
  <2> HIDE DEF all6
  <2> QED
    OBVIOUS
<1> HIDE DEF ipv6, local4, open, mapped
<1>3. use_udp(m)
  BY <1>1
<1>4. CASE use_ipv6(m) /\ t \in ipv6
  <2>1. t \in all6 /\ channel_num .. (main_len - 1) \in SUBSET Nat
    BY <1>2, <1>4
  <2> QED
    BY <1>3, <1>4, <2>1, LocalSensible
<1>5. CASE use_ipv4(m) /\ t \in local4
  <2>1. t \in LocalTargets(me, p, p.local_ipv4, 0 .. (channel_num - 1)) /\ 0 .. (channel_num - 1) \in SUBSET Nat
    BY <1>5 DEF local4
  <2> QED
    BY <1>3, <1>5, <2>1, LocalSensible
<1>6. CASE use_ipv4(m) /\ t \in open
  <2>1. PICK i \in 0 .. (channel_num - 1), ip \in ToSet(p.public_ips), port \in ToSet(p.udp_ports) :
           t = Target(FALSE, i, ip, port)
    <3> HIDE DEF Aimed
    <3>1. \E i \in 0 .. (channel_num - 1), ip \in ToSet(p.public_ips), port \in ToSet(p.udp_ports) :
             t = Aimed(i, ip, port)
      BY <1>6 DEF open
    <3> QED
      BY <3>1 DEF Aimed
  <2>2. port # 0
    BY <2>1 DEF IsClean
  <2> QED
    BY <1>3, <1>6, <2>1, <2>2, PublicSensible
<1>7. CASE use_ipv4(m) /\ t \in mapped
  <2>1. p.public_ports \in Seq(Nat) /\ 0 \notin ToSet(p.public_ports)
    BY DEF IsClean
  <2>2. Len(p.public_ports) \in Nat /\ DOMAIN p.public_ports = 1 .. Len(p.public_ports)
    BY <2>1, LenProperties
  <2>3. \A j \in 1 .. Len(p.public_ports) : p.public_ports[j] # 0
    BY <2>1, <2>2, Zenon DEF ToSet
  <2>4. n \in Nat /\ n <= Len(p.public_ports)
    BY <2>2
  <2>5. PICK i \in Nat, ip \in ToSet(p.public_ips), j \in 1 .. Len(p.public_ports) :
           t = Aimed(i, ip, p.public_ports[j])
    <3> HIDE DEF n, Mapping, First, Aimed
    <3>1. p.nat_type = "Cone"
      BY <1>7 DEF mapped
    <3>2. CASE cone
      <4>1. PICK i \in 0 .. (n - 1), ip \in ToSet(p.public_ips) : t = Mapping(i, ip)
        BY <1>7, <3>1, <3>2 DEF mapped
      <4>2. i + 1 \in 1 .. Len(p.public_ports)
        BY <2>2, <2>4
      <4>3. Mapping(i, ip) = Aimed(i, ip, p.public_ports[i + 1])
        BY DEF Mapping, Aimed
      <4> QED
        BY <4>1, <4>2, <4>3
    <3>3. CASE ~ cone
      <4>1. PICK i \in 0 .. (channel_num - 1), ip \in ToSet(p.public_ips) : t = First(i, ip)
        BY <1>7, <3>1, <3>3 DEF mapped
      <4>2. n # 0
        BY <1>7, <3>1, <3>3 DEF mapped
      <4>3. 1 \in 1 .. Len(p.public_ports)
        BY <2>2, <2>4, <4>2
      <4>4. First(i, ip) = Aimed(i, ip, p.public_ports[1])
        BY DEF First, Aimed
      <4> QED
        BY <4>1, <4>3, <4>4
    <3> QED
      BY <3>2, <3>3
  <2>6. p.public_ports[j] # 0
    BY <2>3, <2>5
  <2> DEFINE port == p.public_ports[j]
  <2> HIDE DEF port
  <2>7. port # 0 /\ t = Target(FALSE, i, ip, port)
    BY <2>5, <2>6 DEF port
  <2> QED
    BY <1>3, <1>7, <2>5, <2>7, PublicSensible
<1> QED
  BY <1>1, <1>3, <1>4, <1>5, <1>6, <1>7

(* Punch::punch looks at every mapping of a peer behind a cone and at nothing *)
(* it should leave alone, for every pair of NATs, virtual network and number *)
(* of channels, if this node's own local address is not a public one of the  *)
(* peer's.                                                                   *)
THEOREM PunchTargetsRight ==
    ASSUME NEW m, NEW me \in NatInfos, NEW peer \in NatInfos, NEW net, NEW punch_tcp,
           NEW channel_num \in Nat, NEW main_len \in Nat, NEW cone,
           me.local_ipv4 \notin ToSet(peer.public_ips) \/ ~ is_ipv4_global(me.local_ipv4)
    PROVE  TargetsSensible(m, me, peer, net, punch_tcp, channel_num, main_len, cone)
<1> DEFINE p == Cleaned(peer, net)
           tcp == TcpTargets(m, me, p, punch_tcp)
           udp == UdpTargets(m, me, p, channel_num, main_len, cone)
           ts == tcp \cup udp
<1>1. IsClean(p, peer, net)
  BY CleanedIsClean
<1>2. ts = punch(m, me, peer, net, punch_tcp, channel_num, main_len, cone)
  BY DEF punch
<1> HIDE DEF p
<1>3. \A t \in tcp : Sensible(t, m, me, net)
  BY <1>1, TcpSensible
<1>4. \A t \in udp : Sensible(t, m, me, net)
  BY <1>1, UdpSensible
<1>5. ASSUME use_udp(m), use_ipv4(m), peer.nat_type = "Cone", cone,
             NEW i \in 1 .. channel_num, NEW ip \in ToSet(peer.public_ips),
             \A j \in DOMAIN peer.public_ports : peer.public_ports[j] # 0,
             i \in DOMAIN peer.public_ports, is_ipv4_global(ip), ip \notin net
      PROVE  Target(FALSE, i - 1, ip, peer.public_ports[i]) \in udp
  <2> DEFINE n == IF Len(p.public_ports) < channel_num THEN Len(p.public_ports) ELSE channel_num
             Mapping(k, a) == Target(FALSE, k, a, p.public_ports[k + 1])
             mapped == {Mapping(k, a) : k \in 0 .. (n - 1), a \in ToSet(p.public_ips)}
  <2>1. /\ p.public_ports = peer.public_ports /\ ip \in ToSet(p.public_ips) /\ p.nat_type = "Cone"
        /\ p.public_ports \in Seq(Nat)
    BY <1>1, <1>5 DEF IsClean
  <2>2. mapped \subseteq udp
    <3> DEFINE all6 == LocalTargets(me, p, p.ipv6, channel_num .. (main_len - 1))
               ipv6 == IF m = "IPv6" THEN {x \in all6 : \A u \in all6 : x.index <= u.index} ELSE all6
               local4 == LocalTargets(me, p, p.local_ipv4, 0 .. (channel_num - 1))
               open == {Target(FALSE, k, a, port) :
                           k \in 0 .. (channel_num - 1), a \in ToSet(p.public_ips), port \in ToSet(p.udp_ports)}
    <3>1. udp = (IF use_ipv6(m) THEN ipv6 ELSE {}) \cup (local4 \cup open \cup mapped)
      BY <1>5, <2>1 DEF UdpTargets
    <3> HIDE DEF udp, mapped, ipv6, local4, open
    <3> QED
      BY <3>1
  <2>3. i - 1 \in 0 .. (n - 1) /\ (i - 1) + 1 = i
    <3>1. Len(p.public_ports) \in Nat /\ i \in 1 .. Len(p.public_ports)
      BY <1>5, <2>1, LenProperties
    <3> QED
      BY <1>5, <3>1
  <2> HIDE DEF n, udp, Mapping
  <2>4. Target(FALSE, i - 1, ip, p.public_ports[i]) \in mapped
    <3> DEFINE k == i - 1
    <3>1. k \in 0 .. (n - 1) /\ k + 1 = i
      BY <2>3
    <3> HIDE DEF k
    <3>2. Mapping(k, ip) \in mapped
      BY <2>1, <3>1
    <3>3. Mapping(k, ip) = Target(FALSE, k, ip, p.public_ports[i])
      BY <3>1 DEF Mapping
    <3> HIDE DEF mapped
    <3> QED
      BY <3>2, <3>3 DEF k
  <2> HIDE DEF mapped
  <2> QED
    BY <2>1, <2>2, <2>4
<1> HIDE DEF tcp, udp
<1>6. \A t \in ts : Sensible(t, m, me, net)
  BY <1>3, <1>4
<1> HIDE DEF ts
<1>7. \A t \in ts :
        /\ t.port # 0 /\ (Len(t.ip) = 8 \/ t.ip \notin net)
        /\ t.ip \in {me.local_ipv4, me.ipv6} =>
             IF t.tcp THEN t.port # me.tcp_port ELSE t.port \notin ToSet(me.udp_ports)
        /\ IF t.tcp THEN use_tcp(m) ELSE use_udp(m)
        /\ IF Len(t.ip) = 8 THEN use_ipv6(m) ELSE use_ipv4(m)
  BY <1>6 DEF Sensible
<1>8. use_udp(m) /\ use_ipv4(m) /\ peer.nat_type = "Cone" /\ cone =>
        \A i \in 1 .. channel_num : \A ip \in ToSet(peer.public_ips) :
           (\A j \in DOMAIN peer.public_ports : peer.public_ports[j] # 0)
           /\ i \in DOMAIN peer.public_ports /\ is_ipv4_global(ip) /\ ip \notin net =>
               Target(FALSE, i - 1, ip, peer.public_ports[i]) \in ts
  <2>1. \A t \in udp : t \in ts
    BY DEF ts
  <2> QED
    BY <1>5, <2>1, Zenon
<1> QED
  BY <1>2, <1>7, <1>8, Zenon DEF TargetsSensible

(* What NatInfo::new makes of typed arguments is typed, and its addresses    *)
(* are among those it was given.                                            *)
TypedInfo(r, ips, local) ==
    /\ r \in NatInfos
    /\ \A x : x \in ToSet(r.public_ips) => x \in ToSet(ips)
    /\ r.local_ipv4 \in {local, NO_ADDR}
LEMMA NatInfoTyped ==
    ASSUME NEW ips \in Seq(Ipv4s), NEW ports \in Seq(Nat), NEW range \in Nat, NEW local \in Ipv4s \cup {NO_ADDR},
           NEW v6 \in Ipv6s \cup {NO_ADDR}, NEW udp \in Seq(Nat), NEW tcp \in Nat, NEW nat \in {"Cone", "Symmetric"},
           NEW r, r = NatInfo_new(ips, ports, range, local, v6, udp, tcp, nat)
    PROVE  TypedInfo(r, ips, local)
<1> DEFINE good == {ip \in ToSet(ips) : ~ Special(ip) /\ ~ is_private(ip)}
           kept == Kept(ips, good)
           usable == local # NO_ADDR /\ ~ Special(local)
           usable6 == v6 # NO_ADDR /\ v6[1] \div 256 # 255
                      /\ v6 \notin {<<0, 0, 0, 0, 0, 0, 0, 0>>, <<0, 0, 0, 0, 0, 0, 0, 1>>}
<1>1. r = [public_ips |-> kept, public_ports |-> ports, range |-> range,
           local_ipv4 |-> IF usable THEN local ELSE NO_ADDR,
           ipv6 |-> IF usable6 THEN v6 ELSE NO_ADDR,
           udp_ports |-> udp, tcp_port |-> tcp,
           nat_type |-> IF Len(kept) > 1 THEN "Symmetric" ELSE nat]
  BY DEF NatInfo_new
<1> HIDE DEF good
<1>2. kept \in Seq(Ipv4s) /\ \A x : x \in ToSet(kept) => x \in ToSet(ips)
  BY KeptFacts
<1> HIDE DEF kept, usable, usable6
<1>3. r \in NatInfos
  BY <1>1, <1>2 DEF NatInfos
<1>4. r.public_ips = kept /\ r.local_ipv4 \in {local, NO_ADDR}
  BY <1>1
<1> QED
  BY <1>2, <1>3, <1>4 DEF TypedInfo

LEMMA FourOctets ==
    ASSUME NEW a \in Octets, NEW b \in Octets, NEW c \in Octets, NEW d \in Octets
    PROVE  <<a, b, c, d>> \in Ipv4s
BY DEF Ipv4s

LEMMA EightSegments ==
    ASSUME NEW a \in Segments, NEW b \in Segments, NEW c \in Segments, NEW d \in Segments,
           NEW e \in Segments, NEW f \in Segments, NEW g \in Segments, NEW h \in Segments
    PROVE  <<a, b, c, d, e, f, g, h>> \in Ipv6s
<1> DEFINE s == <<a, b, c, d, e, f, g, h>>
<1>1. s \in Seq(Segments) /\ Len(s) = 8
  <2> HIDE DEF Segments
  <2> QED
    BY SMT
<1> QED
  BY <1>1 DEF Ipv6s

-----------------------------------------------------------------------------
(* The specification of MCAlgorithms, which picks inputs for all of them.  *)

(* What is checked after each step. *)
LEMMA Picked ==
    /\ PickChecksum => in'.what = "checksum"
    /\ PickSetter => in'.what = "setter"
    /\ PickPart => in'.what = "setter"
    /\ PickReport => in'.what = "report"
    /\ PickTap => in'.what = "tap"
    /\ PickPeerPacket => in'.what = "peer"
    /\ PickBroadcast => in'.what = "broadcast"
    /\ PickUnicast => in'.what = "unicast"
    /\ PickRoute => in'.what = "route"
    /\ PickHops => in'.what = "hops"
    /\ PickServerBroadcast => in'.what = "list"
    /\ PickLayout => in'.what = "layout"
    /\ PickDelivery => in'.what = "delivery"
    /\ PickForgery => in'.what = "forgery"
    /\ PickAddress => in'.what = "address"
    /\ PickStun => in'.what = "stun"
    /\ PickGuess => in'.what = "guess"
    /\ PickSweep => in'.what = "sweep"
    /\ PickPunch => in'.what = "punch"
    /\ PickAsk => in'.what = "ask"
    /\ PickCalls => in'.what = "rate"
    /\ PickTraffic => in'.what = "traffic"
    /\ PickTurns => in'.what = "turns"
    /\ PickQuery => in'.what = "query"
    /\ PickRequest => in'.what = "request"
    /\ PickUdp => in'.what = "udp"
    /\ Return => in'.what = "none"
<1>1. PickChecksum => in'.what = "checksum"
  BY DEF PickChecksum
<1>2. PickSetter => in'.what = "setter"
  BY DEF PickSetter
<1>27. PickPart => in'.what = "setter"
  BY DEF PickPart
<1>3. PickReport => in'.what = "report"
  BY DEF PickReport
<1>4. PickTap => in'.what = "tap"
  BY DEF PickTap
<1>5. PickPeerPacket => in'.what = "peer"
  BY DEF PickPeerPacket
<1>6. PickBroadcast => in'.what = "broadcast"
  BY DEF PickBroadcast
<1>7. PickUnicast => in'.what = "unicast"
  BY DEF PickUnicast
<1>8. PickRoute => in'.what = "route"
  BY DEF PickRoute
<1>9. PickHops => in'.what = "hops"
  BY DEF PickHops
<1>10. PickServerBroadcast => in'.what = "list"
  BY DEF PickServerBroadcast
<1>11. PickLayout => in'.what = "layout"
  BY DEF PickLayout
<1>12. PickDelivery => in'.what = "delivery"
  BY DEF PickDelivery
<1>13. PickForgery => in'.what = "forgery"
  BY DEF PickForgery
<1>14. PickAddress => in'.what = "address"
  BY DEF PickAddress
<1>15. PickStun => in'.what = "stun"
  BY DEF PickStun
<1>16. PickGuess => in'.what = "guess"
  BY DEF PickGuess
<1>17. PickSweep => in'.what = "sweep"
  BY DEF PickSweep
<1>18. PickPunch => in'.what = "punch"
  BY DEF PickPunch
<1>19. PickAsk => in'.what = "ask"
  BY DEF PickAsk
<1>20. PickCalls => in'.what = "rate"
  BY DEF PickCalls
<1>21. PickTraffic => in'.what = "traffic"
  BY DEF PickTraffic
<1>22. PickTurns => in'.what = "turns"
  BY DEF PickTurns
<1>23. PickQuery => in'.what = "query"
  BY DEF PickQuery
<1>24. PickRequest => in'.what = "request"
  BY DEF PickRequest
<1>25. PickUdp => in'.what = "udp"
  BY DEF PickUdp
<1>26. Return => in'.what = "none"
  BY DEF Return, Idle
<1> QED
  BY <1>1, <1>2, <1>3, <1>4, <1>5, <1>6, <1>7, <1>8, <1>9, <1>10, <1>11, <1>12, <1>13, <1>14,
      <1>15, <1>16, <1>17, <1>18, <1>19, <1>20, <1>21, <1>22, <1>23, <1>24, <1>25, <1>26, <1>27

(* In every interleaving of the loop of the udp proxy or of a mapped port  *)
(* with the tasks of its sockets, for any number of sources, hosts,        *)
(* datagrams and sockets: each socket in inner_map is that of the one task *)
(* of its source that has not left, an ending task takes out only its own, *)
(* and a datagram or an answer stays with the source and the hosts that    *)
(* source has written to (udp_proxy.rs, udp_mapping.rs).                   *)
THEOREM UdpSound == Spec => []UdpProxySound
<1> DEFINE Inv == in.what = "udp" => in = [what |-> "udp", m |-> in.m] /\ Sound(in.m)
<1>1. Init => Inv
  BY DEF Init, Idle
<1>2. Inv /\ [Next]_vars => Inv'
  <2> SUFFICES ASSUME Inv, [Next]_vars PROVE Inv'
    OBVIOUS
  <2>1. CASE UNCHANGED vars
    BY <2>1 DEF vars
  <2>2. CASE PickUdp
    <3>1. PICK fixed \in {NO_DEST} \cup Hosts : in' = [what |-> "udp", m |-> Machine(fixed)]
      BY <2>2 DEF PickUdp
    <3> QED
      BY <3>1, MachineSound
  <2>3. CASE StepUdp
    <3>1. in.what = "udp" /\ \E n \in Steps(in.m) : in' = [in EXCEPT !.m = n]
      BY <2>3 DEF StepUdp
    <3>2. PICK n \in Steps(in.m) : in' = [in EXCEPT !.m = n]
      BY <3>1
    <3> QED
      BY <3>1, <3>2, StepsSound
  <2>4. CASE Next /\ ~ PickUdp /\ ~ StepUdp
    BY <2>4, Picked DEF Next
  <2> QED
    BY <2>1, <2>2, <2>3, <2>4
<1>3. Inv => UdpProxySound
  BY SoundOwned DEF UdpProxySound, UdpSocketsOwned, UdpKeptApart, Sound
<1> QED
  BY <1>1, <1>2, <1>3, PTL DEF Spec

(* RateIsHeld and TrafficSums hold of every input the specification picks, *)
(* since they hold of all: the token bucket never lets through more than   *)
(* its capacity and refill allow, the traffic meters lose and double       *)
(* nothing (rate_limiter.rs, traffic_meter.rs).                            *)
THEOREM AmountsSound == Spec => []AmountsAddUp
<1>1. Init => AmountsAddUp
  BY DEF Init, Idle, AmountsAddUp, RateIsHeld, TrafficSums
<1>2. AmountsAddUp /\ [Next]_vars => AmountsAddUp'
  <2> SUFFICES ASSUME AmountsAddUp, [Next]_vars PROVE AmountsAddUp'
    OBVIOUS
  <2>1. CASE UNCHANGED vars
    BY <2>1 DEF vars, AmountsAddUp, RateIsHeld, TrafficSums
  <2>2. CASE PickCalls
    <3>1. PICK capacity \in 0 .. 2, rate \in 0 .. 2, dt \in [1 .. 5 -> {0, 1, 3}] :
            in' = [what |-> "rate", capacity |-> capacity, rate |-> rate, calls |-> [i \in 1 .. 5 |-> <<dt[i]>>]]
      BY <2>2 DEF PickCalls
    <3> DEFINE calls == [i \in 1 .. 5 |-> <<dt[i]>>]
    <3>2. Calls(calls)
      BY DEF Calls
    <3> HIDE DEF calls
    <3>3. RateHeld(capacity, rate, calls)
      BY <3>2, RateLimited
    <3>4. in'.what = "rate" /\ RateHeld(in'.capacity, in'.rate, in'.calls)
      BY <3>1, <3>3 DEF calls
    <3> QED
      BY <3>4 DEF AmountsAddUp, RateIsHeld, TrafficSums
  <2>3. CASE PickTraffic
    <3>1. PICK keep \in {1, 2}, dt \in [1 .. 4 -> 0 .. 2], ip \in [1 .. 4 -> {1, 2}] :
            in' = [what |-> "traffic", keep |-> keep,
                   calls |-> [i \in 1 .. 4 |-> <<dt[i], ip[i], Amounts[i]>>]]
      BY <2>3 DEF PickTraffic
    <3> DEFINE calls == [i \in 1 .. 4 |-> <<dt[i], ip[i], Amounts[i]>>]
    <3>2. calls \in CallsOf({1, 2})
      <4>1. \A i \in 1 .. 4 : Amounts[i] \in Nat
        BY DEF Amounts
      <4>2. \A i \in 1 .. 4 : <<dt[i], ip[i], Amounts[i]>> \in Nat \X {1, 2} \X Nat
        BY <4>1
      <4> HIDE DEF calls
      <4> QED
        BY <4>2 DEF CallsOf, calls
    <3> HIDE DEF calls
    <3>3. TrafficAddsUp(calls, keep)
      BY <3>2, TrafficCounted
    <3>4. in'.what = "traffic" /\ TrafficAddsUp(in'.calls, in'.keep)
      BY <3>1, <3>3 DEF calls
    <3> QED
      BY <3>4 DEF AmountsAddUp, RateIsHeld, TrafficSums
  <2>4. CASE StepUdp
    <3>1. in.what = "udp" /\ \E n \in Steps(in.m) : in' = [in EXCEPT !.m = n]
      BY <2>4 DEF StepUdp
    <3>2. in'.what \notin {"rate", "traffic"}
      BY <3>1
    <3> QED
      BY <3>2 DEF AmountsAddUp, RateIsHeld, TrafficSums
  <2>5. CASE Next /\ ~ PickCalls /\ ~ PickTraffic /\ ~ StepUdp
    <3>1. in'.what \notin {"rate", "traffic"}
      BY <2>5, Picked DEF Next
    <3> QED
      BY <3>1 DEF AmountsAddUp, RateIsHeld, TrafficSums
  <2> QED
    BY <2>1, <2>2, <2>3, <2>4, <2>5
<1> QED
  BY <1>1, <1>2, PTL DEF Spec

-----------------------------------------------------------------------------
(* The sampled network. *)

LEMMA SamplePowers ==
    /\ Host(WIDTH) = 1 /\ Host(WIDTH - 2) = 4 /\ Host(WIDTH - 3) = 8 /\ Host(WIDTH - 4) = 16
    /\ Host(4) \in Nat /\ Host(4) >= 2 /\ BROADCAST = 16 * Host(4) - 1
<1>1. WIDTH \in Nat /\ WIDTH >= 5
  BY WidthAssumption, NetworkFits
<1>2. /\ WIDTH - WIDTH = 0 /\ WIDTH - (WIDTH - 2) = 2 /\ WIDTH - (WIDTH - 3) = 3 /\ WIDTH - (WIDTH - 4) = 4
      /\ WIDTH - 5 \in Nat /\ (WIDTH - 5) + 1 = WIDTH - 4 /\ (WIDTH - 4) + 1 = WIDTH - 3
      /\ (WIDTH - 3) + 1 = WIDTH - 2 /\ (WIDTH - 2) + 1 = WIDTH - 1 /\ (WIDTH - 1) + 1 = WIDTH
      /\ WIDTH - 4 \in Nat /\ WIDTH - 3 \in Nat /\ WIDTH - 2 \in Nat /\ WIDTH - 1 \in Nat
  BY <1>1
<1>3. Power2(0) = 1 /\ Power2(1) = 2 /\ Power2(2) = 4 /\ Power2(3) = 8 /\ Power2(4) = 16
  <2>1. 0 + 1 = 1 /\ 1 + 1 = 2 /\ 2 + 1 = 3 /\ 3 + 1 = 4
    OBVIOUS
  <2>2. Power2(1) = 2 * Power2(0) /\ Power2(2) = 2 * Power2(1) /\ Power2(3) = 2 * Power2(2) /\ Power2(4) = 2 * Power2(3)
    BY <2>1, Power2Doubles
  <2> QED
    BY <2>2, Power2Doubles
<1>4. /\ Power2(WIDTH - 5) \in Nat \ {0} /\ Power2(WIDTH - 4) = 2 * Power2(WIDTH - 5)
      /\ Power2(WIDTH) = 16 * Power2(WIDTH - 4)
  <2>1. /\ Power2(WIDTH - 4) = 2 * Power2(WIDTH - 5) /\ Power2(WIDTH - 3) = 2 * Power2(WIDTH - 4)
        /\ Power2(WIDTH - 2) = 2 * Power2(WIDTH - 3) /\ Power2(WIDTH - 1) = 2 * Power2(WIDTH - 2)
        /\ Power2(WIDTH) = 2 * Power2(WIDTH - 1)
    BY <1>2, Power2Doubles
  <2>2. Power2(WIDTH - 5) \in Nat \ {0} /\ Power2(WIDTH - 4) \in Nat
    BY <1>2, Power2Positive
  <2> QED
    BY <2>1, <2>2
<1>5. Host(WIDTH) = 1 /\ Host(WIDTH - 2) = 4 /\ Host(WIDTH - 3) = 8 /\ Host(WIDTH - 4) = 16
  BY <1>2, <1>3 DEF Host
<1>6. Host(4) = 2 * Power2(WIDTH - 5) /\ BROADCAST = 16 * Host(4) - 1
  BY <1>4 DEF Host, BROADCAST
<1> QED
  BY <1>4, <1>5, <1>6

LEMMA SampleHost ==
    ASSUME NEW n, n.gateway = 9, n.prefix = WIDTH - 3
    PROVE  /\ broadcast_ip(n) = 15
           /\ \A ip \in 0 .. 27 : ip # 15 => IsHost(n, ip)
           /\ is_multicast(14 * Host(4))
<1> DEFINE h == Host(4)
<1>1. h \in Nat \ {0} /\ h >= 2 /\ BROADCAST = 16 * h - 1 /\ Host(WIDTH - 3) = 8 /\ WIDTH >= 4
  BY SamplePowers, WidthAssumption, NetworkFits
<1>2. broadcast_ip(n) = 15
  BY <1>1 DEF broadcast_ip, Masked
<1> HIDE DEF h
<1>3. ASSUME NEW ip \in 0 .. 27, ip # 15 PROVE IsHost(n, ip)
  <2>1. ip \div h # 14
    <3> SUFFICES ASSUME ip \div h = 14 PROVE FALSE
      OBVIOUS
    <3>1. h * (ip \div h) <= ip
      BY <1>1, DivBounds
    <3>2. h * 14 <= ip
      BY <3>1
    <3> QED
      BY <1>1, <3>2
  <2>2. ip # BROADCAST
    BY <1>1
  <2> QED
    BY <1>2, <1>3, <2>1, <2>2 DEF IsHost, is_multicast, h
<1>4. (14 * h) \div h = 14
  <2> DEFINE a == 14 * h
  <2>1. a \in Int /\ h * 14 <= a /\ a < h * 15
    BY <1>1
  <2> HIDE DEF a
  <2>2. 14 <= a \div h /\ a \div h \in Int /\ h * (a \div h) <= a
    BY <1>1, <2>1, DivGreatest, DivBounds
  <2>3. ~ (15 <= a \div h)
    <3> SUFFICES ASSUME 15 <= a \div h PROVE FALSE
      OBVIOUS
    <3> DEFINE q == a \div h
    <3> HIDE DEF q
    <3>1. q \in Int /\ 15 <= q /\ h * q <= a
      BY <2>2 DEF q
    <3>2. h * 15 <= h * q
      BY <1>1, <3>1, MulMono
    <3>3. h * 15 \in Int /\ h * q \in Int
      BY <1>1, <3>1
    <3> QED
      BY <2>1, <3>1, <3>2, <3>3
  <2>4. a \div h = 14
    BY <2>2, <2>3
  <2> QED
    BY <2>4 DEF a
<1> QED
  BY <1>1, <1>2, <1>3, <1>4 DEF is_multicast, h

(* A node of the sampled network, with the given external routes. *)
IsSample(n, table) ==
    IsNode(n) /\ n.me = 10 /\ n.gateway = 9 /\ n.prefix = WIDTH - 3 /\ n.routes = ExternalRoute(table)

LEMMA SampleNode ==
    ASSUME NEW order \in Seq(Nat), NEW up, NEW wg, NEW p2p, NEW routed, NEW online \in BOOLEAN,
           NEW allow_wg \in BOOLEAN, NEW only_p2p \in BOOLEAN, NEW table \in Seq(RouteEntries)
    PROVE  IsSample(NodeOf(order, up, wg, p2p, routed, online, allow_wg, only_p2p, table), table)
<1> DEFINE n == NodeOf(order, up, wg, p2p, routed, online, allow_wg, only_p2p, table)
<1>1. /\ n.me = 10 /\ n.gateway = 9 /\ n.prefix = WIDTH - 3 /\ n.order = order /\ n.online = online
      /\ n.allow_wg = allow_wg /\ n.only_p2p = only_p2p /\ n.routes = ExternalRoute(table)
  BY DEF NodeOf
<1> HIDE DEF n
<1>2. DOMAIN n.routes \in SUBSET Nat
  <2>1. DOMAIN n.routes = 1 .. Len(table) /\ Len(table) \in Nat
    BY <1>1, TableSorted DEF IsTable
  <2> QED
    BY <2>1
<1>3. n.prefix \in 0 .. WIDTH /\ n.me \in Nat \ {UNSPECIFIED} /\ n.gateway \in Nat
  BY <1>1, WidthAssumption, NetworkFits DEF UNSPECIFIED
<1>4. IsNode(n)
  BY <1>1, <1>2, <1>3 DEF IsNode
<1> QED
  BY <1>1, <1>4 DEF n, IsSample

LEMMA SampleEntries ==
    /\ Entries \in SUBSET RouteEntries
    /\ \A e \in Entries : e[3] \in {10, 11, 12, 13}
    /\ Tables \in SUBSET Seq(Entries) /\ Tables \in SUBSET Seq(RouteEntries)
<1>1. WIDTH \in 0 .. WIDTH /\ 0 \in 0 .. WIDTH /\ WIDTH - 4 \in 0 .. WIDTH /\ WIDTH - 2 \in 0 .. WIDTH /\ WIDTH - 3 \in 0 .. WIDTH
  BY WidthAssumption, NetworkFits
<1>2. Entries \in SUBSET RouteEntries /\ \A e \in Entries : e[3] \in {10, 11, 12, 13}
  <2>1. /\ <<16, WIDTH - 4, 11>> \in RouteEntries /\ <<21, WIDTH - 2, 12>> \in RouteEntries
        /\ <<16, WIDTH - 3, 13>> \in RouteEntries /\ <<0, 0, 13>> \in RouteEntries
        /\ <<20, WIDTH, 10>> \in RouteEntries
    BY <1>1 DEF RouteEntries
  <2>2. Entries \in SUBSET RouteEntries
    BY <2>1 DEF Entries
  <2>3. ASSUME NEW e \in Entries PROVE e[3] \in {10, 11, 12, 13}
    BY DEF Entries
  <2> QED
    BY <2>2, <2>3
<1>3. Tables \in SUBSET Seq(Entries)
  <2>1. << >> \in Seq(Entries)
    OBVIOUS
  <2>2. \A a, b, c \in Entries : <<a>> \in Seq(Entries) /\ <<a, b>> \in Seq(Entries) /\ <<a, b, c>> \in Seq(Entries)
    OBVIOUS
  <2> DEFINE S == Seq(Entries)
  <2>3. ASSUME NEW t \in Tables PROVE t \in S
    <3>1. \/ t = << >>
          \/ \E a \in Entries : t = <<a>>
          \/ \E a, b \in Entries : t = <<a, b>>
          \/ \E a, b, c \in Entries : t = <<a, b, c>>
      BY SMT DEF Tables
    <3> HIDE DEF S
    <3>2. CASE t = << >>
      BY <2>1, <3>2 DEF S
    <3>3. CASE \E a \in Entries : t = <<a>>
      BY <2>2, <3>3 DEF S
    <3>4. CASE \E a, b \in Entries : t = <<a, b>>
      BY <2>2, <3>4 DEF S
    <3>5. CASE \E a, b, c \in Entries : t = <<a, b, c>>
      BY <2>2, <3>5 DEF S
    <3> QED
      BY <3>1, <3>2, <3>3, <3>4, <3>5
  <2> QED
    BY <2>3
<1>4. \A t \in Seq(Entries) : t \in Seq(RouteEntries)
  BY <1>2, SeqMonotonic
<1> QED
  BY <1>2, <1>3, <1>4

LEMMA SampleGateways ==
    ASSUME NEW table \in Seq(Entries)
    PROVE  \A i \in DOMAIN ExternalRoute(table) : ExternalRoute(table)[i][3] \in {10, 11, 12, 13}
<1>1. table \in Seq(RouteEntries)
  BY SampleEntries, SeqMonotonic
<1>2. IsTable(ExternalRoute(table), table)
  BY <1>1, TableSorted
<1> DEFINE t == ExternalRoute(table)
<1> HIDE DEF t
<1> SUFFICES ASSUME NEW k \in DOMAIN t PROVE t[k][3] \in {10, 11, 12, 13}
  BY DEF t
<1>3. PICK i \in 1 .. Len(table) : t[k] = EntryOf(table[i])
  BY <1>2 DEF IsTable, t
<1>4. table[i] \in Entries
  OBVIOUS
<1> QED
  BY <1>3, <1>4, SampleEntries DEF EntryOf

LEMMA SampleBroadcast == PickBroadcast => in'.what = "broadcast" /\ BroadcastReaches(in'.node, in'.dst)
<1> SUFFICES ASSUME PickBroadcast PROVE in'.what = "broadcast" /\ BroadcastReaches(in'.node, in'.dst)
  OBVIOUS
<1>1. PICK order \in {<<11, 12, 13>>, <<13, 11, 12>>}, up \in Sets, wg \in {{}, {13}, {11, 12}},
           p2p \in Sets, online \in BOOLEAN, allow_wg \in BOOLEAN, dst \in {15, 14 * Host(4), BROADCAST} :
        in' = [what |-> "broadcast", dst |-> dst,
               node |-> NodeOf(order, up, wg, p2p, p2p, online, allow_wg, FALSE, << >>)]
  BY DEF PickBroadcast
<1> DEFINE table == << >>
           only_p2p == FALSE
           n == NodeOf(order, up, wg, p2p, p2p, online, allow_wg, only_p2p, table)
<1>2. order \in Seq(Nat) /\ table \in Seq(RouteEntries) /\ only_p2p \in BOOLEAN /\ Len(table) = 0
  <2>1. <<11, 12, 13>> \in Seq(Nat) /\ <<13, 11, 12>> \in Seq(Nat)
    OBVIOUS
  <2>2. order \in Seq(Nat)
    BY <2>1, Zenon
  <2>3. table \in Seq(RouteEntries) /\ Len(table) = 0
    OBVIOUS
  <2> QED
    BY <2>2, <2>3
<1> HIDE DEF table, only_p2p
<1>3. IsNode(n) /\ n.me = 10 /\ n.gateway = 9 /\ n.prefix = WIDTH - 3 /\ n.routes = ExternalRoute(table)
  <2>1. IsSample(n, table)
    BY <1>2, SampleNode, Zenon
  <2> QED
    BY <2>1 DEF IsSample
<1> HIDE DEF n
<1>4. ~ HasRoute(n.routes, dst)
  <2>1. DOMAIN n.routes = 1 .. Len(table)
    BY <1>2, <1>3, TableSorted DEF IsTable
  <2> QED
    BY <1>2, <2>1 DEF HasRoute, Matching
<1>5. dst \notin {n.me, n.gateway}
  BY <1>3, SamplePowers
<1>6. is_multicast(dst) \/ dst = BROADCAST \/ dst = broadcast_ip(n)
  BY <1>3, SampleHost
<1>7. BroadcastReaches(n, dst)
  BY <1>3, <1>4, <1>5, <1>6, BroadcastArrives
<1>8. in' = [what |-> "broadcast", dst |-> dst, node |-> n]
  BY <1>1 DEF n, table, only_p2p
<1> QED
  BY <1>7, <1>8

LEMMA SampleUnicast == PickUnicast => in'.what = "unicast" /\ UnicastReaches(in'.node, in'.dst)
<1> SUFFICES ASSUME PickUnicast PROVE in'.what = "unicast" /\ UnicastReaches(in'.node, in'.dst)
  OBVIOUS
<1> DEFINE Some3 == {<< >>, <<<<16, WIDTH - 3, 13>>, <<20, WIDTH, 10>>>>, <<<<16, WIDTH - 4, 11>>>>}
<1>1. PICK up \in {{}, {11, 13}, {11, 12, 13}}, wg \in {{}, {13}}, routed \in {{}, {11}, {11, 13}},
           online \in BOOLEAN, allow_wg \in BOOLEAN, only_p2p \in BOOLEAN, dst \in {2, 11, 12, 13, 14, 16, 20},
           table \in Some3 :
        in' = [what |-> "unicast", dst |-> dst,
               node |-> NodeOf(<<11, 12, 13>>, up, wg, {}, routed \ wg, online, allow_wg, only_p2p, table)]
  BY DEF PickUnicast
<1> DEFINE order == <<11, 12, 13>>
           some == routed \ wg
           none == {}
           n == NodeOf(order, up, wg, none, some, online, allow_wg, only_p2p, table)
<1>2. order \in Seq(Nat)
  OBVIOUS
<1>3. table \in Seq(Entries)
  <2>1. <<16, WIDTH - 3, 13>> \in Entries /\ <<20, WIDTH, 10>> \in Entries /\ <<16, WIDTH - 4, 11>> \in Entries
    BY DEF Entries
  <2>2. \A a, b \in Entries : << >> \in Seq(Entries) /\ <<a>> \in Seq(Entries) /\ <<a, b>> \in Seq(Entries)
    OBVIOUS
  <2> QED
    BY <2>1, <2>2, ZenonT(60)
<1>4. table \in Seq(RouteEntries)
  BY <1>3, SampleEntries, SeqMonotonic
<1> HIDE DEF order, some, none
<1>5. IsNode(n) /\ n.me = 10 /\ n.gateway = 9 /\ n.prefix = WIDTH - 3 /\ n.routes = ExternalRoute(table)
  BY <1>2, <1>4, SampleNode DEF IsSample
<1> HIDE DEF n
<1>6. dst \in 0 .. 27 /\ dst # 15 /\ dst \notin {n.me, n.gateway}
  BY <1>5
<1>7. IsHost(n, dst)
  BY <1>5, <1>6, SampleHost
<1>8. \A i \in DOMAIN n.routes : IsHost(n, n.routes[i][3])
  <2> SUFFICES ASSUME NEW i \in DOMAIN n.routes PROVE IsHost(n, n.routes[i][3])
    OBVIOUS
  <2> DEFINE g == n.routes[i][3]
  <2>1. g \in {10, 11, 12, 13}
    BY <1>3, <1>5, SampleGateways
  <2> HIDE DEF g
  <2>2. g \in 0 .. 27 /\ g # 15
    BY <2>1
  <2>3. IsHost(n, g)
    BY <1>5, <2>2, SampleHost
  <2> QED
    BY <2>3 DEF g
<1>9. UnicastReaches(n, dst)
  BY <1>5, <1>6, <1>7, <1>8, UnicastArrives
<1>10. in' = [what |-> "unicast", dst |-> dst, node |-> n]
  BY <1>1 DEF n, order, some, none
<1> QED
  BY <1>9, <1>10

LEMMA SampleServerBroadcast == PickServerBroadcast => in'.what = "list" /\ BroadcastCarries(in'.list, in'.inner)
<1> SUFFICES ASSUME PickServerBroadcast PROVE in'.what = "list" /\ BroadcastCarries(in'.list, in'.inner)
  OBVIOUS
<1>1. PICK n \in {0, 1, 2, 64}, inner \in {<<9>>, A1 \o A2 \o LAN} :
        in' = [what |-> "list", list |-> [i \in 1 .. n |-> <<10, 26, 1, i>>], inner |-> inner]
  BY DEF PickServerBroadcast
<1> DEFINE list == [i \in 1 .. n |-> <<10, 26, 1, i>>]
<1>2. list \in Seq(Ipv4s) /\ Len(list) <= 255
  <2>1. ASSUME NEW i \in 1 .. n PROVE <<10, 26, 1, i>> \in Ipv4s
    <3>1. i \in Octets /\ 10 \in Octets /\ 26 \in Octets /\ 1 \in Octets
      BY DEF Octets
    <3> QED
      BY <3>1 DEF Ipv4s
  <2>2. list \in [1 .. n -> Ipv4s]
    BY <2>1
  <2> HIDE DEF list
  <2>3. n \in Nat /\ n <= 255
    OBVIOUS
  <2> QED
    BY <2>2, <2>3
<1>3. inner \in Seq(Octets) /\ inner # << >>
  <2>1. /\ 9 \in Octets /\ 10 \in Octets /\ 26 \in Octets /\ 0 \in Octets /\ 2 \in Octets /\ 3 \in Octets
        /\ 192 \in Octets /\ 168 \in Octets /\ 1 \in Octets /\ 7 \in Octets
    BY DEF Octets
  <2>2. <<9>> \in Seq(Octets) /\ <<9>> # << >>
    BY <2>1
  <2>3. /\ A1 \in Seq(Octets) /\ Len(A1) = 4 /\ A2 \in Seq(Octets) /\ Len(A2) = 4
        /\ LAN \in Seq(Octets) /\ Len(LAN) = 4
    BY <2>1 DEF A1, A2, LAN
  <2> DEFINE c == A1 \o A2
             d == c \o LAN
  <2>4. \A s, u \in Seq(Octets) : s \o u \in Seq(Octets) /\ Len(s \o u) = Len(s) + Len(u)
    BY ConcatProperties
  <2>5. c \in Seq(Octets) /\ Len(c) = Len(A1) + Len(A2)
    BY <2>3, <2>4, ZenonT(60)
  <2>6. d \in Seq(Octets) /\ d # << >>
    <3> HIDE DEF c
    <3>1. d \in Seq(Octets) /\ Len(d) = Len(c) + Len(LAN)
      BY <2>3, <2>4, <2>5
    <3>2. Len(d) = 12
      <4> HIDE DEF d
      <4> QED
        BY <2>3, <2>5, <3>1
    <3>3. Len(<< >>) = 0
      OBVIOUS
    <3> HIDE DEF d
    <3>4. d # << >>
      BY <3>2, <3>3
    <3> QED
      BY <3>1, <3>4
  <2>7. inner = <<9>> \/ inner = d
    OBVIOUS
  <2> HIDE DEF d
  <2> QED
    BY <2>2, <2>6, <2>7
<1> HIDE DEF list
<1>4. BroadcastCarries(list, inner)
  BY <1>2, <1>3, ServerBroadcastHolds
<1>5. in' = [what |-> "list", list |-> list, inner |-> inner]
  BY <1>1 DEF list
<1> QED
  BY <1>4, <1>5

LEMMA SampleRoute == PickRoute => in'.what = "route" /\ NarrowestRoute(in'.table, in'.ip)
<1> SUFFICES ASSUME PickRoute PROVE in'.what = "route" /\ NarrowestRoute(in'.table, in'.ip)
  OBVIOUS
<1>1. PICK table \in Tables, ip \in {3, 16, 20, 21, 25, 31} :
        in' = [what |-> "route", table |-> table, ip |-> ip]
  BY DEF PickRoute
<1>2. table \in Seq(RouteEntries) /\ ip \in Nat
  BY SampleEntries
<1>3. NarrowestRoute(table, ip)
  BY <1>2, NarrowestChosen
<1> QED
  BY <1>1, <1>3

(* A broadcast reaches every online peer once, a packet for one address    *)
(* its peer or the gateway of its narrowest external network, and the      *)
(* server is told whom to skip: of every input the specification picks, in *)
(* address spaces of any width that hold the sampled network, and any      *)
(* bound on the peers that broadcast tries itself.                         *)
THEOREM EachReachedOnce == Spec => []ReachedOnce
<1>1. Init => ReachedOnce
  BY DEF Init, Idle, ReachedOnce, BroadcastOnce, UnicastOnce, MostSpecificRoute, ServerBroadcastCarries
<1>2. ReachedOnce /\ [Next]_vars => ReachedOnce'
  <2> SUFFICES ASSUME ReachedOnce, [Next]_vars PROVE ReachedOnce'
    OBVIOUS
  <2> USE DEF ReachedOnce, BroadcastOnce, UnicastOnce, MostSpecificRoute, ServerBroadcastCarries
  <2>1. CASE UNCHANGED vars
    BY <2>1 DEF vars
  <2>2. CASE PickBroadcast
    BY <2>2, SampleBroadcast
  <2>3. CASE PickUnicast
    BY <2>3, SampleUnicast
  <2>4. CASE PickRoute
    BY <2>4, SampleRoute
  <2>5. CASE PickServerBroadcast
    BY <2>5, SampleServerBroadcast
  <2>6. CASE StepUdp
    <3>1. in.what = "udp" /\ \E n \in Steps(in.m) : in' = [in EXCEPT !.m = n]
      BY <2>6 DEF StepUdp
    <3>2. in'.what \notin {"broadcast", "unicast", "route", "list"}
      BY <3>1
    <3> QED
      BY <3>2
  <2>7. CASE Next /\ ~ PickBroadcast /\ ~ PickUnicast /\ ~ PickRoute /\ ~ PickServerBroadcast /\ ~ StepUdp
    <3>1. in'.what \notin {"broadcast", "unicast", "route", "list"}
      BY <2>7, Picked DEF Next
    <3> QED
      BY <3>1
  <2> QED
    BY <2>1, <2>2, <2>3, <2>4, <2>5, <2>6, <2>7
<1> QED
  BY <1>1, <1>2, PTL DEF Spec

LEMMA FourOctetsFrom ==
    ASSUME NEW A, A \subseteq Octets, NEW B, B \subseteq Octets, NEW C, C \subseteq Octets, NEW D, D \subseteq Octets,
           NEW ip, ip \in {<<a, b, c, d>> : a \in A, b \in B, c \in C, d \in D}
    PROVE  ip \in Ipv4s
<1>1. PICK a \in A, b \in B, c \in C, d \in D : ip = <<a, b, c, d>>
  OBVIOUS
<1> QED
  BY <1>1, FourOctets

LEMMA EightSegmentsFrom ==
    ASSUME NEW A, A \subseteq Segments, NEW B, B \subseteq Segments, NEW C, C \subseteq Segments,
           NEW F, F \subseteq Segments, NEW H, H \subseteq Segments,
           NEW ip, ip \in {<<a, b, c, 0, 0, f, 0, h>> : a \in A, b \in B, c \in C, f \in F, h \in H}
    PROVE  ip \in Ipv6s
<1>1. PICK a \in A, b \in B, c \in C, f \in F, h \in H : ip = <<a, b, c, 0, 0, f, 0, h>>
  OBVIOUS
<1>2. 0 \in Segments
  BY SMT DEF Segments
<1> QED
  BY <1>1, <1>2, EightSegments

LEMMA SampleAddress == PickAddress => in'.what = "address" /\ PublicAddress(in'.ip)
<1> SUFFICES ASSUME PickAddress PROVE in'.what = "address" /\ PublicAddress(in'.ip)
  OBVIOUS
<1>1. PICK ip \in Ipv4Edges \cup Ipv6Edges : in' = [what |-> "address", ip |-> ip]
  BY DEF PickAddress
<1>2. in'.what = "address" /\ in'.ip = ip
  BY <1>1
<1>3. ip \in Ipv4Edges => ip \in Ipv4s
  <2>1. /\ FirstOctets \subseteq Octets /\ SecondOctets \subseteq Octets
        /\ ThirdOctets \subseteq Octets /\ LastOctets \subseteq Octets
    <3>1. FirstOctets \subseteq Octets
      BY SMTT(60) DEF FirstOctets, Octets
    <3>2. SecondOctets \subseteq Octets
      BY SMTT(60) DEF SecondOctets, Octets
    <3>3. ThirdOctets \subseteq Octets /\ LastOctets \subseteq Octets
      BY SMTT(60) DEF ThirdOctets, LastOctets, Octets
    <3> QED
      BY <3>1, <3>2, <3>3
  <2> QED
    BY <2>1, FourOctetsFrom DEF Ipv4Edges
<1>4. ip \in Ipv6Edges => ip \in Ipv6s
  <2>1. /\ FirstSegments \subseteq Segments /\ SecondSegments \subseteq Segments
        /\ ThirdSegments \subseteq Segments /\ SixthSegments \subseteq Segments
        /\ LastSegments \subseteq Segments
    <3>1. FirstSegments \subseteq Segments
      BY SMTT(60) DEF FirstSegments, Segments
    <3>2. SecondSegments \subseteq Segments
      BY SMTT(60) DEF SecondSegments, Segments
    <3>3. ThirdSegments \subseteq Segments /\ SixthSegments \subseteq Segments /\ LastSegments \subseteq Segments
      BY SMTT(60) DEF ThirdSegments, SixthSegments, LastSegments, Segments
    <3> QED
      BY <3>1, <3>2, <3>3
  <2> QED
    BY <2>1, EightSegmentsFrom DEF Ipv6Edges
<1> QED
  BY <1>2, <1>3, <1>4, Public4, Public6

LEMMA SampleAddresses ==
    WAN \in Ipv4s /\ LAN \in Ipv4s /\ A1 \in Ipv4s /\ A2 \in Ipv4s /\ V6 \in Ipv6s
<1>1. /\ 8 \in Octets /\ 192 \in Octets /\ 168 \in Octets /\ 1 \in Octets /\ 7 \in Octets
      /\ 10 \in Octets /\ 26 \in Octets /\ 0 \in Octets /\ 2 \in Octets /\ 3 \in Octets
  BY SMT DEF Octets
<1>2. 9000 \in Segments /\ 1 \in Segments
  BY SMT DEF Segments
<1>3. WAN \in Ipv4s /\ LAN \in Ipv4s /\ A1 \in Ipv4s /\ A2 \in Ipv4s
  BY <1>1, FourOctets DEF WAN, LAN, A1, A2
<1>4. V6 \in Ipv6s
  BY <1>2, EightSegments, SMT DEF V6
<1> QED
  BY <1>3, <1>4

LEMMA SampleStun == PickStun => in'.what = "stun" /\ StunFindsNat(in'.rounds)
<1> SUFFICES ASSUME PickStun PROVE in'.what = "stun" /\ StunFindsNat(in'.rounds)
  OBVIOUS
<1> DEFINE A == StunAnswer
<1>1. Probes \subseteq A
  <2>1. /\ 1 \in PortNumbers /\ 99 \in PortNumbers /\ 100 \in PortNumbers
        /\ 278 \in PortNumbers /\ 65535 \in PortNumbers
    BY SMT DEF PortNumbers
  <2>2. /\ <<LAN, 1>> \in Mappings /\ <<LAN, 100>> \in Mappings /\ <<LAN, 278>> \in Mappings
        /\ <<LAN, 65535>> \in Mappings /\ <<A1, 100>> \in Mappings /\ <<V6, 100>> \in Mappings
        /\ <<LAN, 99>> \in Mappings
    BY <2>1, SampleAddresses, SMT DEF Mappings
  <2>3. Mapped \subseteq Mappings
    BY <2>2, SMT DEF Mapped
  <2>4. {NO_ADDR, <<LAN, 99>>} \subseteq Mappings \cup {NO_ADDR}
    BY <2>2
  <2> QED
    BY <2>3, <2>4 DEF Probes, StunAnswer
<1>2. Round \subseteq Seq(A)
  <2> HIDE DEF A
  <2> SUFFICES ASSUME NEW x \in Round PROVE x \in Seq(A)
    OBVIOUS
  <2>1. CASE x = << >>
    BY <2>1
  <2>2. CASE x \in {<<a, b>> : a, b \in Probes}
    <3>1. PICK a \in Probes, b \in Probes : x = <<a, b>>
      BY <2>2, SMT
    <3> QED
      BY <1>1, <3>1, SMT
  <2> QED
    BY <2>1, <2>2 DEF Round
<1>3. PICK a \in Round, b \in Round : in' = [what |-> "stun", rounds |-> <<a, b>>]
  BY SMT DEF PickStun
<1>4. in'.what = "stun" /\ in'.rounds = <<a, b>>
  BY <1>3
<1>5. <<a, b>> \in Rounds /\ <<a, b>> # << >>
  <2> DEFINE S == Seq(A)
  <2>1. a \in S /\ b \in S
    BY <1>2
  <2>2. Rounds = Seq(S)
    BY DEF Rounds
  <2> HIDE DEF S
  <2> QED
    BY <2>1, <2>2
<1> QED
  BY <1>4, <1>5, StunRight

LEMMA SampleGuess == PickGuess => in'.what = "guess" /\ GuessesArePorts(in'.port, in'.range)
<1> SUFFICES ASSUME PickGuess PROVE in'.what = "guess" /\ GuessesArePorts(in'.port, in'.range)
  OBVIOUS
<1>1. PICK port \in PortEdges, range \in 0 .. MAX_RANGE : in' = [what |-> "guess", port |-> port, range |-> range]
  BY DEF PickGuess
<1>2. in'.what = "guess" /\ in'.port = port /\ in'.range = range
  BY <1>1
<1>3. PortEdges \subseteq Segments /\ MAX_RANGE \in Nat
  BY SMT DEF PortEdges, Segments, MAX_RANGE
<1>4. port \in Segments /\ range \in Nat
  BY <1>1, <1>3
<1> QED
  BY <1>2, <1>4, GuessesRight

LEMMA SampleSweep == PickSweep => in'.what = "sweep" /\ SweepCovers(in'.all, in'.ips, in'.max)
<1> SUFFICES ASSUME PickSweep PROVE in'.what = "sweep" /\ SweepCovers(in'.all, in'.ips, in'.max)
  BY SMTT(60)
<1>1. PICK n \in 1 .. 9, k \in 0 .. 3, max \in 1 .. 12 :
        in' = [what |-> "sweep", all |-> [i \in 1 .. n |-> n + 1 - i], ips |-> [i \in 1 .. k |-> i], max |-> max]
  BY DEF PickSweep
<1> DEFINE all == [i \in 1 .. n |-> n + 1 - i]
           ips == [i \in 1 .. k |-> i]
<1>2. all \in Seq(Int) /\ ips \in Seq(Int) /\ max \in Nat
  <2>1. n \in Nat /\ k \in Nat /\ all \in [1 .. n -> Int] /\ ips \in [1 .. k -> Int]
    OBVIOUS
  <2> HIDE DEF all, ips
  <2> QED
    BY <2>1
<1>3. in'.what = "sweep" /\ in'.all = all /\ in'.ips = ips /\ in'.max = max
  BY <1>1
<1> HIDE DEF all, ips
<1> QED
  BY <1>2, <1>3, SweepRight

LEMMA SampleAsk == PickAsk => in'.what = "ask" /\ ChannelsAsked(in'.info, in'.n, in'.count)
<1> SUFFICES ASSUME PickAsk PROVE in'.what = "ask" /\ ChannelsAsked(in'.info, in'.n, in'.count)
  OBVIOUS
<1>1. in'.what = "ask" /\ in'.n \in 1 .. 4 /\ in'.count \in 0 .. 9
  BY DEF PickAsk
<1>2. in'.n \in Nat \ {0} /\ in'.count \in Nat
  BY <1>1
<1> QED
  BY <1>1, <1>2, ChannelsInTurn

LEMMA SamplePunch ==
    PickPunch => in'.what = "punch" /\ TargetsSensible(in'.m, Me, in'.peer, {A1, A2}, in'.tcp, 2, 4, in'.cone)
<1> SUFFICES ASSUME PickPunch
             PROVE  in'.what = "punch" /\ TargetsSensible(in'.m, Me, in'.peer, {A1, A2}, in'.tcp, 2, 4, in'.cone)
  OBVIOUS
<1> DEFINE nine == <<9, 9, 9, 9>>
           Locals == {LAN, A2, <<192, 168, 1, 8>>, <<127, 0, 0, 1>>}
           IpLists == {<< >>, <<WAN>>, <<WAN, A1>>, <<WAN, nine>>}
           Ports2 == {<<0, 0>>, <<70, 71>>, <<0, 71>>}
           Udps == {<< >>, <<50, 52>>, <<0, 80>>}
<1>1. PICK m \in PunchModels, local \in Locals, v6 \in {NO_ADDR, V6}, ips \in IpLists, ports \in Ports2,
           udp \in Udps, tcp \in {0, 60, 61}, cone \in BOOLEAN, tcp_too \in BOOLEAN :
        in' = [what |-> "punch", m |-> m, cone |-> cone, tcp |-> tcp_too,
               peer |-> NatInfo_new(ips, ports, 0, local, v6, udp, tcp, "Cone")]
  <2> HIDE DEF Locals, IpLists, Ports2, Udps
  <2> QED
    BY Zenon DEF PickPunch, Locals, IpLists, Ports2, Udps, nine
<1> DEFINE peer == NatInfo_new(ips, ports, 0, local, v6, udp, tcp, "Cone")
<1>2. in'.what = "punch" /\ in'.m = m /\ in'.peer = peer /\ in'.cone = cone /\ in'.tcp = tcp_too
  <2> HIDE DEF peer
  <2>1. in' = [what |-> "punch", m |-> m, cone |-> cone, tcp |-> tcp_too, peer |-> peer]
    BY <1>1 DEF peer
  <2> QED
    BY <2>1
<1>3. nine \in Ipv4s /\ Locals \subseteq Ipv4s
  <2>1. /\ 9 \in Octets /\ 192 \in Octets /\ 168 \in Octets /\ 1 \in Octets /\ 8 \in Octets
        /\ 127 \in Octets /\ 0 \in Octets
    BY SMT DEF Octets
  <2>2. nine \in Ipv4s /\ <<192, 168, 1, 8>> \in Ipv4s /\ <<127, 0, 0, 1>> \in Ipv4s
    BY <2>1, FourOctets
  <2> QED
    BY <2>2, SampleAddresses
<1>4. nine # LAN /\ WAN # LAN /\ A1 # LAN
  BY DEF LAN, WAN, A1
<1> HIDE DEF nine, Locals
<1>5. ips \in Seq(Ipv4s) /\ LAN \notin ToSet(ips) /\ NO_ADDR \notin ToSet(ips)
  <2>1. ips \in Seq(Ipv4s)
    <3>1. << >> \in Seq(Ipv4s) /\ <<WAN>> \in Seq(Ipv4s) /\ <<WAN, A1>> \in Seq(Ipv4s) /\ <<WAN, nine>> \in Seq(Ipv4s)
      BY <1>3, SampleAddresses
    <3> QED
      BY <3>1, ZenonT(60)
  <2>2. \A i \in DOMAIN ips : ips[i] \in {WAN, A1, nine}
    OBVIOUS
  <2> QED
    BY <1>3, <1>4, <2>1, <2>2, SampleAddresses, AddressLengths DEF ToSet
<1>6. ports \in Seq(Nat) /\ udp \in Seq(Nat)
  <2>1. <<0, 0>> \in Seq(Nat) /\ <<70, 71>> \in Seq(Nat) /\ <<0, 71>> \in Seq(Nat)
    BY SMT
  <2>2. << >> \in Seq(Nat) /\ <<50, 52>> \in Seq(Nat) /\ <<0, 80>> \in Seq(Nat)
    BY SMT
  <2>3. ports \in Seq(Nat)
    BY <2>1, ZenonT(60)
  <2>4. udp \in Seq(Nat)
    BY <2>2, ZenonT(60)
  <2> QED
    BY <2>3, <2>4
<1> HIDE DEF IpLists, Ports2, Udps
<1>7. peer \in NatInfos /\ \A x : x \in ToSet(peer.public_ips) => x \in ToSet(ips)
  <2>1. 0 \in Nat /\ local \in Ipv4s \cup {NO_ADDR} /\ v6 \in Ipv6s \cup {NO_ADDR} /\ tcp \in Nat
    BY <1>3, SampleAddresses
  <2> HIDE DEF peer
  <2>2. peer = NatInfo_new(ips, ports, 0, local, v6, udp, tcp, "Cone") /\ "Cone" \in {"Cone", "Symmetric"}
    BY DEF peer
  <2>3. ips \in Seq(Ipv4s)
    BY <1>5
  <2>4. TypedInfo(peer, ips, local)
    BY <1>6, <2>1, <2>2, <2>3, NatInfoTyped
  <2> QED
    BY <2>4 DEF TypedInfo
<1>8. Me \in NatInfos /\ Me.local_ipv4 \in {LAN, NO_ADDR}
  <2> DEFINE w == <<WAN>>
             o == <<40, 41>>
             u == <<50, 51>>
  <2>1. /\ w \in Seq(Ipv4s) /\ o \in Seq(Nat) /\ u \in Seq(Nat) /\ 0 \in Nat /\ 60 \in Nat
        /\ LAN \in Ipv4s \cup {NO_ADDR} /\ V6 \in Ipv6s \cup {NO_ADDR} /\ "Cone" \in {"Cone", "Symmetric"}
    BY SampleAddresses
  <2>2. Me = NatInfo_new(w, o, 0, LAN, V6, u, 60, "Cone")
    BY DEF Me
  <2> HIDE DEF w, o, u
  <2>3. TypedInfo(Me, w, LAN)
    BY <2>1, <2>2, NatInfoTyped, ZenonT(60)
  <2> QED
    BY <2>3 DEF TypedInfo
<1>9. Me.local_ipv4 \notin ToSet(peer.public_ips)
  BY <1>5, <1>7, <1>8
<1> HIDE DEF peer
<1>10. TargetsSensible(m, Me, peer, {A1, A2}, tcp_too, 2, 4, cone)
  <2>1. 2 \in Nat /\ 4 \in Nat
    OBVIOUS
  <2> QED
    BY <1>7, <1>8, <1>9, <2>1, PunchTargetsRight
<1> QED
  BY <1>2, <1>10

(* What is found out about NATs and tried at them is right: PunchAimsRight   *)
(* holds for the whole specification.                                       *)
THEOREM PunchAims == Spec => []PunchAimsRight
<1> DEFINE mine == {"address", "stun", "guess", "sweep", "punch", "ask"}
<1>1. Init => PunchAimsRight
  BY DEF Init, Idle, PunchAimsRight, PublicAddresses, StunFinds, GuessesPorts, SweepCoversPorts,
         PunchTargetsSensible, AllChannelsAsked
<1>2. PunchAimsRight /\ [Next]_vars => PunchAimsRight'
  <2> SUFFICES ASSUME PunchAimsRight, [Next]_vars PROVE PunchAimsRight'
    OBVIOUS
  <2> USE DEF PunchAimsRight, PublicAddresses, StunFinds, GuessesPorts, SweepCoversPorts,
              PunchTargetsSensible, AllChannelsAsked
  <2>1. CASE UNCHANGED vars
    BY <2>1 DEF vars
  <2>2. CASE PickAddress
    BY <2>2, SampleAddress
  <2>3. CASE PickStun
    BY <2>3, SampleStun
  <2>4. CASE PickGuess
    BY <2>4, SampleGuess
  <2>5. CASE PickSweep
    BY <2>5, SampleSweep
  <2>6. CASE PickPunch
    BY <2>6, SamplePunch
  <2>7. CASE PickAsk
    BY <2>7, SampleAsk
  <2>8. CASE StepUdp
    <3>1. in.what = "udp" /\ \E n \in Steps(in.m) : in' = [in EXCEPT !.m = n]
      BY <2>8 DEF StepUdp
    <3>2. in'.what \notin mine
      BY <3>1
    <3> QED
      BY <3>2
  <2>9. CASE /\ Next
             /\ ~ PickAddress /\ ~ PickStun /\ ~ PickGuess /\ ~ PickSweep /\ ~ PickPunch /\ ~ PickAsk /\ ~ StepUdp
    <3>1. in'.what \notin mine
      BY <2>9, Picked DEF Next
    <3> QED
      BY <3>1
  <2> QED
    BY <2>1, <2>2, <2>3, <2>4, <2>5, <2>6, <2>7, <2>8, <2>9
<1> QED
  BY <1>1, <1>2, PTL DEF Spec

-----------------------------------------------------------------------------
(* Names: which server the client talks to. *)

(* The write of a new address by domain_request0 (maintain/idle.rs), after   *)
(* queries that took seconds, undoes nothing that happened to the device     *)
(* info meanwhile, whatever the info before and after holds.                 *)
THEOREM QueryUndoesNothing ==
    ASSUME NEW X, NEW loaded, NEW now, NEW chosen,
           NEW Y, NEW Z, loaded \in [connect_server : X, status : Y, virtual_ip : Z],
           now \in [connect_server : X, status : Y, virtual_ip : Z]
    PROVE  QueryHarmless(loaded, now, chosen)
<1> DEFINE tmp == [loaded EXCEPT !.connect_server = chosen]
           r == domain_request0(loaded, now, chosen)
<1>1. CASE chosen \in {NO_SERVER, loaded.connect_server}
  <2>1. r = [current |-> now, returned |-> loaded]
    BY <1>1 DEF domain_request0
  <2> HIDE DEF r
  <2>2. r.current = now /\ r.returned = loaded
    BY <2>1
  <2> QED
    BY <1>1, <2>2 DEF QueryHarmless, r
<1>2. CASE chosen \notin {NO_SERVER, loaded.connect_server} /\ now = loaded
  <2>1. r = [current |-> tmp, returned |-> tmp]
    BY <1>2 DEF domain_request0
  <2>2. [tmp EXCEPT !.connect_server = now.connect_server] = now /\ tmp.connect_server = chosen
    BY <1>2
  <2> HIDE DEF r, tmp
  <2>3. r.current = tmp /\ r.returned = tmp
    BY <2>1
  <2> QED
    BY <1>2, <2>2, <2>3 DEF QueryHarmless, r
<1>3. CASE chosen \notin {NO_SERVER, loaded.connect_server} /\ now # loaded
  <2>1. r = [current |-> now, returned |-> loaded]
    BY <1>3 DEF domain_request0
  <2> HIDE DEF r
  <2>2. r.current = now /\ r.returned = loaded
    BY <2>1
  <2> QED
    BY <1>3, <2>2 DEF QueryHarmless, r
<1> QED
  BY <1>1, <1>2, <1>3

(* FirstOf: the first list that is not empty. *)
FirstIs(r, lists) ==
    \/ /\ r = Failed
       /\ \A i \in DOMAIN lists : lists[i] = << >>
    \/ \E i \in DOMAIN lists : lists[i] # << >> /\ r = Found(lists[i])
LEMMA FirstFound ==
    ASSUME NEW T, NEW lists \in Seq(T)
    PROVE  FirstIs(FirstOf(lists), lists)
<1> DEFINE good == ToSet(lists) \ {<< >>}
           some == Kept(lists, good)
<1>1. FirstOf(lists) = IF some = << >> THEN Failed ELSE Found(Head(some))
  BY DEF FirstOf
<1>2. \A x : x \in good <=> x # << >> /\ \E i \in DOMAIN lists : lists[i] = x
  BY DEF ToSet
<1> HIDE DEF good
<1>3. /\ some \in Seq(T)
      /\ \A x : x \in ToSet(some) <=> x \in ToSet(lists) /\ x \in good
  BY KeptFacts
<1> HIDE DEF some
<1>4. CASE some = << >>
  <2>1. ToSet(some) = {}
    BY <1>4 DEF ToSet
  <2>2. ASSUME NEW i \in DOMAIN lists PROVE lists[i] = << >>
    <3>1. lists[i] \in ToSet(lists)
      BY DEF ToSet
    <3> QED
      BY <1>2, <1>3, <2>1, <3>1
  <2> QED
    BY <1>1, <1>4, <2>2 DEF FirstIs
<1>5. CASE some # << >>
  <2>1. 1 \in DOMAIN some /\ Head(some) = some[1]
    BY <1>3, <1>5
  <2>2. Head(some) \in ToSet(some)
    BY <2>1 DEF ToSet
  <2>3. Head(some) \in good
    BY <1>3, <2>2
  <2> QED
    BY <1>1, <1>2, <1>5, <2>3, Zenon DEF FirstIs
<1> QED
  BY <1>4, <1>5

LEMMA FoundOk == ~ Failed.ok /\ \A l : Found(l).ok /\ Found(l).addrs = l
BY DEF Failed, Found

(* AskServers: an answer of one of the servers, if there is one. *)
AnswersOf(domain, servers, reply) ==
    {Answer(domain, reply[s]) : s \in ToSet(servers) \cap DOMAIN reply} \ {<< >>}
OneAnswer(r, answers) ==
    \/ r = Failed /\ answers = {}
    \/ \E l \in answers : r = Found(l)
LEMMA AskedFound ==
    ASSUME NEW domain, NEW S, NEW servers \in Seq(S), NEW reply, NEW r, r = AskServers(domain, servers, reply),
           NEW answers, answers = AnswersOf(domain, servers, reply)
    PROVE  OneAnswer(r, answers)
<1> DEFINE Of(s) == IF s \in DOMAIN reply THEN Answer(domain, reply[s]) ELSE << >>
           T == {Of(s) : s \in ToSet(servers)}
           lists == [i \in DOMAIN servers |-> Of(servers[i])]
           n == Len(servers)
<1>1. r = FirstOf(lists)
  BY DEF AskServers
<1>2. DOMAIN servers = 1 .. n /\ n \in Nat
  BY LenProperties
<1>3. \A x : x \in answers <=> x # << >> /\ \E i \in DOMAIN servers : servers[i] \in DOMAIN reply /\ x = Of(servers[i])
  <2> DEFINE An(s) == Answer(domain, reply[s])
  <2>1. answers = {An(s) : s \in ToSet(servers) \cap DOMAIN reply} \ {<< >>}
    BY DEF AnswersOf
  <2> HIDE DEF An
  <2>2. \A x : x \in answers <=> x # << >> /\ \E s \in ToSet(servers) : s \in DOMAIN reply /\ x = An(s)
    BY <2>1
  <2>3. \A s : s \in DOMAIN reply => Of(s) = An(s)
    BY DEF An
  <2>4. \A s : s \in ToSet(servers) <=> \E i \in DOMAIN servers : servers[i] = s
    BY DEF ToSet
  <2> HIDE DEF Of, An
  <2>5. ASSUME NEW x, x \in answers
        PROVE  x # << >> /\ \E i \in DOMAIN servers : servers[i] \in DOMAIN reply /\ x = Of(servers[i])
    <3>1. x # << >>
      BY <2>2, <2>5
    <3>2. PICK s \in ToSet(servers) : s \in DOMAIN reply /\ x = An(s)
      BY <2>2, <2>5
    <3>3. PICK i \in DOMAIN servers : servers[i] = s
      BY <2>4, <3>2
    <3>4. x = Of(s)
      BY <2>3, <3>2
    <3> QED
      BY <3>1, <3>2, <3>3, <3>4
  <2>6. ASSUME NEW x, x # << >>, NEW i \in DOMAIN servers, servers[i] \in DOMAIN reply, x = Of(servers[i])
        PROVE  x \in answers
    <3>1. servers[i] \in ToSet(servers)
      BY <2>4
    <3>2. x = An(servers[i])
      BY <2>3, <2>6
    <3> QED
      BY <2>2, <2>6, <3>1, <3>2
  <2> QED
    BY <2>5, <2>6
<1>4. \A s : Of(s) # << >> => s \in DOMAIN reply
  OBVIOUS
<1> HIDE DEF Of
<1>5. lists \in Seq(T) /\ DOMAIN lists = DOMAIN servers /\ \A i \in DOMAIN servers : lists[i] = Of(servers[i])
  <2>1. \A i \in DOMAIN servers : Of(servers[i]) \in T
    BY DEF ToSet
  <2>2. lists \in [1 .. n -> T]
    BY <1>2, <2>1
  <2>3. DOMAIN lists = DOMAIN servers /\ \A i \in DOMAIN servers : lists[i] = Of(servers[i])
    OBVIOUS
  <2> HIDE DEF lists, T, n
  <2> QED
    BY <1>2, <2>2, <2>3
<1> HIDE DEF lists, T
<1>6. FirstIs(r, lists)
  BY <1>1, <1>5, FirstFound
<1>7. CASE r = Failed /\ \A i \in DOMAIN lists : lists[i] = << >>
  BY <1>3, <1>5, <1>7 DEF OneAnswer
<1>8. CASE \E i \in DOMAIN lists : lists[i] # << >> /\ r = Found(lists[i])
  <2>1. PICK i \in DOMAIN lists : lists[i] # << >> /\ r = Found(lists[i])
    BY <1>8
  <2>2. lists[i] \in answers
    BY <1>3, <1>4, <1>5, <2>1
  <2> QED
    BY <2>1, <2>2 DEF OneAnswer
<1> QED
  BY <1>6, <1>7, <1>8 DEF FirstIs

(* The six calls of the resolver of the system: three before, three after. *)
Halves(system, before, after, T) ==
    /\ before \in Seq(T) /\ after \in Seq(T)
    /\ \A x : x \in ToSet(system) <=> x \in ToSet(before) \/ x \in ToSet(after)
LEMMA SystemSplit ==
    ASSUME NEW T, NEW system \in Seq(T), Len(system) = 2 * ATTEMPTS,
           NEW before, before = SubSeq(system, 1, ATTEMPTS),
           NEW after, after = SubSeq(system, ATTEMPTS + 1, 2 * ATTEMPTS)
    PROVE  Halves(system, before, after, T)
<1>1. ATTEMPTS = 3 /\ ATTEMPTS + 1 = 4 /\ 2 * ATTEMPTS = 6
  BY DEF ATTEMPTS
<1>2. Len(system) = 6 /\ DOMAIN system = 1 .. 6 /\ \A i \in 1 .. 6 : system[i] \in T
  BY <1>1, LenProperties, ElementOfSeq
<1>3. /\ before \in Seq(T) /\ Len(before) = 3 /\ DOMAIN before = 1 .. 3
      /\ \A i \in 1 .. 3 : before[i] = system[i]
  BY <1>1, <1>2
<1>4. /\ after \in Seq(T) /\ Len(after) = 3 /\ DOMAIN after = 1 .. 3
      /\ \A i \in 1 .. 3 : after[i] = system[i + 3]
  BY <1>1, <1>2
<1>5. \A x : x \in ToSet(before) <=> \E i \in 1 .. 3 : system[i] = x
  BY <1>3 DEF ToSet
<1>6. \A x : x \in ToSet(after) <=> \E i \in 1 .. 3 : system[i + 3] = x
  BY <1>4 DEF ToSet
<1>7. \A x : x \in ToSet(system) <=> \E i \in 1 .. 6 : system[i] = x
  BY <1>2 DEF ToSet
<1>8. \A x : x \in ToSet(before) <=> system[1] = x \/ system[2] = x \/ system[3] = x
  BY <1>5
<1>9. \A x : x \in ToSet(after) <=> system[4] = x \/ system[5] = x \/ system[6] = x
  BY <1>6
<1>10. \A x : x \in ToSet(system) <=> \/ system[1] = x \/ system[2] = x \/ system[3] = x
                                      \/ system[4] = x \/ system[5] = x \/ system[6] = x
  BY <1>7
<1> QED
  BY <1>3, <1>4, <1>8, <1>9, <1>10 DEF Halves

LEMMA SmallLists ==
    ASSUME NEW S, NEW a \in S, NEW b \in S, NEW c \in S
    PROVE  <<a, b>> \in Seq(S) /\ <<a, b, c>> \in Seq(S)
OBVIOUS
LEMMA DefaultsTyped == ASSUME NEW txt PROVE \E S : DefaultServers(txt) \in Seq(S)
<1> DEFINE S == {"223.5.5.5", "114.114.114.114", "8.8.8.8"}
<1>1. "223.5.5.5" \in S /\ "114.114.114.114" \in S /\ "8.8.8.8" \in S
  BY Zenon
<1> HIDE DEF S
<1>2. <<"223.5.5.5", "114.114.114.114">> \in Seq(S)
  BY <1>1, SmallLists
<1>3. <<"223.5.5.5", "114.114.114.114", "8.8.8.8">> \in Seq(S)
  BY <1>1, SmallLists
<1> QED
  BY <1>2, <1>3, Zenon DEF DefaultServers
LEMMA FirstOfSix ==
    ASSUME NEW T, NEW s \in Seq(T), Len(s) = 6
    PROVE  1 \in DOMAIN s /\ s[1] \in T
OBVIOUS

(* One name server that answers is enough to find the server, whatever the   *)
(* others do, and so is one of the six calls of the resolver of iOS; what is  *)
(* found is one of the answers (dns_query.rs dns_query_all).                 *)
THEOREM NamesFound ==
    ASSUME NEW domain, NEW S, NEW servers \in Seq(S), NEW reply, NEW T, NEW system \in Seq(T),
           Len(system) = 2 * ATTEMPTS, NEW ios \in BOOLEAN
    PROVE  FoundIfAnswered(domain, servers, reply, system, ios)
<1> DEFINE txt == domain.kind = "txt"
           bs == SubSeq(system, 1, ATTEMPTS)
           fs == SubSeq(system, ATTEMPTS + 1, 2 * ATTEMPTS)
           before == FirstOf(bs)
           after == FirstOf(fs)
           list == IF servers = << >> THEN DefaultServers(txt) ELSE servers
           asked == AskServers(domain, list, reply)
           r == dns_query_all(domain, servers, reply, system, ios)
           answers == AnswersOf(domain, list, reply)
           resolved == ToSet(system) \ {<< >>}
           usable == domain.kind = "txt" \/ (domain.kind = "name" /\ domain.port)
<1>1. FoundIfAnswered(domain, servers, reply, system, ios) <=>
         (usable => /\ answers # {} /\ servers # << >> => r.ok
                    /\ ios /\ domain.kind = "name" /\ resolved # {} => r.ok
                    /\ r.ok => r.addrs \in answers \cup resolved)
  BY DEF FoundIfAnswered, AnswersOf
<1>2. r = CASE domain.kind = "addr" -> Found(<<domain.addr>>)
            [] domain.kind = "name" /\ ios /\ before.ok -> before
            [] domain.kind = "name" /\ ~ ios /\ servers = << >> -> FirstOf(<<system[1]>>)
            [] domain.kind = "name" /\ (servers # << >> \/ ios) /\ ~ (ios /\ before.ok) ->
                  IF ~ domain.port THEN Failed
                  ELSE IF asked.ok \/ ~ ios THEN asked ELSE after
            [] OTHER -> asked
  BY DEF dns_query_all
<1>3. \E Q : list \in Seq(Q)
  <2>1. \E Q : DefaultServers(txt) \in Seq(Q)
    BY DefaultsTyped
  <2> HIDE DEF txt
  <2> QED
    BY <2>1
<1> HIDE DEF list
<1>4. OneAnswer(asked, answers)
  <2>1. asked = AskServers(domain, list, reply)
    OBVIOUS
  <2>2. answers = AnswersOf(domain, list, reply)
    OBVIOUS
  <2> HIDE DEF asked, answers
  <2>3. PICK Q : list \in Seq(Q)
    BY <1>3
  <2> QED
    BY <2>1, <2>2, <2>3, AskedFound
<1>5. (asked.ok => asked.addrs \in answers) /\ (answers # {} => asked.ok)
  <2> HIDE DEF asked, answers
  <2> QED
    BY <1>4, FoundOk DEF OneAnswer
<1>6. /\ bs \in Seq(T) /\ fs \in Seq(T)
      /\ \A x : x \in ToSet(system) <=> x \in ToSet(bs) \/ x \in ToSet(fs)
  <2>1. bs = SubSeq(system, 1, ATTEMPTS) /\ fs = SubSeq(system, ATTEMPTS + 1, 2 * ATTEMPTS)
    OBVIOUS
  <2> HIDE DEF bs, fs
  <2>2. Halves(system, bs, fs, T)
    BY <2>1, SystemSplit
  <2> QED
    BY <2>2 DEF Halves
<1> HIDE DEF asked, answers, bs, fs
<1>7. FirstIs(before, bs) /\ FirstIs(after, fs)
  BY <1>6, FirstFound
<1> HIDE DEF before, after
<1>8. /\ before.ok => before.addrs \in resolved
      /\ (\E x \in ToSet(bs) : x # << >>) => before.ok
  BY <1>6, <1>7, FoundOk DEF FirstIs, ToSet
<1>9. /\ after.ok => after.addrs \in resolved
      /\ (\E x \in ToSet(fs) : x # << >>) => after.ok
  BY <1>6, <1>7, FoundOk DEF FirstIs, ToSet
<1>10. resolved # {} => (\E x \in ToSet(bs) : x # << >>) \/ (\E x \in ToSet(fs) : x # << >>)
  BY <1>6
<1> HIDE DEF r, resolved, txt
<1> SUFFICES ASSUME usable
             PROVE  /\ answers # {} /\ servers # << >> => r.ok
                    /\ ios /\ domain.kind = "name" /\ resolved # {} => r.ok
                    /\ r.ok => r.addrs \in answers \cup resolved
  BY <1>1
<1>11. CASE domain.kind = "txt"
  <2>1. r = asked
    BY <1>2, <1>11
  <2> QED
    BY <1>5, <1>11, <2>1
<1>12. CASE domain.kind = "name" /\ ios /\ before.ok
  <2>1. r = before
    BY <1>2, <1>12
  <2> QED
    BY <1>8, <1>12, <2>1
<1>13. CASE domain.kind = "name" /\ ~ ios /\ servers = << >>
  <2> DEFINE one == <<system[1]>>
             f == FirstOf(one)
  <2>1. r = f
    BY <1>2, <1>13
  <2>2. one \in Seq(T) /\ DOMAIN one = {1} /\ one[1] = system[1] /\ 1 \in DOMAIN system
    <3>1. Len(system) = 6
      BY DEF ATTEMPTS
    <3>2. 1 \in DOMAIN system /\ system[1] \in T
      BY <3>1, FirstOfSix
    <3> QED
      BY <3>2
  <2>3. system[1] \in ToSet(system)
    BY <2>2 DEF ToSet
  <2> HIDE DEF one
  <2>4. FirstIs(f, one)
    BY <2>2, FirstFound
  <2> HIDE DEF f
  <2>5. f.ok => f.addrs \in resolved
    BY <2>2, <2>3, <2>4, FoundOk DEF FirstIs, resolved
  <2> QED
    BY <1>13, <2>1, <2>5
<1>14. CASE domain.kind = "name" /\ (servers # << >> \/ ios) /\ ~ (ios /\ before.ok)
  <2>1. domain.port
    BY <1>14
  <2>2. r = IF asked.ok \/ ~ ios THEN asked ELSE after
    BY <1>2, <1>14, <2>1
  <2>3. CASE asked.ok \/ ~ ios
    <3>1. r = asked
      BY <2>2, <2>3
    <3> QED
      BY <1>5, <2>3, <3>1
  <2>4. CASE ~ (asked.ok \/ ~ ios)
    <3>1. r = after
      BY <2>2, <2>4
    <3> QED
      BY <1>5, <1>8, <1>9, <1>10, <1>14, <2>4, <3>1
  <2> QED
    BY <2>3, <2>4
<1> QED
  BY <1>11, <1>12, <1>13, <1>14

(* address_choose0: an address that connects, if there is one. *)
ServerAddrs(X) == {"v4", "v6"} \X X
Connected(r, pool, connects) ==
    \/ r = NO_SERVER /\ \A a \in pool : a \notin connects
    \/ r # NO_SERVER /\ r \in pool /\ r \in connects

LEMMA CheckAddr ==
    ASSUME NEW T, NO_SERVER \notin T, NEW s \in Seq(T), NEW connects, NEW r, r = check_addr(s, connects)
    PROVE  Connected(r, ToSet(s), connects)
<1> DEFINE good == Kept(s, connects)
<1>1. r = IF good = << >> THEN NO_SERVER ELSE Head(good)
  BY DEF check_addr
<1>2. /\ good \in Seq(T)
      /\ \A x : x \in ToSet(good) <=> x \in ToSet(s) /\ x \in connects
  BY KeptFacts
<1> HIDE DEF good
<1>3. CASE good = << >>
  <2>1. ToSet(good) = {}
    BY <1>3 DEF ToSet
  <2> QED
    BY <1>1, <1>2, <1>3, <2>1 DEF Connected
<1>4. CASE good # << >>
  <2>1. 1 \in DOMAIN good /\ Head(good) = good[1] /\ good[1] \in T
    BY <1>2, <1>4
  <2>2. Head(good) \in ToSet(good)
    BY <2>1 DEF ToSet
  <2> QED
    BY <1>1, <1>2, <1>4, <2>1, <2>2 DEF Connected
<1> QED
  BY <1>3, <1>4

LEMMA ChooseConnected ==
    ASSUME NEW X, NEW list \in Seq(ServerAddrs(X)), NEW connects, NEW r, r = address_choose0(list, connects)
    PROVE  Connected(r, ToSet(list), connects)
<1> DEFINE own(family) == {a \in ToSet(list) : a[1] = family}
           k4 == Kept(list, own("v4"))
           k6 == Kept(list, own("v6"))
           c4 == check_addr(k4, connects)
           c6 == check_addr(k6, connects)
<1>1. r = IF c6 # NO_SERVER THEN c6 ELSE c4
  BY DEF address_choose0
<1>2. NO_SERVER \notin ServerAddrs(X)
  BY DEF NO_SERVER, ServerAddrs
<1>3. \A a \in ToSet(list) : a \in ServerAddrs(X)
  BY ElementOfSeq DEF ToSet
<1>4. \A a \in ToSet(list) : a \in own("v4") \/ a \in own("v6")
  BY <1>3 DEF ServerAddrs
<1>5. \A f, a : a \in own(f) => a \in ToSet(list)
  OBVIOUS
<1> HIDE DEF own
<1>6. /\ k4 \in Seq(ServerAddrs(X)) /\ k6 \in Seq(ServerAddrs(X))
      /\ \A x : x \in ToSet(k4) <=> x \in ToSet(list) /\ x \in own("v4")
      /\ \A x : x \in ToSet(k6) <=> x \in ToSet(list) /\ x \in own("v6")
  BY KeptFacts
<1> HIDE DEF k4, k6
<1>7. Connected(c4, ToSet(k4), connects) /\ Connected(c6, ToSet(k6), connects)
  BY <1>2, <1>6, CheckAddr
<1> HIDE DEF c4, c6
<1> QED
  BY <1>1, <1>4, <1>6, <1>7 DEF Connected

(* One call of address_choose: from the addresses that are not used up, or  *)
(* from all of them once they are, with the counts started again.           *)
Histories(All) == UNION {[D -> Nat] : D \in SUBSET All}
Choice(r, base, pool, connects) ==
    /\ Connected(r.addr, pool, connects)
    /\ r.addr = NO_SERVER => r.history = base
    /\ r.addr # NO_SERVER => r.history = [b \in DOMAIN base \cup {r.addr} |-> Uses(base, b) + IF b = r.addr THEN 1 ELSE 0]
Fresh(h, all) == {a \in all : Uses(h, a) < MAX_USES}

LEMMA OneCall ==
    ASSUME NEW X, NEW list \in Seq(ServerAddrs(X)), NEW connects, NEW h, NEW r, r = address_choose(h, list, connects)
    PROVE  \/ Fresh(h, ToSet(list)) = {} /\ Choice(r, << >>, ToSet(list), connects)
           \/ Choice(r, h, Fresh(h, ToSet(list)), connects)
<1> DEFINE fresh == Fresh(h, ToSet(list))
           available == Kept(list, fresh)
           c == address_choose0(list, connects)
           d == address_choose0(available, connects)
<1>1. r = IF available = << >> THEN Chosen(c, << >>) ELSE Chosen(d, h)
  BY DEF address_choose, Fresh
<1>2. \A x : x \in fresh => x \in ToSet(list)
  BY DEF Fresh
<1> HIDE DEF fresh
<1>3. available \in Seq(ServerAddrs(X)) /\ \A x : x \in ToSet(available) <=> x \in ToSet(list) /\ x \in fresh
  BY KeptFacts
<1> HIDE DEF available
<1>4. ToSet(available) = fresh
  BY <1>2, <1>3
<1>5. Connected(c, ToSet(list), connects) /\ Connected(d, fresh, connects)
  BY <1>3, <1>4, ChooseConnected
<1> HIDE DEF c, d
<1>6. ASSUME NEW a, NEW base, NEW pool, Connected(a, pool, connects)
      PROVE  Choice(Chosen(a, base), base, pool, connects)
  <2> DEFINE q == Chosen(a, base)
  <2>1. q.addr = a /\ q.history = IF a = NO_SERVER THEN base
                                  ELSE [b \in DOMAIN base \cup {a} |-> Uses(base, b) + IF b = a THEN 1 ELSE 0]
    BY DEF Chosen
  <2> HIDE DEF q
  <2>2. Choice(q, base, pool, connects)
    BY <1>6, <2>1 DEF Choice
  <2> QED
    BY <2>2 DEF q
<1>7. CASE available = << >>
  <2>1. fresh = {}
    BY <1>4, <1>7 DEF ToSet
  <2> QED
    BY <1>1, <1>5, <1>6, <1>7, <2>1 DEF fresh
<1>8. CASE available # << >>
  BY <1>1, <1>5, <1>6, <1>8 DEF fresh
<1> QED
  BY <1>7, <1>8

LEMMA HistoryIs ==
    ASSUME NEW All, NEW h
    PROVE  h \in Histories(All) <=> DOMAIN h \subseteq All /\ h \in [DOMAIN h -> Nat]
<1>1. ASSUME h \in Histories(All) PROVE DOMAIN h \subseteq All /\ h \in [DOMAIN h -> Nat]
  <2>1. PICK D \in SUBSET All : h \in [D -> Nat]
    BY <1>1 DEF Histories
  <2> QED
    BY <2>1
<1>2. ASSUME DOMAIN h \subseteq All, h \in [DOMAIN h -> Nat] PROVE h \in Histories(All)
  <2> DEFINE D == DOMAIN h
  <2>1. D \in SUBSET All /\ h \in [D -> Nat]
    BY <1>2
  <2> HIDE DEF D
  <2> QED
    BY <2>1, Zenon DEF Histories
<1> QED
  BY <1>1, <1>2

(* What a call does to the counts. *)
LEMMA ChoiceCounts ==
    ASSUME NEW All, NEW base \in Histories(All), NEW pool, pool \subseteq All, NEW connects, NEW r,
           Choice(r, base, pool, connects)
    PROVE  /\ r.history \in Histories(All)
           /\ \A a : Uses(r.history, a) = Uses(base, a) + (IF a = r.addr /\ a # NO_SERVER THEN 1 ELSE 0)
<1>1. DOMAIN base \subseteq All /\ base \in [DOMAIN base -> Nat]
  BY HistoryIs
<1>2. \A a : Uses(base, a) \in Nat
  BY <1>1 DEF Uses
<1>3. CASE r.addr = NO_SERVER
  BY <1>2, <1>3 DEF Choice
<1>4. CASE r.addr # NO_SERVER
  <2> DEFINE D == DOMAIN base \cup {r.addr}
             h == r.history
             a0 == r.addr
  <2>1. h = [b \in D |-> Uses(base, b) + IF b = a0 THEN 1 ELSE 0] /\ a0 \in pool
    BY <1>4 DEF Choice, Connected
  <2>2. D \subseteq All /\ a0 \in D /\ a0 # NO_SERVER
    BY <1>1, <1>4, <2>1
  <2>3. \A b : b \notin D => Uses(base, b) = 0
    BY DEF Uses
  <2> HIDE DEF D, h, a0
  <2>4. DOMAIN h = D /\ \A b \in D : h[b] = Uses(base, b) + IF b = a0 THEN 1 ELSE 0
    BY <2>1
  <2>5. h \in [D -> Nat]
    BY <1>2, <2>1
  <2>6. h \in Histories(All)
    BY <2>2, <2>4, <2>5, HistoryIs
  <2>7. \A a : Uses(h, a) = Uses(base, a) + (IF a = a0 /\ a # NO_SERVER THEN 1 ELSE 0)
    BY <1>2, <2>2, <2>3, <2>4 DEF Uses
  <2> QED
    BY <2>6, <2>7 DEF h, a0
<1> QED
  BY <1>3, <1>4

(* The runs of address_choose. *)
LEMMA EmptyHistory == ASSUME NEW All PROVE << >> \in Histories(All) /\ \A a : Uses(<< >>, a) = 0
<1>1. DOMAIN << >> = {} /\ << >> \in [{} -> Nat]
  OBVIOUS
<1>2. << >> \in Histories(All)
  BY <1>1, HistoryIs
<1> QED
  BY <1>1, <1>2 DEF Uses

SameAnswers(lists, all) == \A n \in DOMAIN lists : ToSet(lists[n]) = all
Choosing(run, lists, connects, all) ==
    /\ run[0].history \in Histories(all) /\ \A a : Uses(run[0].history, a) = 0
    /\ \A n \in 0 .. Len(lists) : run[n].history \in Histories(all)
    /\ \A n \in 1 .. Len(lists) : run[n] = address_choose(run[n - 1].history, lists[n], connects)
    /\ Turns(lists, connects) = [n \in DOMAIN lists |-> run[n].addr]

LEMMA CallTyped ==
    ASSUME NEW X, NEW list \in Seq(ServerAddrs(X)), NEW connects, NEW All, ToSet(list) \subseteq All,
           NEW h \in Histories(All)
    PROVE  /\ address_choose(h, list, connects).history \in Histories(All)
           /\ address_choose(h, list, connects) =
                [addr |-> address_choose(h, list, connects).addr, history |-> address_choose(h, list, connects).history]
           /\ address_choose(h, list, connects).addr \in All \cup {NO_SERVER}
<1> DEFINE r == address_choose(h, list, connects)
<1>1. \/ Fresh(h, ToSet(list)) = {} /\ Choice(r, << >>, ToSet(list), connects)
      \/ Choice(r, h, Fresh(h, ToSet(list)), connects)
  BY OneCall
<1>2. \A x \in Fresh(h, ToSet(list)) : x \in All
  BY DEF Fresh
<1>3. \E a, b : r = Chosen(a, b)
  BY DEF address_choose
<1>4. r = [addr |-> r.addr, history |-> r.history]
  <2> HIDE DEF r
  <2> QED
    BY <1>3 DEF Chosen
<1> HIDE DEF r
<1>5. r.history \in Histories(All)
  BY <1>1, <1>2, ChoiceCounts, EmptyHistory
<1>6. r.addr \in All \cup {NO_SERVER}
  BY <1>1, <1>2 DEF Choice, Connected
<1> QED
  BY <1>4, <1>5, <1>6 DEF r

LEMMA TurnsRun ==
    ASSUME NEW X, NEW lists \in Seq(Seq(ServerAddrs(X))), NEW connects, NEW all, SameAnswers(lists, all)
    PROVE  \E run : Choosing(run, lists, connects, all)
<1> DEFINE x == Chosen(NO_SERVER, << >>)
           S == [addr : all \cup {NO_SERVER}, history : Histories(all)]
           D == 0 .. Len(lists)
           Step(k, r) == IF k \in 1 .. Len(lists) THEN address_choose(r.history, lists[k], connects) ELSE r
           g == [p \in Nat \X S |-> Step(p[1], p[2])]
<1>1. x \in S /\ x.history = << >>
  BY EmptyHistory DEF Chosen
<1>2. Len(lists) \in Nat /\ DOMAIN lists = 1 .. Len(lists)
  BY LenProperties
<1>3. ASSUME NEW k \in 1 .. Len(lists), NEW r \in S PROVE address_choose(r.history, lists[k], connects) \in S
  <2>1. lists[k] \in Seq(ServerAddrs(X)) /\ ToSet(lists[k]) \subseteq all
    BY <1>2, SMTT(60) DEF SameAnswers
  <2> DEFINE l == lists[k]
             h == r.history
             q == address_choose(h, l, connects)
  <2>2. h \in Histories(all) /\ l \in Seq(ServerAddrs(X)) /\ ToSet(l) \subseteq all
    BY <2>1
  <2> HIDE DEF l, h
  <2>3. q.history \in Histories(all) /\ q = [addr |-> q.addr, history |-> q.history] /\ q.addr \in all \cup {NO_SERVER}
    BY <2>2, CallTyped
  <2> HIDE DEF q
  <2>4. q \in S
    BY <2>3
  <2> QED
    BY <2>4 DEF q, l, h
<1>4. \A k \in Nat, r \in S : Step(k, r) \in S
  BY <1>3
<1>5. g \in [Nat \X S -> S]
  <2> HIDE DEF S, Step
  <2> QED
    BY <1>4
<1>6. PICK f : IsRun(f, Len(lists), x, g, S)
  <2> HIDE DEF g, x, S
  <2> QED
    BY <1>1, <1>2, <1>5, RunExists
<1>7. f \in [D -> S] /\ f[0] = x
  BY <1>6 DEF IsRun
<1>8. f = [n \in D |-> IF n = 0 THEN x ELSE address_choose(f[n - 1].history, lists[n], connects)]
  <2>2. ASSUME NEW n \in D, n # 0 PROVE f[n] = address_choose(f[n - 1].history, lists[n], connects)
    <3>1. n \in 1 .. Len(lists) /\ n \in Nat /\ n - 1 \in D
      BY <1>2, <2>2
    <3>2. f[n - 1] \in S
      BY <1>7, <3>1
    <3>3. f[n] = g[<<n, f[n - 1]>>]
      BY <1>6, <3>1 DEF IsRun
    <3>4. g[<<n, f[n - 1]>>] = Step(n, f[n - 1])
      <4> HIDE DEF S, Step
      <4> QED
        BY <3>1, <3>2
    <3> QED
      BY <3>1, <3>3, <3>4
  <2> HIDE DEF x, D
  <2> QED
    BY <1>7, <2>2
<1> DEFINE run == CHOOSE h : h = [n \in D |-> IF n = 0 THEN x ELSE address_choose(h[n - 1].history, lists[n], connects)]
<1>9. run = [n \in D |-> IF n = 0 THEN x ELSE address_choose(run[n - 1].history, lists[n], connects)]
  <2> HIDE DEF x, D
  <2> QED
    BY <1>8
<1>10. Turns(lists, connects) = [n \in DOMAIN lists |-> run[n].addr]
  BY DEF Turns
<1> HIDE DEF run, x, g, S
<1>11. run[0] = x /\ \A n \in 1 .. Len(lists) : run[n] = address_choose(run[n - 1].history, lists[n], connects)
  <2>1. 0 \in D /\ \A n \in 1 .. Len(lists) : n \in D /\ n # 0
    BY <1>2
  <2> HIDE DEF D
  <2> QED
    BY <1>9, <2>1
<1>12. \A n \in D : run[n] \in S
  <2> DEFINE N == {n \in Nat : n \in D => run[n] \in S}
  <2>1. 0 \in N
    BY <1>1, <1>11
  <2>2. ASSUME NEW n \in N PROVE n + 1 \in N
    <3>1. CASE n + 1 \in D
      <4>1. n \in D /\ n + 1 \in 1 .. Len(lists) /\ (n + 1) - 1 = n
        BY <1>2, <3>1
      <4> DEFINE m == n + 1
      <4>2. m \in 1 .. Len(lists) /\ m - 1 = n
        BY <4>1
      <4> HIDE DEF m
      <4>3. run[m] = address_choose(run[n].history, lists[m], connects)
        BY <1>11, <4>2
      <4>4. run[n] \in S
        BY <4>1
      <4>5. run[m] \in S
        BY <1>3, <4>2, <4>3, <4>4
      <4> QED
        BY <4>5 DEF m
    <3>2. CASE n + 1 \notin D
      BY <3>2
    <3> QED
      BY <3>1, <3>2
  <2>3. N = Nat
    <3>1. N \in SUBSET Nat
      OBVIOUS
    <3> HIDE DEF N
    <3> QED
      BY <2>1, <2>2, <3>1, SetInduction
  <2> QED
    BY <1>2, <2>3
<1>13. \A n \in D : run[n].history \in Histories(all)
  BY <1>12 DEF S
<1>14. run[0].history \in Histories(all) /\ \A a : Uses(run[0].history, a) = 0
  BY <1>1, <1>11, EmptyHistory
<1> QED
  BY <1>10, <1>11, <1>13, <1>14 DEF Choosing

(* Where each of k things has three of a set of moments, there are 3 * k. *)
LEMMA ThreeEach ==
    ASSUME NEW f, NEW S, IsFiniteSet(S), NEW I, IsFiniteSet(I),
           \A a \in S : Cardinality({i \in I : f[i] = a}) >= 3
    PROVE  3 * Cardinality(S) <= Cardinality(I)
<1> DEFINE At3(T, J) == \A a \in T : Cardinality({i \in J : f[i] = a}) >= 3
           Good(k) == \A T, J : IsFiniteSet(T) /\ IsFiniteSet(J) /\ Cardinality(T) = k /\ At3(T, J) => 3 * k <= Cardinality(J)
           N == {k \in Nat : Good(k)}
<1>1. 0 \in N
  BY FS_CardinalityType
<1>2. ASSUME NEW k \in N PROVE k + 1 \in N
  <2>1. SUFFICES ASSUME NEW T, NEW J, IsFiniteSet(T), IsFiniteSet(J), Cardinality(T) = k + 1, At3(T, J)
                 PROVE  3 * (k + 1) <= Cardinality(J)
    OBVIOUS
  <2>2. PICK a : a \in T
    <3>1. T # {}
      BY <2>1, FS_EmptySet
    <3> QED
      BY <3>1
  <2> DEFINE P == {i \in J : f[i] = a}
             K == J \ P
             U == T \ {a}
  <2>3. P \subseteq J /\ K \subseteq J /\ P \cup K = J /\ P \cap K = {}
    OBVIOUS
  <2>4. Cardinality(P) >= 3
    BY <2>1, <2>2
  <2>5. ASSUME NEW b \in U PROVE {i \in K : f[i] = b} = {i \in J : f[i] = b}
    OBVIOUS
  <2>6. At3(U, K)
    <3> SUFFICES ASSUME NEW b \in U PROVE Cardinality({i \in K : f[i] = b}) >= 3
      OBVIOUS
    <3>1. b \in T /\ {i \in K : f[i] = b} = {i \in J : f[i] = b}
      BY <2>5
    <3> QED
      BY <2>1, <3>1
  <2>7. IsFiniteSet(U) /\ Cardinality(U) = k
    BY <2>1, <2>2, FS_RemoveElement
  <2> HIDE DEF P, K, U
  <2>8. IsFiniteSet(P) /\ IsFiniteSet(K) /\ Cardinality(P) \in Nat /\ Cardinality(K) \in Nat
    BY <2>1, <2>3, FS_Subset, FS_CardinalityType
  <2>9. Cardinality(J) = Cardinality(P) + Cardinality(K)
    <3>1. Cardinality(P \cup K) = Cardinality(P) + Cardinality(K) - Cardinality(P \cap K)
      BY <2>8, FS_Union
    <3>2. Cardinality(P \cap K) = 0
      BY <2>3, FS_EmptySet
    <3>3. P \cup K = J
      BY <2>3
    <3>4. Cardinality(P \cup K) = Cardinality(J)
      BY <3>3, Zenon
    <3>5. Cardinality(J) = Cardinality(P) + Cardinality(K) - 0
      BY <3>1, <3>2, <3>4, Zenon
    <3> QED
      BY <2>8, <3>5
  <2>10. 3 * k <= Cardinality(K)
    <3> HIDE DEF At3
    <3> QED
      BY <2>6, <2>7, <2>8
  <2> QED
    BY <2>4, <2>8, <2>9, <2>10
<1>3. N = Nat
  <2>1. N \in SUBSET Nat
    OBVIOUS
  <2> HIDE DEF N
  <2> QED
    BY <1>1, <1>2, <2>1, SetInduction
<1>4. Cardinality(S) \in Nat
  BY FS_CardinalityType
<1>5. Good(Cardinality(S))
  <2> HIDE DEF Good
  <2> QED
    BY <1>3, <1>4
<1> QED
  BY <1>5

(* After n calls each address was chosen as often as the history says, plus *)
(* three times for each time the counts were started again.                 *)
TimesOf(run, a, n) == Cardinality({i \in 1 .. n : run[i].addr = a})
Shared(run, all, n) ==
    \E k \in Nat : \A a \in all :
        Uses(run[n].history, a) <= MAX_USES /\ TimesOf(run, a, n) = 3 * k + Uses(run[n].history, a)

Grows(run, a, n) ==
    TimesOf(run, a, n + 1) = TimesOf(run, a, n) + IF run[n + 1].addr = a THEN 1 ELSE 0
LEMMA TimesStep ==
    ASSUME NEW run, NEW a, NEW n \in Nat
    PROVE  /\ TimesOf(run, a, n) \in Nat /\ TimesOf(run, a, 0) = 0
           /\ Grows(run, a, n)
<1> DEFINE P(m) == {i \in 1 .. m : run[i].addr = a}
<1>1. IsFiniteSet(1 .. n)
  BY FS_Interval
<1>2. P(n) \in SUBSET (1 .. n)
  OBVIOUS
<1>3. P(0) = {} /\ n + 1 \notin P(n) /\ P(n + 1) = IF run[n + 1].addr = a THEN P(n) \cup {n + 1} ELSE P(n)
  OBVIOUS
<1>4. TimesOf(run, a, n) = Cardinality(P(n)) /\ TimesOf(run, a, 0) = Cardinality(P(0))
      /\ TimesOf(run, a, n + 1) = Cardinality(P(n + 1))
  BY DEF TimesOf
<1> HIDE DEF P
<1>5. IsFiniteSet(P(n)) /\ Cardinality(P(n)) \in Nat
  BY <1>1, <1>2, FS_Subset, FS_CardinalityType
<1>6. Cardinality(P(n) \cup {n + 1}) = Cardinality(P(n)) + 1
  BY <1>3, <1>5, FS_AddElement
<1>7. Cardinality(P(0)) = 0
  BY <1>3, FS_EmptySet
<1> QED
  BY <1>3, <1>4, <1>5, <1>6, <1>7 DEF Grows

LEMMA SharedStep ==
    ASSUME NEW X, NEW list \in Seq(ServerAddrs(X)), NEW connects, NEW all, all = ToSet(list),
           NEW run, NEW n \in Nat, run[n].history \in Histories(all),
           run[n + 1] = address_choose(run[n].history, list, connects), Shared(run, all, n)
    PROVE  Shared(run, all, n + 1)
<1> DEFINE h == run[n].history
           r == run[n + 1]
<1>1. h \in Histories(all) /\ r = address_choose(h, list, connects)
  OBVIOUS
<1> HIDE DEF h, r
<1>2. \/ Fresh(h, all) = {} /\ Choice(r, << >>, all, connects)
      \/ Choice(r, h, Fresh(h, all), connects)
  BY <1>1, OneCall
<1>3. PICK k \in Nat : \A a \in all : Uses(h, a) <= MAX_USES /\ TimesOf(run, a, n) = 3 * k + Uses(h, a)
  BY DEF Shared, h
<1>4. \A a : Uses(h, a) \in Nat
  BY <1>1, HistoryIs DEF Uses
<1>5. \A a : TimesOf(run, a, n) \in Nat /\ TimesOf(run, a, n + 1) = TimesOf(run, a, n) + IF r.addr = a THEN 1 ELSE 0
  <2> SUFFICES ASSUME NEW a
               PROVE  /\ TimesOf(run, a, n) \in Nat
                      /\ TimesOf(run, a, n + 1) = TimesOf(run, a, n) + IF r.addr = a THEN 1 ELSE 0
    OBVIOUS
  <2>1. TimesOf(run, a, n) \in Nat
    BY TimesStep
  <2>2. Grows(run, a, n)
    BY TimesStep
  <2> QED
    BY <2>1, <2>2 DEF r, Grows
<1>6. \A a \in all : a # NO_SERVER
  <2>1. \A a \in all : a \in ServerAddrs(X)
    BY ElementOfSeq DEF ToSet
  <2> QED
    BY <2>1 DEF ServerAddrs, NO_SERVER
<1>7. MAX_USES = 3
  BY DEF MAX_USES
<1>8. CASE Fresh(h, all) = {} /\ Choice(r, << >>, all, connects)
  <2>1. \A a : Uses(r.history, a) = 0 + (IF a = r.addr /\ a # NO_SERVER THEN 1 ELSE 0)
    <3> DEFINE e == << >>
    <3>1. e \in Histories(all) /\ (\A a : Uses(e, a) = 0) /\ Choice(r, e, all, connects) /\ all \subseteq all
      BY <1>8, EmptyHistory
    <3> HIDE DEF e
    <3>2. \A a : Uses(r.history, a) = Uses(e, a) + (IF a = r.addr /\ a # NO_SERVER THEN 1 ELSE 0)
      BY <3>1, ChoiceCounts
    <3> QED
      BY <3>1, <3>2
  <2>2. \A a \in all : Uses(h, a) = 3
    BY <1>3, <1>4, <1>7, <1>8 DEF Fresh
  <2>3. k + 1 \in Nat /\ \A a \in all : Uses(r.history, a) <= MAX_USES /\ TimesOf(run, a, n + 1) = 3 * (k + 1) + Uses(r.history, a)
    BY <1>3, <1>5, <1>6, <1>7, <2>1, <2>2
  <2> QED
    BY <2>3 DEF Shared, r
<1>9. CASE Choice(r, h, Fresh(h, all), connects)
  <2>1. \A a : Uses(r.history, a) = Uses(h, a) + (IF a = r.addr /\ a # NO_SERVER THEN 1 ELSE 0)
    <3>1. Fresh(h, all) \subseteq all
      BY DEF Fresh
    <3> QED
      BY <1>1, <1>9, <3>1, ChoiceCounts
  <2>2. r.addr # NO_SERVER => Uses(h, r.addr) < 3
    BY <1>7, <1>9 DEF Choice, Connected, Fresh
  <2>3. \A a \in all : Uses(r.history, a) <= MAX_USES /\ TimesOf(run, a, n + 1) = 3 * k + Uses(r.history, a)
    BY <1>3, <1>4, <1>5, <1>6, <1>7, <2>1, <2>2, SMTT(60)
  <2> QED
    BY <2>3 DEF Shared, r
<1> QED
  BY <1>2, <1>8, <1>9

LEMMA SharedAlways ==
    ASSUME NEW X, NEW lists \in Seq(Seq(ServerAddrs(X))), NEW connects, NEW all, SameAnswers(lists, all),
           NEW run, Choosing(run, lists, connects, all)
    PROVE  \A n \in 0 .. Len(lists) : Shared(run, all, n)
<1> DEFINE D == 0 .. Len(lists)
           N == {n \in Nat : n \in D => Shared(run, all, n)}
<1>1. Len(lists) \in Nat /\ DOMAIN lists = 1 .. Len(lists)
  BY LenProperties
<1>2. 0 \in N
  <2>1. \A a \in all : Uses(run[0].history, a) = 0 /\ TimesOf(run, a, 0) = 0
    BY TimesStep DEF Choosing
  <2>2. 0 \in Nat /\ \A a \in all : Uses(run[0].history, a) <= MAX_USES /\ TimesOf(run, a, 0) = 3 * 0 + Uses(run[0].history, a)
    BY <2>1 DEF MAX_USES
  <2>3. Shared(run, all, 0)
    BY <2>2 DEF Shared
  <2> QED
    BY <2>3
<1>3. ASSUME NEW n \in N PROVE n + 1 \in N
  <2>1. CASE n + 1 \in D
    <3>1. n \in D /\ n + 1 \in 1 .. Len(lists) /\ (n + 1) - 1 = n /\ n \in Nat
      BY <1>1, <2>1
    <3>2. Shared(run, all, n) /\ run[n].history \in Histories(all)
      BY <3>1 DEF Choosing
    <3> DEFINE m == n + 1
    <3>3. m \in 1 .. Len(lists) /\ m - 1 = n
      BY <3>1
    <3> HIDE DEF m
    <3>4. run[m] = address_choose(run[n].history, lists[m], connects) /\ lists[m] \in Seq(ServerAddrs(X)) /\ all = ToSet(lists[m])
      <4>1. run[m] = address_choose(run[m - 1].history, lists[m], connects)
        BY <3>3 DEF Choosing
      <4>2. m \in DOMAIN lists
        BY <1>1, <3>3
      <4>3. lists[m] \in Seq(ServerAddrs(X))
        BY <4>2, ElementOfSeq
      <4>4. all = ToSet(lists[m])
        BY <4>2 DEF SameAnswers
      <4> QED
        BY <3>3, <4>1, <4>3, <4>4
    <3>5. run[n + 1] = address_choose(run[n].history, lists[m], connects)
      BY <3>4 DEF m
    <3>6. Shared(run, all, n + 1)
      BY <3>1, <3>2, <3>4, <3>5, SharedStep
    <3> QED
      BY <3>6
  <2>2. CASE n + 1 \notin D
    BY <2>2
  <2> QED
    BY <2>1, <2>2
<1>4. N = Nat
  <2>1. N \in SUBSET Nat
    OBVIOUS
  <2> HIDE DEF N
  <2> QED
    BY <1>2, <1>3, <2>1, SetInduction
<1> QED
  BY <1>1, <1>4

LEMMA FiniteAnswer == ASSUME NEW T, NEW s \in Seq(T) PROVE IsFiniteSet(ToSet(s))
<1>1. Len(s) \in Nat /\ s \in Surjection(1 .. Len(s), ToSet(s))
  BY DEF Surjection, ToSet
<1>2. IsFiniteSet(1 .. Len(s))
  BY <1>1, FS_Interval
<1> QED
  BY <1>1, <1>2, FS_Surjection

(* address_choose shares the attempts out: for every number of calls and    *)
(* answers that list the same addresses in whatever order, no address is    *)
(* ever more than three attempts ahead of another, one that cannot be tried *)
(* is never chosen, and one is chosen until each that can be tried had its  *)
(* first three turns.                                                       *)
THEOREM TurnsTaken ==
    ASSUME NEW X, NEW lists \in Seq(Seq(ServerAddrs(X))), NEW connects, lists # << >>,
           SameAnswers(lists, ToSet(lists[1]))
    PROVE  TakeTurns(lists, connects)
<1> DEFINE all == ToSet(lists[1])
           turns == Turns(lists, connects)
           times(a, n) == Cardinality({i \in 1 .. n : turns[i] = a})
           able == all \cap connects
<1>1. Len(lists) \in Nat /\ DOMAIN lists = 1 .. Len(lists) /\ 1 \in DOMAIN lists /\ lists[1] \in Seq(ServerAddrs(X))
  OBVIOUS
<1>2. IsFiniteSet(able)
  <2>1. IsFiniteSet(all) /\ able \in SUBSET all
    BY <1>1, FiniteAnswer
  <2> HIDE DEF all, able
  <2> QED
    BY <2>1, FS_Subset
<1>3. PICK run : Choosing(run, lists, connects, all)
  BY TurnsRun
<1>4. \A n \in 0 .. Len(lists) : Shared(run, all, n)
  <2> HIDE DEF all
  <2>1. SameAnswers(lists, all)
    BY DEF all
  <2> QED
    BY <1>3, <2>1, SharedAlways
<1>5. \A n \in DOMAIN lists : turns[n] = run[n].addr
  BY <1>3 DEF Choosing
<1> HIDE DEF turns
<1>6. ASSUME NEW n \in 0 .. Len(lists), NEW a PROVE times(a, n) = TimesOf(run, a, n)
  <2>1. \A i \in 1 .. n : i \in DOMAIN lists
    BY <1>1
  <2>2. {i \in 1 .. n : turns[i] = a} = {i \in 1 .. n : run[i].addr = a}
    BY <1>5, <2>1
  <2> QED
    BY <2>2 DEF TimesOf
<1> HIDE DEF times
<1>7. SUFFICES ASSUME NEW n \in DOMAIN lists
               PROVE  /\ turns[n] \in connects \cup {NO_SERVER}
                      /\ \A a, b \in all : times(a, n) <= times(b, n) + MAX_USES
                      /\ n <= MAX_USES * Cardinality(able) => turns[n] # NO_SERVER
  BY DEF TakeTurns, turns, times
<1> DEFINE h == run[n - 1].history
           r == run[n]
<1>8. n \in 0 .. Len(lists) /\ n - 1 \in 0 .. Len(lists) /\ n \in Nat /\ n - 1 \in Nat
  BY <1>1
<1>9. h \in Histories(all) /\ r = address_choose(h, lists[n], connects) /\ r.history \in Histories(all)
  BY <1>1, <1>3, <1>8 DEF Choosing
<1>10. lists[n] \in Seq(ServerAddrs(X)) /\ ToSet(lists[n]) = all
  BY <1>1 DEF SameAnswers
<1> HIDE DEF all, h, r
<1>11. \/ Fresh(h, all) = {} /\ Choice(r, << >>, all, connects)
       \/ Choice(r, h, Fresh(h, all), connects)
  BY <1>9, <1>10, OneCall
<1>12. turns[n] = r.addr
  BY <1>5 DEF r
<1>13. turns[n] \in connects \cup {NO_SERVER}
  BY <1>11, <1>12 DEF Choice, Connected
<1>14. ASSUME NEW a \in all, NEW b \in all PROVE times(a, n) <= times(b, n) + MAX_USES
  <2>1. PICK k \in Nat : \A c \in all :
           Uses(run[n].history, c) <= MAX_USES /\ TimesOf(run, c, n) = 3 * k + Uses(run[n].history, c)
    BY <1>4, <1>8 DEF Shared
  <2>2. Uses(run[n].history, a) \in Nat /\ Uses(run[n].history, b) \in Nat
    BY <1>9, HistoryIs DEF Uses, r
  <2>3. times(a, n) = TimesOf(run, a, n) /\ times(b, n) = TimesOf(run, b, n)
    BY <1>6, <1>8
  <2> QED
    BY <2>1, <2>2, <2>3 DEF MAX_USES
<1>15. ASSUME turns[n] = NO_SERVER, n <= MAX_USES * Cardinality(able) PROVE FALSE
  <2> DEFINE I == 1 .. n - 1
  <2>1. \A a \in able : TimesOf(run, a, n - 1) >= 3
    <3> SUFFICES ASSUME NEW a \in able PROVE TimesOf(run, a, n - 1) >= 3
      OBVIOUS
    <3>1. a \in all /\ a \in connects
      OBVIOUS
    <3>2. Uses(h, a) >= 3
      <4>1. a \notin Fresh(h, all)
        BY <1>11, <1>12, <1>15, <3>1 DEF Choice, Connected
      <4>2. Uses(h, a) \in Nat
        BY <1>9, HistoryIs DEF Uses
      <4> QED
        BY <3>1, <4>1, <4>2 DEF Fresh, MAX_USES
    <3>3. PICK k \in Nat : \A c \in all :
             Uses(h, c) <= MAX_USES /\ TimesOf(run, c, n - 1) = 3 * k + Uses(h, c)
      BY <1>4, <1>8 DEF Shared, h
    <3>4. Uses(h, a) \in Nat
      BY <1>9, HistoryIs DEF Uses
    <3> QED
      BY <3>1, <3>2, <3>3, <3>4
  <2>2. IsFiniteSet(I) /\ Cardinality(I) = n - 1
    <3>1. 1 \in Int /\ n - 1 \in Int
      BY <1>8
    <3>2. IsFiniteSet(I) /\ Cardinality(I) = IF 1 > n - 1 THEN 0 ELSE (n - 1) - 1 + 1
      BY <3>1, FS_Interval
    <3> HIDE DEF I
    <3> QED
      BY <1>8, <3>2
  <2> DEFINE f == [i \in I |-> run[i].addr]
  <2>3. ASSUME NEW a \in able PROVE Cardinality({i \in I : f[i] = a}) >= 3
    <3>1. {i \in I : f[i] = a} = {i \in 1 .. n - 1 : run[i].addr = a}
      OBVIOUS
    <3> QED
      BY <2>1, <3>1 DEF TimesOf
  <2> HIDE DEF f, I, able
  <2>4. 3 * Cardinality(able) <= Cardinality(I)
    BY <1>2, <2>2, <2>3, ThreeEach
  <2>5. Cardinality(able) \in Nat
    BY <1>2, FS_CardinalityType
  <2> QED
    BY <1>8, <1>15, <2>2, <2>4, <2>5 DEF MAX_USES
<1> QED
  BY <1>13, <1>14, <1>15

LEMMA SampleTurns == PickTurns => in'.what = "turns" /\ TakeTurns(in'.lists, in'.connects)
<1> SUFFICES ASSUME PickTurns PROVE in'.what = "turns" /\ TakeTurns(in'.lists, in'.connects)
  OBVIOUS
<1> DEFINE short == {<<V4a, V4b>>, <<V6a>>}
           A == ServerAddrs({1, 2})
<1>1. PICK some \in SUBSET {V4a, V4b, V6a}, o \in [1 .. 3 -> Lists] \cup {[i \in 1 .. 3 |-> l] : l \in short} :
        in' = [what |-> "turns", connects |-> some, lists |-> [i \in 1 .. 20 |-> o[(i % 3) + 1]]]
  BY Zenon DEF PickTurns
<1> DEFINE lists == [i \in 1 .. 20 |-> o[(i % 3) + 1]]
<1>2. in'.what = "turns" /\ in'.connects = some /\ in'.lists = lists
  <2> HIDE DEF lists
  <2>1. in' = [what |-> "turns", connects |-> some, lists |-> lists]
    BY <1>1 DEF lists
  <2> QED
    BY <2>1
<1>3. V4a \in A /\ V4b \in A /\ V6a \in A
  BY DEF V4a, V4b, V6a, ServerAddrs
<1> HIDE DEF A
<1>4. \A l \in Lists : l \in Seq(A) /\ ToSet(l) = {V4a, V4b, V6a}
  <2>1. ASSUME NEW a \in A, NEW b \in A, NEW c \in A PROVE <<a, b, c>> \in Seq(A) /\ ToSet(<<a, b, c>>) = {a, b, c}
    BY DEF ToSet
  <2>2. <<V4a, V4b, V6a>> \in Seq(A) /\ ToSet(<<V4a, V4b, V6a>>) = {V4a, V4b, V6a}
    BY <1>3, <2>1
  <2>3. <<V6a, V4b, V4a>> \in Seq(A) /\ ToSet(<<V6a, V4b, V4a>>) = {V4a, V4b, V6a}
    <3>1. <<V6a, V4b, V4a>> \in Seq(A) /\ ToSet(<<V6a, V4b, V4a>>) = {V6a, V4b, V4a}
      BY <1>3, <2>1
    <3> QED
      BY <3>1
  <2>4. <<V4b, V6a, V4a>> \in Seq(A) /\ ToSet(<<V4b, V6a, V4a>>) = {V4a, V4b, V6a}
    <3>1. <<V4b, V6a, V4a>> \in Seq(A) /\ ToSet(<<V4b, V6a, V4a>>) = {V4b, V6a, V4a}
      BY <1>3, <2>1
    <3> QED
      BY <3>1
  <2> QED
    BY <2>2, <2>3, <2>4, Zenon DEF Lists
<1>5. \A l \in short : l \in Seq(A)
  <2>1. <<V4a, V4b>> \in Seq(A) /\ <<V6a>> \in Seq(A)
    BY <1>3
  <2> QED
    BY <2>1, Zenon
<1> HIDE DEF short
<1>6. \A i \in 1 .. 3 : o[i] \in Seq(A) /\ ToSet(o[i]) = ToSet(o[1])
  <2>1. CASE o \in [1 .. 3 -> Lists]
    <3>1. \A i \in 1 .. 3 : o[i] \in Lists
      BY <2>1
    <3>2. 1 \in 1 .. 3
      OBVIOUS
    <3> QED
      BY <1>4, <3>1, <3>2, Zenon
  <2>2. CASE o \in {[i \in 1 .. 3 |-> l] : l \in short}
    <3>1. PICK l \in short : o = [i \in 1 .. 3 |-> l]
      BY <2>2
    <3>2. \A i \in 1 .. 3 : o[i] = l
      BY <3>1
    <3>3. 1 \in 1 .. 3
      OBVIOUS
    <3> QED
      BY <1>5, <3>2, <3>3, Zenon
  <2> QED
    BY <2>1, <2>2
<1>7. \A i \in 1 .. 20 : (i % 3) + 1 \in 1 .. 3
  <2> SUFFICES ASSUME NEW i \in 1 .. 20 PROVE (i % 3) + 1 \in 1 .. 3
    OBVIOUS
  <2>1. i \in Int
    OBVIOUS
  <2> QED
    BY <2>1, SMT
<1>8. /\ DOMAIN lists = 1 .. 20
      /\ \A i \in 1 .. 20 : lists[i] \in Seq(A) /\ ToSet(lists[i]) = ToSet(o[1])
  <2>1. DOMAIN lists = 1 .. 20 /\ \A i \in 1 .. 20 : lists[i] = o[(i % 3) + 1]
    BY Zenon
  <2> QED
    BY <1>6, <1>7, <2>1, Zenon
<1>9. lists \in Seq(Seq(A)) /\ lists # << >> /\ 1 \in 1 .. 20
  <2> DEFINE T == Seq(A)
             c == 20
  <2>1. lists \in [1 .. c -> T] /\ c \in Nat /\ c > 0
    <3> HIDE DEF T
    <3>1. \A i \in 1 .. 20 : lists[i] \in T
      BY <1>8 DEF T
    <3>2. lists = [i \in 1 .. 20 |-> lists[i]]
      OBVIOUS
    <3> HIDE DEF lists
    <3> QED
      BY <3>1, <3>2
  <2> HIDE DEF lists, T, c
  <2>2. lists \in Seq(T) /\ lists # << >>
    BY <2>1
  <2> QED
    BY <2>2 DEF T
<1> HIDE DEF lists
<1>10. SameAnswers(lists, ToSet(lists[1]))
  BY <1>8, <1>9, Zenon DEF SameAnswers
<1>11. TakeTurns(lists, some)
  <2>1. lists \in Seq(Seq(ServerAddrs({1, 2})))
    BY <1>9 DEF A
  <2> QED
    BY <1>9, <1>10, <2>1, TurnsTaken
<1> QED
  BY <1>2, <1>11

LEMMA SampleQuery ==
    PickQuery => in'.what = "query" /\ FoundIfAnswered(in'.domain, in'.servers, in'.reply, in'.system, in'.ios)
<1> SUFFICES ASSUME PickQuery
             PROVE  in'.what = "query" /\ FoundIfAnswered(in'.domain, in'.servers, in'.reply, in'.system, in'.ios)
  OBVIOUS
<1> DEFINE Answering(r1, q) == [s1 |-> r1, s2 |-> [r1 EXCEPT !.A = q]] @@ ("223.5.5.5" :> r1)
           Known == {<< >>, <<"s1">>, <<"s1", "s2">>, <<"unusable", "s1">>}
           System(at) == IF at = 0 THEN Silent ELSE [Silent EXCEPT ![at] = <<V4b>>]
<1>1. PICK domain \in Domains, ios \in BOOLEAN, servers \in Known,
           r1 \in ServerReplies(V4a), q \in Replies("A", V4b), at \in {0, 1, 3, 4, 6} :
        in' = [what |-> "query", domain |-> domain, ios |-> ios, servers |-> servers,
               reply |-> Answering(r1, q), system |-> System(at)]
  BY Zenon DEF PickQuery
<1> DEFINE reply == Answering(r1, q)
           system == System(at)
<1>2. /\ in'.what = "query" /\ in'.domain = domain /\ in'.ios = ios /\ in'.servers = servers
      /\ in'.reply = reply /\ in'.system = system
  <2> HIDE DEF Answering, System
  <2> QED
    BY <1>1
<1>3. servers \in Seq({"s1", "s2", "unusable"})
  <2> DEFINE S == {"s1", "s2", "unusable"}
  <2>1. "s1" \in S /\ "s2" \in S /\ "unusable" \in S
    OBVIOUS
  <2> HIDE DEF S
  <2>2. << >> \in Seq(S) /\ <<"s1">> \in Seq(S) /\ <<"s1", "s2">> \in Seq(S) /\ <<"unusable", "s1">> \in Seq(S)
    BY <2>1
  <2>3. servers \in Seq(S)
    BY <2>2, Zenon
  <2> QED
    BY <2>3 DEF S
<1>4. \E T : system \in Seq(T) /\ Len(system) = 6
  <2> DEFINE v == <<V4b>>
             e == << >>
             T == {e, v}
             c == 6
  <2>1. e \in T /\ v \in T /\ c \in Nat /\ \A i \in {1, 3, 4, 6} : i \in 1 .. c
    OBVIOUS
  <2>2. Silent = [i \in 1 .. c |-> e]
    BY DEF Silent
  <2>3. system = Silent \/ \E i \in 1 .. c : system = [Silent EXCEPT ![i] = v]
    <3>1. at = 0 \/ at \in {1, 3, 4, 6}
      OBVIOUS
    <3>2. at \in {1, 3, 4, 6} => at # 0 /\ at \in 1 .. c
      BY <2>1
    <3>3. system = IF at = 0 THEN Silent ELSE [Silent EXCEPT ![at] = v]
      OBVIOUS
    <3> HIDE DEF v, c, system
    <3> QED
      BY <3>1, <3>2, <3>3
  <2> HIDE DEF T, system, e, v, c
  <2>4. system \in [1 .. c -> T]
    BY <2>1, <2>2, <2>3
  <2>5. system \in Seq(T) /\ Len(system) = c
    BY <2>1, <2>4
  <2> QED
    BY <2>5 DEF c
<1> HIDE DEF reply, system
<1>5. PICK T : system \in Seq(T) /\ Len(system) = 2 * ATTEMPTS
  BY <1>4 DEF ATTEMPTS
<1>6. FoundIfAnswered(domain, servers, reply, system, ios)
  BY <1>3, <1>5, NamesFound
<1> QED
  BY <1>2, <1>6

LEMMA SampleRequest == PickRequest => in'.what = "request" /\ QueryHarmless(in'.loaded, in'.now, in'.chosen)
<1> SUFFICES ASSUME PickRequest PROVE in'.what = "request" /\ QueryHarmless(in'.loaded, in'.now, in'.chosen)
  OBVIOUS
<1>1. PICK loaded \in Devices, now \in Devices, chosen \in {V4a, V4b, V6a, NO_SERVER} :
        in' = [what |-> "request", loaded |-> loaded, now |-> now, chosen |-> chosen]
  BY Zenon DEF PickRequest
<1>2. in'.what = "request" /\ in'.loaded = loaded /\ in'.now = now /\ in'.chosen = chosen
  BY <1>1
<1>3. QueryHarmless(loaded, now, chosen)
  <2> DEFINE X == {V4a, V4b}
             Status == {"Connecting", "Connected"}
             Ip == {0, 1}
  <2>1. loaded \in [connect_server : X, status : Status, virtual_ip : Ip] /\ now \in [connect_server : X, status : Status, virtual_ip : Ip]
    BY DEF Devices
  <2> HIDE DEF X, Status, Ip
  <2> QED
    BY <2>1, QueryUndoesNothing
<1> QED
  BY <1>2, <1>3

(* The client finds a server and shares its attempts out: ServerFound holds *)
(* for the whole specification.                                             *)
THEOREM ServersFound == Spec => []ServerFound
<1> DEFINE mine == {"turns", "query", "request"}
<1>1. Init => ServerFound
  BY DEF Init, Idle, ServerFound, AddressesTakeTurns, NamesResolve, QueriesAreHarmless
<1>2. ServerFound /\ [Next]_vars => ServerFound'
  <2> SUFFICES ASSUME ServerFound, [Next]_vars PROVE ServerFound'
    OBVIOUS
  <2> USE DEF ServerFound, AddressesTakeTurns, NamesResolve, QueriesAreHarmless
  <2>1. CASE UNCHANGED vars
    BY <2>1 DEF vars
  <2>2. CASE PickTurns
    BY <2>2, SampleTurns
  <2>3. CASE PickQuery
    BY <2>3, SampleQuery
  <2>4. CASE PickRequest
    BY <2>4, SampleRequest
  <2>5. CASE StepUdp
    <3>1. in.what = "udp" /\ \E n \in Steps(in.m) : in' = [in EXCEPT !.m = n]
      BY <2>5 DEF StepUdp
    <3>2. in'.what \notin mine
      BY <3>1
    <3> QED
      BY <3>2
  <2>6. CASE Next /\ ~ PickTurns /\ ~ PickQuery /\ ~ PickRequest /\ ~ StepUdp
    <3>1. in'.what \notin mine
      BY <2>6, Picked DEF Next
    <3> QED
      BY <3>1
  <2> QED
    BY <2>1, <2>2, <2>3, <2>4, <2>5, <2>6
<1> QED
  BY <1>1, <1>2, PTL DEF Spec

=============================================================================
