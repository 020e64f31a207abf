------------------------ MODULE SerializacionPruebas ------------------------
(***************************************************************************)
(* Proofs about the message of a PCB: for every PCB, with any number of    *)
(* labels, instructions, contexts and variables, and every size of int and *)
(* of char, the reader gets back what the writer wrote, and the writer     *)
(* does not go past what it has allocated.                                 *)
(*                                                                         *)
(* A text is a sequence of fields.  Each part of the PCB is a text of a    *)
(* known length, and whoever finds that text at a byte of the buffer reads *)
(* the part; the parts follow one another.                                 *)
(***************************************************************************)
EXTENDS SerializacionPcb, SequenceTheorems, FiniteSetTheorems, WellFoundedInduction, TLAPS

(* The sizes of the machine.                                               *)
Tamanios == SizeofInt \in Nat \ {0} /\ SizeofChar \in Nat \ {0}

(* A set that has 0, and the number after each one it has, has them all.   *)
LEMMA Induccion ==
  ASSUME NEW S, 0 \in S, \A n \in Nat : n \in S => n + 1 \in S
  PROVE  Nat \subseteq S
<1> SUFFICES ASSUME NEW n \in Nat, n \notin S
             PROVE  FALSE
  OBVIOUS
<1> DEFINE T == {0..i : i \in {j \in 0..n : j \notin S}}
<1>2. IsWellFoundedOn(StrictSubsetOrdering(0..n), SUBSET (0..n))
  <2>1. IsFiniteSet(0..n)
    BY FS_Interval
  <2> QED
    BY <2>1, FS_StrictSubsetOrderingWellFounded, FS_FiniteSubsetsOfFinite
<1>3. T \subseteq SUBSET (0..n) /\ T # {}
  <2>1. n \in {j \in 0..n : j \notin S}
    OBVIOUS
  <2>2. 0..n \in T
    BY <2>1
  <2> QED
    BY <2>2
<1> HIDE DEF T
<1>4. PICK x \in T : \A y \in T : <<y, x>> \notin StrictSubsetOrdering(0..n)
  BY <1>2, <1>3, WFMin
<1>5. PICK i \in 0..n : i \notin S /\ x = 0..i
  BY DEF T
<1>6. i # 0 /\ i - 1 \in 0..n /\ i = (i - 1) + 1 /\ i - 1 \in Nat
  BY <1>5
<1>7. i - 1 \notin S
  BY <1>5, <1>6
<1>8. 0..(i - 1) \in T /\ 0..(i - 1) \subseteq 0..n /\ 0..i \subseteq 0..n
  BY <1>6, <1>7 DEF T
<1>9. 0..(i - 1) \subseteq 0..i /\ i \in 0..i /\ i \notin 0..(i - 1)
  BY <1>6
<1> QED
  BY <1>4, <1>5, <1>8, <1>9 DEF StrictSubsetOrdering

-----------------------------------------------------------------------------
(* The bytes of the fields.                                                *)

(* A field takes a byte at least.                                          *)
Campos(V) == [tamanio : Nat \ {0}, valor : V]
Textos(V) == Seq(Campos(V))

(* Each field starts where the one before it ends.                         *)
Sucesivos(f, s, n) ==
  /\ f \in [1..(n + 1) -> Nat]
  /\ f[1] = 0
  /\ \A i \in 1..n : f[i + 1] = f[i] + s[i].tamanio

(* Inicios, a recursive function, is defined for every text and adds up    *)
(* its fields.                                                             *)
LEMMA Inicio ==
  ASSUME NEW V, NEW s \in Textos(V)
  PROVE  Sucesivos(Inicios(s), s, Len(s))
<1> DEFINE n == Len(s)
           S == {m \in Nat : m <= n => \E f : Sucesivos(f, s, m)}
<1>1. n \in Nat /\ \A i \in 1..n : s[i].tamanio \in Nat
  <2>1. n \in Nat /\ \A i \in 1..n : s[i] \in Campos(V)
    BY DEF Textos
  <2> QED
    BY <2>1 DEF Campos
<1>2. 0 \in S
  <2>1. Sucesivos([i \in 1..1 |-> 0], s, 0)
    BY DEF Sucesivos
  <2> QED
    BY <2>1
<1>3. ASSUME NEW m \in Nat, m \in S
      PROVE  m + 1 \in S
  <2> SUFFICES ASSUME m + 1 <= n
               PROVE  \E f : Sucesivos(f, s, m + 1)
    OBVIOUS
  <2>1. PICK f : Sucesivos(f, s, m)
    BY <1>1, <1>3
  <2> DEFINE g == [i \in 1..(m + 2) |-> IF i = m + 2 THEN f[m + 1] + s[m + 1].tamanio ELSE f[i]]
  <2>2. s[m + 1].tamanio \in Nat /\ f[m + 1] \in Nat
    BY <1>1, <2>1 DEF Sucesivos
  <2>3. Sucesivos(g, s, m + 1)
    BY <2>1, <2>2 DEF Sucesivos
  <2> QED
    BY <2>3
<1> HIDE DEF S
<1>4. n \in S
  BY <1>1, <1>2, <1>3, Induccion
<1>5. PICK f : Sucesivos(f, s, n)
  BY <1>1, <1>4 DEF S
<1> DEFINE Cuenta(g) == g = [i \in 1..(n + 1) |-> IF i = 1 THEN 0 ELSE g[i - 1] + s[i - 1].tamanio]
<1>6. Cuenta(f)
  <2>1. f = [i \in 1..(n + 1) |-> f[i]]
    BY <1>5 DEF Sucesivos
  <2>2. \A i \in 1..(n + 1) : f[i] = IF i = 1 THEN 0 ELSE f[i - 1] + s[i - 1].tamanio
    <3> SUFFICES ASSUME NEW i \in 1..(n + 1), i # 1
                 PROVE  f[i] = f[i - 1] + s[i - 1].tamanio
      BY <1>5 DEF Sucesivos
    <3>1. i - 1 \in 1..n /\ i = (i - 1) + 1
      BY <1>1
    <3> QED
      BY <3>1, <1>5 DEF Sucesivos
  <2> QED
    BY <2>1, <2>2
<1>7. \A g : Cuenta(g) => g = f
  <2> SUFFICES ASSUME NEW g, Cuenta(g)
               PROVE  g = f
    OBVIOUS
  <2> DEFINE R == {m \in Nat : m <= n => g[m + 1] = f[m + 1]}
  <2>1. 0 \in R
    BY <1>5, <1>1 DEF Sucesivos
  <2>2. ASSUME NEW m \in Nat, m \in R PROVE m + 1 \in R
    <3> SUFFICES ASSUME m + 1 <= n PROVE g[m + 2] = f[m + 2]
      OBVIOUS
    <3>1. m + 2 \in 1..(n + 1) /\ m + 1 \in 1..n /\ (m + 2) - 1 = m + 1 /\ (m + 1) + 1 = m + 2
      BY <1>1
    <3>2. f[m + 2] = f[m + 1] + s[m + 1].tamanio
      BY <3>1, <1>5 DEF Sucesivos
    <3>3. g[m + 2] = g[m + 1] + s[m + 1].tamanio
      BY <3>1
    <3> QED
      BY <2>2, <3>2, <3>3
  <2> HIDE DEF R
  <2>3. Nat \subseteq R
    BY <2>1, <2>2, Induccion
  <2>4. \A i \in 1..(n + 1) : g[i] = f[i]
    <3> SUFFICES ASSUME NEW i \in 1..(n + 1) PROVE g[i] = f[i]
      OBVIOUS
    <3>1. i - 1 \in R /\ i - 1 <= n /\ (i - 1) + 1 = i
      BY <2>3, <1>1
    <3> QED
      BY <3>1 DEF R
  <2>5. DOMAIN g = 1..(n + 1) /\ g = [i \in 1..(n + 1) |-> g[i]]
    OBVIOUS
  <2> QED
    BY <2>4, <2>5, <1>5 DEF Sucesivos
<1>8. Inicios(s) = CHOOSE g : Cuenta(g)
  BY DEF Inicios
<1> HIDE DEF Cuenta
<1>9. Inicios(s) = f
  BY <1>6, <1>7, <1>8
<1> QED
  BY <1>5, <1>9

(* From the k-th on, the first n fields of s are as long as those of t.    *)
MismosLargos(s, t, k, n) ==
  \A i \in 1..n : s[k + i].tamanio = t[i].tamanio /\ t[i].tamanio \in Nat

(* So they start at the same distance from the first of them.              *)
Distan(f, g, k, n) == \A i \in 1..(n + 1) : f[k + i] = f[k + 1] + g[i]

(* When the fields of t have the lengths of those of s from the k-th on,   *)
(* they start at the same distances.                                       *)
LEMMA SucesivosIguales ==
  ASSUME NEW f, NEW g, NEW s, NEW t, NEW m \in Nat, NEW n \in Nat, NEW k \in Nat,
         Sucesivos(f, s, m), Sucesivos(g, t, n), k + n <= m,
         MismosLargos(s, t, k, n)
  PROVE  Distan(f, g, k, n)
<1> DEFINE R == {j \in Nat : j <= n => f[k + (j + 1)] = f[k + 1] + g[j + 1]}
<1>0. f[k + 1] \in Nat
  BY DEF Sucesivos
<1>1. 0 \in R
  BY <1>0 DEF Sucesivos
<1>2. ASSUME NEW j \in Nat, j \in R
      PROVE  j + 1 \in R
  <2> SUFFICES ASSUME j + 1 <= n PROVE f[k + (j + 2)] = f[k + 1] + g[j + 2]
    OBVIOUS
  <2>1. j + 1 \in 1..n /\ (j + 1) + 1 = j + 2 /\ j + 2 \in 1..(n + 1)
    OBVIOUS
  <2>2. k + (j + 1) \in 1..m /\ (k + (j + 1)) + 1 = k + (j + 2) /\ k + (j + 2) \in 1..(m + 1)
    OBVIOUS
  <2>3. f[k + (j + 2)] = f[k + (j + 1)] + s[k + (j + 1)].tamanio
    BY <2>2 DEF Sucesivos
  <2>4. g[j + 2] = g[j + 1] + t[j + 1].tamanio
    BY <2>1 DEF Sucesivos
  <2>5. g[j + 1] \in Nat /\ g[j + 2] \in Nat /\ f[k + (j + 1)] \in Nat /\ f[k + (j + 2)] \in Nat
    BY <2>1, <2>2 DEF Sucesivos
  <2>6. f[k + (j + 1)] = f[k + 1] + g[j + 1]
    BY <1>2
  <2>7. s[k + (j + 1)].tamanio = t[j + 1].tamanio /\ t[j + 1].tamanio \in Nat
    BY <2>1 DEF MismosLargos
  <2> QED
    BY <1>0, <2>3, <2>4, <2>5, <2>6, <2>7
<1> HIDE DEF R
<1>3. Nat \subseteq R
  BY <1>1, <1>2, Induccion
<1> SUFFICES ASSUME NEW i \in 1..(n + 1) PROVE f[k + i] = f[k + 1] + g[i]
  BY DEF Distan
<1>4. i - 1 \in R /\ i - 1 <= n /\ (i - 1) + 1 = i
  BY <1>3
<1> QED
  BY <1>4 DEF R

(* One field starts after another.                                         *)
LEMMA Creciente ==
  ASSUME NEW V, NEW s \in Textos(V), NEW i \in 1..(Len(s) + 1), NEW j \in 1..(Len(s) + 1), i < j
  PROVE  Inicios(s)[i] < Inicios(s)[j]
<1> DEFINE f == Inicios(s)
           n == Len(s)
           R == {k \in Nat : i + (k + 1) <= n + 1 => f[i] < f[i + (k + 1)]}
<1>1. Sucesivos(f, s, n)
  BY Inicio
<1>2. \A k \in 1..n : f[k] \in Nat /\ f[k + 1] \in Nat /\ f[k] < f[k + 1]
  <2> SUFFICES ASSUME NEW k \in 1..n PROVE f[k] \in Nat /\ f[k + 1] \in Nat /\ f[k] < f[k + 1]
    OBVIOUS
  <2>1. s[k] \in Campos(V)
    BY DEF Textos
  <2>2. s[k].tamanio \in Nat \ {0}
    BY <2>1 DEF Campos
  <2> QED
    BY <1>1, <2>2 DEF Sucesivos
<1> HIDE DEF f
<1>3. 0 \in R
  BY <1>2
<1>4. ASSUME NEW k \in Nat, k \in R PROVE k + 1 \in R
  <2> SUFFICES ASSUME i + (k + 2) <= n + 1 PROVE f[i] < f[i + (k + 2)]
    OBVIOUS
  <2>1. f[i] < f[i + (k + 1)]
    BY <1>4
  <2>2. i \in 1..n /\ i + (k + 1) \in 1..n /\ (i + (k + 1)) + 1 = i + (k + 2)
    OBVIOUS
  <2>3. f[i + (k + 1)] < f[i + (k + 2)] /\ f[i] \in Nat /\ f[i + (k + 1)] \in Nat /\ f[i + (k + 2)] \in Nat
    BY <1>2, <2>2
  <2> QED
    BY <2>1, <2>3
<1> HIDE DEF R
<1>5. (j - i) - 1 \in R
  BY <1>3, <1>4, Induccion
<1>6. i + (((j - i) - 1) + 1) = j
  OBVIOUS
<1> QED
  BY <1>5, <1>6 DEF R, f

(* The fields of s, one after the other from byte p.                       *)
Contiene(en, p, s) == \A i \in 1..Len(s) : en[p + Inicios(s)[i]] = s[i].valor

(* What the buffer has where a field starts is that field.                 *)
LEMMA ContenidoDeLosCampos ==
  ASSUME NEW V, NEW s \in Textos(V)
  PROVE  Contiene(Contenido(s), 0, s)
<1> SUFFICES ASSUME NEW i \in 1..Len(s)
             PROVE  Contenido(s)[0 + Inicios(s)[i]] = s[i].valor
  BY DEF Contiene
<1> DEFINE f == Inicios(s)
<1>1. f[i] \in Nat
  <2>1. Sucesivos(f, s, Len(s)) /\ i \in 1..(Len(s) + 1)
    BY Inicio
  <2> QED
    BY <2>1 DEF Sucesivos
<1>2. \A j \in 1..Len(s) : f[j] = f[i] => j = i
  <2> SUFFICES ASSUME NEW j \in 1..Len(s), j # i, f[j] = f[i] PROVE FALSE
    OBVIOUS
  <2>1. i < j \/ j < i
    OBVIOUS
  <2>2. i \in 1..(Len(s) + 1) /\ j \in 1..(Len(s) + 1)
    OBVIOUS
  <2> QED
    BY <1>1, <2>1, <2>2, Creciente
<1> HIDE DEF f
<1>3. (CHOOSE k \in 1..Len(s) : f[k] = f[i]) = i
  BY <1>2
<1>4. DOMAIN s = 1..Len(s)
  OBVIOUS
<1>5. Contenido(s)[f[i]] = s[i].valor
  BY <1>3, <1>4 DEF Contenido, f
<1> QED
  BY <1>1, <1>5 DEF f

(* What follows a text starts where the text ends.                         *)
Sigue(u, s, t, m, n) ==
  /\ \A i \in 1..m : u[i] = s[i] /\ s[i].tamanio \in Nat
  /\ \A i \in 1..n : u[m + i] = t[i] /\ t[i].tamanio \in Nat

(* f counts the bytes of both, g and h those of each.                      *)
Encadena(f, g, h, m, n, q) ==
  /\ \A i \in 1..(m + 1) : f[i] = g[i]
  /\ \A i \in 1..(n + 1) : f[m + i] = g[m + 1] + h[i]
  /\ f[q + 1] = g[m + 1] + h[n + 1]

(* The fields of s followed by those of t start where those of s do, and   *)
(* then at the end of s plus where those of t do.                          *)
LEMMA SucesivosDeLaSuma ==
  ASSUME NEW f, NEW g, NEW h, NEW u, NEW s, NEW t, NEW m \in Nat, NEW n \in Nat, NEW q \in Nat, q = m + n,
         Sucesivos(f, u, q), Sucesivos(g, s, m), Sucesivos(h, t, n), Sigue(u, s, t, m, n)
  PROVE  Encadena(f, g, h, m, n, q)
<1> DEFINE z == 0
<1>1. m + n <= q
  OBVIOUS
<1>2. z \in Nat /\ z + m <= q /\ MismosLargos(u, s, z, m) /\ MismosLargos(u, t, m, n)
  BY DEF MismosLargos, Sigue
<1>3. /\ f[z + 1] = 0
      /\ \A i \in 1..(m + 1) : z + i = i /\ g[i] \in Nat
  BY DEF Sucesivos
<1> HIDE DEF z
<1>4. Distan(f, g, z, m)
  BY <1>1, <1>2, SucesivosIguales
<1>5. Distan(f, h, m, n)
  BY <1>1, <1>2, SucesivosIguales
<1>6. \A i \in 1..(m + 1) : f[i] = g[i]
  BY <1>3, <1>4 DEF Distan
<1>7. f[m + 1] = g[m + 1]
  BY <1>6
<1>8. \A i \in 1..(n + 1) : f[m + i] = g[m + 1] + h[i]
  BY <1>5, <1>7 DEF Distan
<1>9. n + 1 \in 1..(n + 1) /\ m + (n + 1) = q + 1
  OBVIOUS
<1> QED
  BY <1>6, <1>8, <1>9 DEF Encadena

(* The length of two texts, one after the other, is the sum of theirs.     *)
LEMMA InicioDeLaSuma ==
  ASSUME NEW V, NEW s \in Textos(V), NEW t \in Textos(V)
  PROVE  /\ Longitud(s \o t) = Longitud(s) + Longitud(t)
         /\ \A i \in 1..(Len(s) + 1) : Inicios(s \o t)[i] = Inicios(s)[i]
         /\ \A i \in 1..(Len(t) + 1) : Inicios(s \o t)[Len(s) + i] = Longitud(s) + Inicios(t)[i]
<1>a. s \o t \in Textos(V) /\ Len(s) \in Nat /\ Len(t) \in Nat
  BY DEF Textos
<1>b. /\ Len(s \o t) = Len(s) + Len(t)
      /\ \A i \in 1..Len(s) : (s \o t)[i] = s[i] /\ s[i] \in Campos(V)
      /\ \A i \in 1..Len(t) : (s \o t)[Len(s) + i] = t[i] /\ t[i] \in Campos(V)
  BY DEF Textos
<1>c. Sigue(s \o t, s, t, Len(s), Len(t))
  BY <1>b DEF Campos, Sigue
<1>d. PICK m \in Nat : m = Len(s)
  BY <1>a
<1>e. PICK n \in Nat : n = Len(t)
  BY <1>a
<1>f. PICK q \in Nat : q = m + n
  OBVIOUS
<1>g. PICK u : u = s \o t
  OBVIOUS
<1>1. u = s \o t /\ m = Len(s) /\ n = Len(t) /\ q = m + n
  BY <1>d, <1>e, <1>f, <1>g
<1>2. PICK f, g, h : f = Inicios(u) /\ g = Inicios(s) /\ h = Inicios(t)
  OBVIOUS
<1>3. Sucesivos(f, u, q) /\ Sucesivos(g, s, m) /\ Sucesivos(h, t, n) /\ Sigue(u, s, t, m, n)
  BY <1>1, <1>2, <1>a, <1>b, <1>c, Inicio
<1>4. Longitud(u) = f[q + 1] /\ Longitud(s) = g[m + 1] /\ Longitud(t) = h[n + 1]
  BY <1>1, <1>2, <1>b DEF Longitud
<1>5. q = m + n
  BY <1>1
<1>6. Encadena(f, g, h, m, n, q)
  BY <1>3, <1>5, SucesivosDeLaSuma
<1> QED
  BY <1>1, <1>2, <1>4, <1>6 DEF Encadena

(* A buffer that contains one text after the other contains the first one, *)
(* and the second where the first ends.                                    *)
LEMMA Partir ==
  ASSUME NEW V, NEW s \in Textos(V), NEW t \in Textos(V), NEW en, NEW p \in Nat,
         Contiene(en, p, s \o t)
  PROVE  /\ Contiene(en, p, s)
         /\ Contiene(en, p + Longitud(s), t)
<1> DEFINE u == s \o t
<1>1. /\ Len(u) = Len(s) + Len(t)
      /\ \A i \in 1..Len(s) : i \in 1..Len(u) /\ u[i] = s[i]
      /\ \A i \in 1..Len(t) : Len(s) + i \in 1..Len(u) /\ u[Len(s) + i] = t[i]
  OBVIOUS
<1>2. /\ \A i \in 1..Len(s) : Inicios(u)[i] = Inicios(s)[i]
      /\ \A i \in 1..Len(t) : Inicios(u)[Len(s) + i] = Longitud(s) + Inicios(t)[i]
  BY InicioDeLaSuma
<1>3. Longitud(s) \in Nat /\ \A i \in 1..Len(t) : Inicios(t)[i] \in Nat
  <2>1. Sucesivos(Inicios(s), s, Len(s)) /\ Sucesivos(Inicios(t), t, Len(t))
    BY Inicio
  <2>2. Len(s) \in Nat /\ Len(t) \in Nat
    OBVIOUS
  <2> QED
    BY <2>1, <2>2 DEF Longitud, Sucesivos
<1>4. \A i \in 1..Len(u) : en[p + Inicios(u)[i]] = u[i].valor
  BY DEF Contiene
<1> HIDE DEF u
<1>5. Contiene(en, p, s)
  BY <1>1, <1>2, <1>4 DEF Contiene
<1>6. \A i \in 1..Len(t) : p + (Longitud(s) + Inicios(t)[i]) = (p + Longitud(s)) + Inicios(t)[i]
  BY <1>3
<1>7. Contiene(en, p + Longitud(s), t)
  <2> SUFFICES ASSUME NEW i \in 1..Len(t)
               PROVE  en[(p + Longitud(s)) + Inicios(t)[i]] = t[i].valor
    BY DEF Contiene
  <2>1. en[p + Inicios(u)[Len(s) + i]] = t[i].valor
    BY <1>1, <1>4
  <2>2. p + Inicios(u)[Len(s) + i] = (p + Longitud(s)) + Inicios(t)[i]
    BY <1>2, <1>6
  <2> QED
    BY <2>1, <2>2
<1> QED
  BY <1>5, <1>7

-----------------------------------------------------------------------------
(* One text after the other.                                               *)

(* The texts that follow one another.                                      *)
Trozos(V) == Seq(Textos(V))

(* f[k] is the first k of ss, one after the other.                         *)
Junta(V, f, ss, n) ==
  /\ f \in [0..n -> Textos(V)]
  /\ f[0] = <<>>
  /\ \A k \in 1..n : f[k] = f[k - 1] \o ss[k]

(* Two texts, one after the other, are a text.                             *)
LEMMA TextosJuntos ==
  ASSUME NEW V, NEW s \in Textos(V), NEW t \in Textos(V)
  PROVE  s \o t \in Textos(V) /\ <<>> \in Textos(V) /\ <<>> \o s = s
BY DEF Textos

(* A sequence of texts can be joined.                                      *)
LEMMA HayJunta ==
  ASSUME NEW V, NEW ss \in Trozos(V)
  PROVE  \E f : Junta(V, f, ss, Len(ss))
<1> DEFINE n == Len(ss)
           S == {m \in Nat : m <= n => \E f : Junta(V, f, ss, m)}
<1>1. n \in Nat /\ \A k \in 1..n : ss[k] \in Textos(V)
  BY DEF Trozos
<1>2. 0 \in S
  <2>1. <<>> \in Textos(V)
    BY DEF Textos
  <2>2. Junta(V, [k \in 0..0 |-> <<>>], ss, 0)
    BY <2>1 DEF Junta
  <2> QED
    BY <2>2
<1>3. ASSUME NEW m \in Nat, m \in S
      PROVE  m + 1 \in S
  <2> SUFFICES ASSUME m + 1 <= n
               PROVE  \E f : Junta(V, f, ss, m + 1)
    OBVIOUS
  <2>1. PICK f : Junta(V, f, ss, m)
    BY <1>1, <1>3
  <2> DEFINE g == [k \in 0..(m + 1) |-> IF k = m + 1 THEN f[m] \o ss[m + 1] ELSE f[k]]
  <2>2. ss[m + 1] \in Textos(V) /\ f[m] \in Textos(V)
    BY <1>1, <2>1 DEF Junta
  <2>3. f[m] \o ss[m + 1] \in Textos(V)
    BY <2>2, TextosJuntos
  <2>4. /\ \A k \in 0..m : f[k] \in Textos(V)
        /\ f[0] = <<>>
        /\ \A k \in 1..m : f[k] = f[k - 1] \o ss[k]
    BY <2>1 DEF Junta
  <2>5. g \in [0..(m + 1) -> Textos(V)]
    BY <2>3, <2>4
  <2>6. g[0] = <<>>
    BY <2>4
  <2>7. ASSUME NEW k \in 1..(m + 1) PROVE g[k] = g[k - 1] \o ss[k]
    <3>1. k - 1 \in 0..(m + 1) /\ k - 1 # m + 1 /\ k \in 0..(m + 1) /\ g[k - 1] = f[k - 1]
      OBVIOUS
    <3>2. CASE k = m + 1
      <4>1. k - 1 = m /\ g[k] = f[m] \o ss[m + 1]
        BY <3>2
      <4> QED
        BY <3>1, <3>2, <4>1
    <3>3. CASE k # m + 1
      <4>1. k \in 1..m /\ g[k] = f[k]
        BY <3>3
      <4> QED
        BY <2>4, <3>1, <4>1
    <3> QED
      BY <3>2, <3>3
  <2>8. Junta(V, g, ss, m + 1)
    BY <2>5, <2>6, <2>7 DEF Junta
  <2> QED
    BY <2>8
<1> HIDE DEF S
<1>4. n \in S
  BY <1>1, <1>2, <1>3, Induccion
<1> QED
  BY <1>1, <1>4 DEF S

(* FlattenSeq is the last of them.                                         *)
LEMMA FlattenJunta ==
  ASSUME NEW V, NEW ss \in Trozos(V), NEW n \in Nat, n = Len(ss), NEW f, Junta(V, f, ss, n)
  PROVE  FlattenSeq(ss) = f[n]
<1>1. CASE n = 0
  <2>1. ss = <<>>
    <3>1. ss \in Seq(Textos(V)) /\ Len(ss) = 0
      BY <1>1 DEF Trozos
    <3> QED
      BY <3>1, EmptySeq
  <2>2. FlattenSeq(ss) = ss
    BY <1>1 DEF FlattenSeq
  <2> QED
    BY <1>1, <2>1, <2>2 DEF Junta
<1>2. CASE n # 0
  <2> DEFINE Cuenta(g) == g = [i \in 1..n |-> IF i = 1 THEN ss[i] ELSE g[i - 1] \o ss[i]]
             h == [i \in 1..n |-> f[i]]
  <2>0. /\ \A k \in 0..n : f[k] \in Textos(V)
        /\ f[0] = <<>>
        /\ \A k \in 1..n : f[k] = f[k - 1] \o ss[k]
    BY DEF Junta
  <2>a. \A k \in 1..n : ss[k] \in Textos(V)
    BY DEF Trozos
  <2>b. 1 \in 1..n /\ ss[1] \in Textos(V) /\ 1 - 1 = 0
    BY <1>2, <2>a
  <2>c. f[1] = ss[1]
    <3>1. f[1] = <<>> \o ss[1]
      BY <2>0, <2>b
    <3> QED
      BY <3>1, <2>b, TextosJuntos
  <2>1. Cuenta(h)
    <3>1. \A i \in 1..n : f[i] = IF i = 1 THEN ss[i] ELSE h[i - 1] \o ss[i]
      <4> SUFFICES ASSUME NEW i \in 1..n, i # 1 PROVE f[i] = h[i - 1] \o ss[i]
        BY <2>c
      <4>1. i - 1 \in 1..n
        OBVIOUS
      <4> QED
        BY <4>1, <2>0
    <3> QED
      BY <3>1
  <2>2. \A g : Cuenta(g) => g = h
    <3> SUFFICES ASSUME NEW g, Cuenta(g) PROVE g = h
      OBVIOUS
    <3> DEFINE R == {m \in Nat : m + 1 <= n => g[m + 1] = f[m + 1]}
    <3>1. 0 \in R
      BY <2>b, <2>c
    <3>2. ASSUME NEW m \in Nat, m \in R PROVE m + 1 \in R
      <4> SUFFICES ASSUME m + 2 <= n PROVE g[m + 2] = f[m + 2]
        OBVIOUS
      <4>1. m + 2 \in 1..n /\ m + 2 # 1 /\ (m + 2) - 1 = m + 1 /\ m + 1 <= n
        OBVIOUS
      <4>2. g[m + 2] = g[m + 1] \o ss[m + 2]
        BY <4>1
      <4>3. f[m + 2] = f[m + 1] \o ss[m + 2]
        BY <4>1, <2>0
      <4>4. g[m + 1] = f[m + 1]
        BY <3>2, <4>1
      <4> QED
        BY <4>2, <4>3, <4>4
    <3> HIDE DEF R
    <3>3. Nat \subseteq R
      BY <3>1, <3>2, Induccion
    <3>4. \A i \in 1..n : g[i] = f[i]
      <4> SUFFICES ASSUME NEW i \in 1..n PROVE g[i] = f[i]
        OBVIOUS
      <4>1. i - 1 \in R /\ (i - 1) + 1 = i
        BY <3>3
      <4> QED
        BY <4>1 DEF R
    <3>5. g = [i \in 1..n |-> g[i]]
      OBVIOUS
    <3> HIDE DEF Cuenta
    <3> QED
      BY <3>4, <3>5
  <2>3. FlattenSeq(ss) = (CHOOSE g : Cuenta(g))[n]
    BY <1>2 DEF FlattenSeq
  <2>4. h[n] = f[n]
    BY <1>2
  <2> HIDE DEF Cuenta, h
  <2>5. (CHOOSE g : Cuenta(g)) = h
    BY <2>1, <2>2
  <2> QED
    BY <2>3, <2>4, <2>5
<1> QED
  BY <1>1, <1>2

(* The first k of ss, one after the other.                                 *)
Hasta(ss, k) == FlattenSeq(SubSeq(ss, 1, k))

(* They are texts, and each is the one before it and one more.             *)
HastaBien(V, ss) ==
  /\ \A k \in 0..Len(ss) : Hasta(ss, k) \in Textos(V)
  /\ Hasta(ss, 0) = <<>>
  /\ \A k \in 1..Len(ss) : Hasta(ss, k) = Hasta(ss, k - 1) \o ss[k]
  /\ FlattenSeq(ss) = Hasta(ss, Len(ss))

(* FlattenSeq joins them.                                                  *)
LEMMA HastaJunta ==
  ASSUME NEW V, NEW ss \in Trozos(V)
  PROVE  HastaBien(V, ss)
<1> DEFINE n == Len(ss)
<1>1. PICK f : Junta(V, f, ss, n)
  BY HayJunta
<1>2. n \in Nat /\ SubSeq(ss, 1, n) = ss
  BY DEF Trozos
<1>3. ASSUME NEW k \in 0..n
      PROVE  Hasta(ss, k) = f[k]
  <2> DEFINE tt == SubSeq(ss, 1, k)
             g == [i \in 0..k |-> f[i]]
  <2>1. tt \in Trozos(V) /\ Len(tt) = k /\ (\A i \in 1..k : tt[i] = ss[i]) /\ k \in Nat
    BY DEF Trozos
  <2> HIDE DEF tt
  <2>2. Junta(V, g, tt, k)
    <3>1. \A i \in 0..k : f[i] \in Textos(V) /\ i \in 0..n
      BY <1>1, <1>2 DEF Junta
    <3>2. g \in [0..k -> Textos(V)]
      BY <3>1
    <3>3. g[0] = <<>>
      BY <1>1 DEF Junta
    <3>4. ASSUME NEW i \in 1..k PROVE g[i] = g[i - 1] \o tt[i]
      <4>1. g[i] = f[i] /\ g[i - 1] = f[i - 1] /\ i \in 1..n
        BY <1>2
      <4>2. f[i] = f[i - 1] \o ss[i]
        BY <1>1, <4>1 DEF Junta
      <4> QED
        BY <2>1, <4>1, <4>2
    <3> QED
      BY <3>2, <3>3, <3>4 DEF Junta
  <2>3. g[k] = f[k]
    OBVIOUS
  <2> HIDE DEF g
  <2>4. FlattenSeq(tt) = g[k]
    BY <2>1, <2>2, FlattenJunta
  <2> QED
    BY <2>3, <2>4 DEF Hasta, tt
<1> HIDE DEF n
<1>4. \A k \in 0..n : Hasta(ss, k) \in Textos(V)
  BY <1>1, <1>3 DEF Junta
<1>5. 0 \in 0..n /\ n \in 0..n /\ \A k \in 1..n : k \in 0..n /\ k - 1 \in 0..n
  BY <1>2
<1>6. Hasta(ss, 0) = <<>>
  BY <1>1, <1>3, <1>5 DEF Junta
<1>7. \A k \in 1..n : Hasta(ss, k) = Hasta(ss, k - 1) \o ss[k]
  BY <1>1, <1>3, <1>5 DEF Junta
<1>8. FlattenSeq(ss) = Hasta(ss, n)
  BY <1>2 DEF Hasta
<1> QED
  BY <1>4, <1>6, <1>7, <1>8 DEF HastaBien, n

(* What a sequence of texts says is said by each of them, in its place.    *)
LEMMA CadaTrozo ==
  ASSUME NEW V, NEW ss \in Trozos(V), NEW en, NEW p \in Nat, Contiene(en, p, FlattenSeq(ss)),
         NEW k \in 1..Len(ss)
  PROVE  Contiene(en, p + Longitud(Hasta(ss, k - 1)), ss[k])
<1> DEFINE n == Len(ss)
           S == {m \in Nat : m <= n => Contiene(en, p, Hasta(ss, n - m))}
<1>1. n \in Nat /\ \A j \in 1..n : ss[j] \in Textos(V)
  BY DEF Trozos
<1>2. HastaBien(V, ss)
  BY HastaJunta
<1>3. ASSUME NEW j \in 1..n, Contiene(en, p, Hasta(ss, j))
      PROVE  /\ Contiene(en, p, Hasta(ss, j - 1))
             /\ Contiene(en, p + Longitud(Hasta(ss, j - 1)), ss[j])
  <2>1. PICK s : s = Hasta(ss, j - 1)
    OBVIOUS
  <2>2. PICK t : t = ss[j]
    OBVIOUS
  <2>3. j - 1 \in 0..n /\ Hasta(ss, j) = s \o t
    <3>1. j - 1 \in 0..n
      BY <1>1
    <3>2. Hasta(ss, j) = Hasta(ss, j - 1) \o ss[j]
      BY <1>2 DEF HastaBien
    <3> QED
      BY <3>1, <3>2, <2>1, <2>2
  <2>4. s \in Textos(V) /\ t \in Textos(V)
    <3>1. s \in Textos(V)
      BY <1>2, <2>1, <2>3 DEF HastaBien
    <3> QED
      BY <3>1, <1>1, <2>2
  <2>5. Contiene(en, p, s \o t)
    BY <1>3, <2>3
  <2>6. Contiene(en, p, s) /\ Contiene(en, p + Longitud(s), t)
    BY <2>4, <2>5, Partir
  <2> QED
    BY <2>1, <2>2, <2>6
<1> HIDE DEF n
<1>4. 0 \in S
  <2>1. n - 0 = n /\ FlattenSeq(ss) = Hasta(ss, n)
    BY <1>1, <1>2 DEF HastaBien, n
  <2> QED
    BY <2>1
<1>5. ASSUME NEW m \in Nat, m \in S PROVE m + 1 \in S
  <2> SUFFICES ASSUME m + 1 <= n PROVE Contiene(en, p, Hasta(ss, n - (m + 1)))
    OBVIOUS
  <2>1. n - m \in 1..n /\ (n - m) - 1 = n - (m + 1)
    BY <1>1
  <2>2. Contiene(en, p, Hasta(ss, n - m))
    BY <1>1, <1>5
  <2> QED
    BY <1>3, <2>1, <2>2
<1> HIDE DEF S
<1>6. n - k \in S /\ n - k <= n /\ n - (n - k) = k /\ k \in 1..n
  <2>1. n - k \in Nat /\ k \in Nat
    BY <1>1 DEF n
  <2> QED
    BY <1>1, <1>4, <1>5, <2>1, Induccion DEF n
<1>7. Contiene(en, p, Hasta(ss, k))
  BY <1>6 DEF S
<1> QED
  BY <1>3, <1>6, <1>7

(* The length of a sequence of texts of the same length.                   *)
LEMMA Iguales ==
  ASSUME NEW V, NEW ss \in Trozos(V), NEW L \in Nat,
         \A k \in 1..Len(ss) : Longitud(ss[k]) = L,
         NEW k \in 0..Len(ss)
  PROVE  Longitud(Hasta(ss, k)) = k * L
<1> DEFINE n == Len(ss)
           S == {m \in Nat : m <= n => Longitud(Hasta(ss, m)) = m * L}
<1>1. n \in Nat /\ \A j \in 1..n : ss[j] \in Textos(V)
  BY DEF Trozos
<1>2. HastaBien(V, ss)
  BY HastaJunta
<1>3. 0 \in S
  <2>1. Longitud(<<>>) = 0
    <3>1. <<>> \in Textos(V) /\ Len(<<>>) = 0
      BY DEF Textos
    <3>2. Sucesivos(Inicios(<<>>), <<>>, Len(<<>>))
      BY <3>1, Inicio
    <3> QED
      BY <3>1, <3>2 DEF Longitud, Sucesivos
  <2>2. 0 * L = 0
    OBVIOUS
  <2> QED
    BY <1>2, <2>1, <2>2 DEF HastaBien
<1> HIDE DEF n
<1>4. ASSUME NEW m \in Nat, m \in S PROVE m + 1 \in S
  <2> SUFFICES ASSUME m + 1 <= n PROVE Longitud(Hasta(ss, m + 1)) = (m + 1) * L
    OBVIOUS
  <2>1. m + 1 \in 1..n /\ (m + 1) - 1 = m /\ m \in 0..n
    BY <1>1
  <2>2. PICK s : s = Hasta(ss, m)
    OBVIOUS
  <2>3. PICK t : t = ss[m + 1]
    OBVIOUS
  <2>4. s \in Textos(V) /\ t \in Textos(V) /\ Hasta(ss, m + 1) = s \o t
    BY <1>1, <1>2, <2>1, <2>2, <2>3 DEF HastaBien, n
  <2>5. Longitud(s \o t) = Longitud(s) + Longitud(t)
    BY <2>4, InicioDeLaSuma
  <2>6. Longitud(s) = m * L /\ Longitud(t) = L
    BY <1>4, <2>1, <2>2, <2>3 DEF n
  <2>7. (m + 1) * L = m * L + L
    OBVIOUS
  <2> QED
    BY <2>4, <2>5, <2>6, <2>7
<1> HIDE DEF S
<1>5. k \in S /\ k <= n
  <2>1. k \in Nat /\ k <= n
    BY <1>1 DEF n
  <2> QED
    BY <2>1, <1>3, <1>4, Induccion
<1> QED
  BY <1>5 DEF S

-----------------------------------------------------------------------------
(* The fields of a PCB, and the bytes they take.                           *)

(* A text of so many bytes.                                                *)
Texto(V, s, largo) == s \in Textos(V) /\ largo \in Nat /\ Longitud(s) = largo

(* Every text has a length.                                                *)
LEMMA LongitudNatural ==
  ASSUME NEW V, NEW s \in Textos(V)
  PROVE  Texto(V, s, Longitud(s))
<1>1. Sucesivos(Inicios(s), s, Len(s))
  BY Inicio
<1>2. Len(s) \in Nat
  BY DEF Textos
<1> QED
  BY <1>1, <1>2 DEF Texto, Longitud, Sucesivos

(* A text of one field, read at its byte.                                  *)
LEMMA Solo ==
  ASSUME NEW V, NEW n \in Nat \ {0}, NEW v \in V
  PROVE  /\ Texto(V, <<[tamanio |-> n, valor |-> v]>>, n)
         /\ \A en : \A p \in Nat : Contiene(en, p, <<[tamanio |-> n, valor |-> v]>>) => en[p] = v
<1>1. PICK c : c = [tamanio |-> n, valor |-> v]
  OBVIOUS
<1>2. PICK s : s = <<c>>
  OBVIOUS
<1>3. c \in Campos(V) /\ c.tamanio = n /\ c.valor = v
  BY <1>1 DEF Campos
<1>4. s \in Textos(V) /\ Len(s) = 1 /\ s[1] = c
  BY <1>2, <1>3 DEF Textos
<1>5. Sucesivos(Inicios(s), s, Len(s))
  BY <1>4, Inicio
<1>6. Inicios(s)[1] = 0 /\ Inicios(s)[2] = n
  BY <1>3, <1>4, <1>5 DEF Sucesivos
<1>7. Texto(V, s, n)
  BY <1>4, <1>6 DEF Texto, Longitud
<1>8. ASSUME NEW en, NEW p \in Nat, Contiene(en, p, s)
      PROVE  en[p] = v
  BY <1>3, <1>4, <1>6, <1>8 DEF Contiene
<1> QED
  BY <1>1, <1>2, <1>7, <1>8

(* The length of one text after the other.                                 *)
LEMMA Sumar ==
  ASSUME NEW V, NEW s, NEW t, NEW m, NEW n, Texto(V, s, m), Texto(V, t, n)
  PROVE  Texto(V, s \o t, m + n)
<1>1. s \in Textos(V) /\ t \in Textos(V) /\ s \o t \in Textos(V)
  BY TextosJuntos DEF Texto
<1>2. Longitud(s \o t) = Longitud(s) + Longitud(t)
  BY <1>1, InicioDeLaSuma
<1> QED
  BY <1>1, <1>2 DEF Texto

(* Both halves of two texts are where they should.                         *)
LEMMA Mitades ==
  ASSUME NEW V, NEW s, NEW t, NEW m, NEW n, Texto(V, s, m), Texto(V, t, n),
         NEW en, NEW p \in Nat, Contiene(en, p, s \o t)
  PROVE  Contiene(en, p, s) /\ Contiene(en, p + m, t)
BY Partir DEF Texto

(* An int takes SizeofInt bytes and is read at the first of them.          *)
LEMMA ElEntero ==
  ASSUME Tamanios, NEW V, NEW v \in V
  PROVE  /\ Texto(V, Entero(v), SizeofInt)
         /\ \A en : \A p \in Nat : Contiene(en, p, Entero(v)) => en[p] = v
BY Solo DEF Entero, Tamanios

(* A char takes SizeofChar bytes.                                          *)
LEMMA ElCaracter ==
  ASSUME Tamanios, NEW V, NEW v \in V
  PROVE  /\ Texto(V, Caracter(v), SizeofChar)
         /\ \A en : \A p \in Nat : Contiene(en, p, Caracter(v)) => en[p] = v
BY Solo DEF Caracter, Tamanios

(* t_posicion_memoria, t_variables_stack and t_indice_stack, with numbers  *)
(* and names of V.                                                         *)
LugaresDe(V) == [offset : V, pagina : V, size : V]

(* A place is three ints, and LeerLugar reads what EscribirLugar wrote.    *)
LEMMA ElLugar ==
  ASSUME Tamanios, NEW V, NEW lugar \in LugaresDe(V)
  PROVE  /\ Texto(V, EscribirLugar(lugar), 3 * SizeofInt)
         /\ \A en : \A p \in Nat : Contiene(en, p, EscribirLugar(lugar)) => LeerLugar(en, p) = lugar
<1> DEFINE a == Entero(lugar.offset)
           b == Entero(lugar.pagina)
           c == Entero(lugar.size)
           n == SizeofInt
<1>1. lugar.offset \in V /\ lugar.pagina \in V /\ lugar.size \in V /\ n \in Nat
  BY DEF LugaresDe, Tamanios
<1>2. Texto(V, a, n) /\ Texto(V, b, n) /\ Texto(V, c, n)
  BY <1>1, ElEntero
<1>3. EscribirLugar(lugar) = (a \o b) \o c
  BY DEF EscribirLugar
<1>a. \A en : \A p \in Nat :
        /\ Contiene(en, p, a) => en[p] = lugar.offset
        /\ Contiene(en, p, b) => en[p] = lugar.pagina
        /\ Contiene(en, p, c) => en[p] = lugar.size
  BY <1>1, ElEntero
<1> HIDE DEF a, b, c, n
<1>4. Texto(V, a \o b, n + n)
  BY <1>2, Sumar
<1>5. Texto(V, (a \o b) \o c, (n + n) + n)
  BY <1>2, <1>4, Sumar
<1>6. (n + n) + n = 3 * n
  BY <1>1
<1>7. ASSUME NEW en, NEW p \in Nat, Contiene(en, p, EscribirLugar(lugar))
      PROVE  LeerLugar(en, p) = lugar
  <2>1. Contiene(en, p, a \o b) /\ Contiene(en, p + (n + n), c)
    BY <1>2, <1>3, <1>4, <1>7, Mitades
  <2>2. Contiene(en, p, a) /\ Contiene(en, p + n, b)
    BY <1>2, <2>1, Mitades
  <2>3. p + n \in Nat /\ p + (n + n) \in Nat /\ p + (n + n) = p + 2 * n
    BY <1>1
  <2>4. en[p] = lugar.offset /\ en[p + n] = lugar.pagina /\ en[p + 2 * n] = lugar.size
    BY <1>a, <2>1, <2>2, <2>3
  <2>5. lugar = [offset |-> lugar.offset, pagina |-> lugar.pagina, size |-> lugar.size]
    BY DEF LugaresDe
  <2> QED
    BY <2>4, <2>5 DEF LeerLugar, n
<1> QED
  BY <1>3, <1>5, <1>6, <1>7 DEF n

VariablesDe(V) == [id : V, posicion_memoria : LugaresDe(V)]

(* So does LeerVariable, of LargoVariable bytes.                           *)
LEMMA LaVariable ==
  ASSUME Tamanios, NEW V, NEW variable \in VariablesDe(V)
  PROVE  /\ Texto(V, EscribirVariable(variable), LargoVariable)
         /\ \A en : \A p \in Nat :
              Contiene(en, p, EscribirVariable(variable)) => LeerVariable(en, p) = variable
<1> DEFINE a == Caracter(variable.id)
           b == EscribirLugar(variable.posicion_memoria)
           n == 3 * SizeofInt
<1>1. variable.id \in V /\ variable.posicion_memoria \in LugaresDe(V) /\ SizeofChar \in Nat
  BY DEF VariablesDe, Tamanios
<1>2. Texto(V, a, SizeofChar) /\ Texto(V, b, n)
  BY <1>1, ElCaracter, ElLugar
<1>a. \A en : \A p \in Nat :
        /\ Contiene(en, p, a) => en[p] = variable.id
        /\ Contiene(en, p, b) => LeerLugar(en, p) = variable.posicion_memoria
  BY <1>1, ElCaracter, ElLugar
<1>3. EscribirVariable(variable) = a \o b
  BY DEF EscribirVariable
<1> HIDE DEF a, b, n
<1>4. Texto(V, a \o b, SizeofChar + n)
  BY <1>2, Sumar
<1>5. ASSUME NEW en, NEW p \in Nat, Contiene(en, p, EscribirVariable(variable))
      PROVE  LeerVariable(en, p) = variable
  <2>1. Contiene(en, p, a) /\ Contiene(en, p + SizeofChar, b)
    BY <1>2, <1>3, <1>5, Mitades
  <2>2. p + SizeofChar \in Nat
    BY <1>1
  <2>3. en[p] = variable.id /\ LeerLugar(en, p + SizeofChar) = variable.posicion_memoria
    BY <1>a, <2>1, <2>2
  <2>4. variable = [id |-> variable.id, posicion_memoria |-> variable.posicion_memoria]
    BY DEF VariablesDe
  <2> QED
    BY <2>3, <2>4 DEF LeerVariable
<1> QED
  BY <1>3, <1>4, <1>5 DEF n, LargoVariable

(* Texts of the same length, one after the other.                          *)
LEMMA TrozosIguales ==
  ASSUME NEW V, NEW ss \in Trozos(V), NEW L, \A k \in 1..Len(ss) : Texto(V, ss[k], L), L \in Nat
  PROVE  /\ Texto(V, FlattenSeq(ss), Len(ss) * L)
         /\ \A en : \A p \in Nat : Contiene(en, p, FlattenSeq(ss)) =>
              \A k \in 1..Len(ss) : Contiene(en, p + (k - 1) * L, ss[k])
<1> DEFINE n == Len(ss)
<1>1. n \in Nat
  BY DEF Trozos
<1>2. \A k \in 1..Len(ss) : Longitud(ss[k]) = L
  BY DEF Texto
<1>3. \A k \in 0..Len(ss) : Longitud(Hasta(ss, k)) = k * L
  BY <1>2, Iguales
<1>4. HastaBien(V, ss)
  BY HastaJunta
<1>5. FlattenSeq(ss) \in Textos(V) /\ Longitud(FlattenSeq(ss)) = n * L
  <2>1. n \in 0..Len(ss)
    BY <1>1
  <2> QED
    BY <2>1, <1>3, <1>4 DEF HastaBien
<1>6. n * L \in Nat
  BY <1>1
<1>7. ASSUME NEW en, NEW p \in Nat, Contiene(en, p, FlattenSeq(ss)), NEW k \in 1..Len(ss)
      PROVE  Contiene(en, p + (k - 1) * L, ss[k])
  <2>1. Contiene(en, p + Longitud(Hasta(ss, k - 1)), ss[k])
    BY <1>7, CadaTrozo
  <2>2. k - 1 \in 0..Len(ss)
    BY <1>1
  <2> QED
    BY <2>1, <2>2, <1>3
<1> QED
  BY <1>5, <1>6, <1>7 DEF Texto

(* The variables of a context, one every LargoVariable bytes.              *)
LEMMA LasVariables ==
  ASSUME Tamanios, NEW V, NEW variables \in Seq(VariablesDe(V))
  PROVE  /\ Texto(V, EscribirVariables(variables), Len(variables) * LargoVariable)
         /\ \A en : \A p \in Nat : Contiene(en, p, EscribirVariables(variables)) =>
              LeerVariables(en, p, Len(variables)) = variables
<1> DEFINE n == Len(variables)
           ss == [i \in 1..n |-> EscribirVariable(variables[i])]
           L == LargoVariable
<1>1. n \in Nat /\ DOMAIN variables = 1..n /\ \A i \in 1..n : variables[i] \in VariablesDe(V)
  OBVIOUS
<1>2. EscribirVariables(variables) = FlattenSeq(ss)
  BY <1>1 DEF EscribirVariables
<1>3. \A i \in 1..n : Texto(V, EscribirVariable(variables[i]), L)
  BY <1>1, LaVariable
<1>4. ss \in Trozos(V) /\ Len(ss) = n /\ \A i \in 1..n : ss[i] = EscribirVariable(variables[i])
  <2>1. \A i \in 1..n : EscribirVariable(variables[i]) \in Textos(V)
    BY <1>3 DEF Texto
  <2> QED
    BY <1>1, <2>1 DEF Trozos
<1>5. L \in Nat
  BY DEF LargoVariable, Tamanios
<1> HIDE DEF ss, L, n
<1>6. \A k \in 1..Len(ss) : Texto(V, ss[k], L)
  BY <1>3, <1>4
<1>7. Texto(V, FlattenSeq(ss), Len(ss) * L)
  BY <1>4, <1>5, <1>6, TrozosIguales
<1>8. ASSUME NEW en, NEW p \in Nat, Contiene(en, p, FlattenSeq(ss))
      PROVE  LeerVariables(en, p, n) = variables
  <2>1. \A k \in 1..Len(ss) : Contiene(en, p + (k - 1) * L, ss[k])
    BY <1>4, <1>5, <1>6, <1>8, TrozosIguales
  <2>2. ASSUME NEW k \in 1..n
        PROVE  LeerVariable(en, p + (k - 1) * L) = variables[k]
    <3>1. (k - 1) * L \in Nat
      <4>1. k - 1 \in Nat
        BY <1>1
      <4> QED
        BY <4>1, <1>5
    <3>2. PICK q \in Nat : q = p + (k - 1) * L
      BY <3>1
    <3>3. Contiene(en, q, EscribirVariable(variables[k]))
      BY <1>4, <2>1, <3>2
    <3>4. LeerVariable(en, q) = variables[k]
      BY <1>1, <3>3, LaVariable
    <3> QED
      BY <3>2, <3>4
  <2>3. variables = [k \in 1..n |-> variables[k]]
    BY <1>1
  <2> QED
    BY <2>2, <2>3 DEF LeerVariables, L
<1> QED
  BY <1>2, <1>4, <1>7, <1>8 DEF n, L

ContextosDe(V) ==
  [posicion_retorno : V, posicion_variable_retorno : LugaresDe(V), variables : Seq(VariablesDe(V))]

(* The bytes of a context.                                                 *)
LargoDelContexto(contexto) == 5 * SizeofInt + Len(contexto.variables) * LargoVariable

(* A context: the reader finds the number of variables, and then each of   *)
(* them.                                                                   *)
LEMMA ElContexto ==
  ASSUME Tamanios, NEW V, Nat \subseteq V, NEW contexto \in ContextosDe(V)
  PROVE  /\ Texto(V, EscribirContexto(contexto), LargoDelContexto(contexto))
         /\ \A en : \A p \in Nat : Contiene(en, p, EscribirContexto(contexto)) =>
              /\ LeerContexto(en, p) = contexto
              /\ en[p + 4 * SizeofInt] = Len(contexto.variables)
<1> DEFINE vs == contexto.variables
           a == Entero(contexto.posicion_retorno)
           b == EscribirLugar(contexto.posicion_variable_retorno)
           c == Entero(Len(vs))
           d == EscribirVariables(vs)
           n == SizeofInt
           m == 3 * SizeofInt
           l == Len(vs) * LargoVariable
<1>1. /\ contexto.posicion_retorno \in V /\ contexto.posicion_variable_retorno \in LugaresDe(V)
      /\ vs \in Seq(VariablesDe(V)) /\ n \in Nat /\ m = 3 * n
  BY DEF ContextosDe, Tamanios
<1>2. Len(vs) \in V
  <2>1. Len(vs) \in Nat
    BY <1>1
  <2> QED
    BY <2>1
<1>3. /\ Texto(V, a, n) /\ Texto(V, b, m) /\ Texto(V, c, n) /\ Texto(V, d, l)
  BY <1>1, <1>2, ElEntero, ElLugar, LasVariables
<1>4. \A en : \A p \in Nat :
        /\ Contiene(en, p, a) => en[p] = contexto.posicion_retorno
        /\ Contiene(en, p, b) => LeerLugar(en, p) = contexto.posicion_variable_retorno
        /\ Contiene(en, p, c) => en[p] = Len(vs)
        /\ Contiene(en, p, d) => LeerVariables(en, p, Len(vs)) = vs
  BY <1>1, <1>2, ElEntero, ElLugar, LasVariables
<1>5. EscribirContexto(contexto) = ((a \o b) \o c) \o d
  BY DEF EscribirContexto
<1>6. LargoDelContexto(contexto) = 5 * n + l
  BY DEF LargoDelContexto
<1>7. contexto = [posicion_retorno |-> contexto.posicion_retorno,
                  posicion_variable_retorno |-> contexto.posicion_variable_retorno,
                  variables |-> vs]
  BY DEF ContextosDe
<1>8. l \in Nat
  BY <1>3 DEF Texto
<1> HIDE DEF a, b, c, d, m, l
<1>9. Texto(V, a \o b, n + m)
  BY <1>3, Sumar
<1>10. Texto(V, (a \o b) \o c, (n + m) + n)
  BY <1>3, <1>9, Sumar
<1>11. Texto(V, ((a \o b) \o c) \o d, ((n + m) + n) + l)
  BY <1>3, <1>10, Sumar
<1>12. ((n + m) + n) + l = 5 * n + l
  BY <1>1, <1>8
<1>13. ASSUME NEW en, NEW p \in Nat, Contiene(en, p, EscribirContexto(contexto))
       PROVE  /\ LeerContexto(en, p) = contexto
              /\ en[p + 4 * SizeofInt] = Len(contexto.variables)
  <2>1. Contiene(en, p, (a \o b) \o c) /\ Contiene(en, p + ((n + m) + n), d)
    BY <1>3, <1>5, <1>10, <1>13, Mitades
  <2>2. Contiene(en, p, a \o b) /\ Contiene(en, p + (n + m), c)
    BY <1>3, <1>9, <2>1, Mitades
  <2>3. Contiene(en, p, a) /\ Contiene(en, p + n, b)
    BY <1>3, <2>2, Mitades
  <2>4. /\ p + n \in Nat /\ p + (n + m) \in Nat /\ p + ((n + m) + n) \in Nat
        /\ p + (n + m) = p + 4 * n /\ p + ((n + m) + n) = p + 5 * n
    BY <1>1
  <2>5. /\ en[p] = contexto.posicion_retorno
        /\ LeerLugar(en, p + n) = contexto.posicion_variable_retorno
        /\ en[p + 4 * n] = Len(vs)
        /\ LeerVariables(en, p + 5 * n, Len(vs)) = vs
    BY <1>4, <2>1, <2>2, <2>3, <2>4
  <2> HIDE DEF vs
  <2>6. LeerContexto(en, p) = [posicion_retorno |-> contexto.posicion_retorno,
                               posicion_variable_retorno |-> contexto.posicion_variable_retorno,
                               variables |-> vs]
    BY <2>5 DEF LeerContexto
  <2> QED
    BY <1>7, <2>5, <2>6 DEF vs
<1> QED
  BY <1>5, <1>6, <1>11, <1>12, <1>13

(* Fields of the same length, one after the other.                         *)
DeLargo(s, n, L) == \A i \in 1..n : s[i].tamanio = L
EnFila(en, p, s, n, L) == \A i \in 1..n : en[p + (i - 1) * L] = s[i].valor

(* They start at the multiples of that length, and take all of them        *)
(* together.                                                               *)
LEMMA Parejos ==
  ASSUME NEW V, NEW s \in Textos(V), NEW n \in Nat, n = Len(s), NEW L \in Nat,
         DeLargo(s, n, L)
  PROVE  /\ Texto(V, s, n * L)
         /\ \A en : \A p \in Nat : Contiene(en, p, s) => EnFila(en, p, s, n, L)
<1> DEFINE g == [i \in 1..(n + 1) |-> (i - 1) * L]
           z == 0
<1>1. PICK f : f = Inicios(s)
  OBVIOUS
<1>2. Sucesivos(f, s, n)
  BY <1>1, Inicio
<1>3. Sucesivos(g, s, n)
  <2>1. \A i \in 1..(n + 1) : i - 1 \in Nat
    OBVIOUS
  <2>2. \A j \in Nat : j * L \in Nat /\ (j + 1) * L = j * L + L
    OBVIOUS
  <2>3. \A i \in 1..(n + 1) : (i - 1) * L \in Nat
    BY <2>1, <2>2
  <2>4. g \in [1..(n + 1) -> Nat] /\ g[1] = 0
    BY <2>3
  <2>5. ASSUME NEW i \in 1..n PROVE g[i + 1] = g[i] + s[i].tamanio
    <3>1. g[i + 1] = ((i - 1) + 1) * L /\ g[i] = (i - 1) * L /\ i - 1 \in Nat /\ s[i].tamanio = L
      BY DEF DeLargo
    <3> QED
      BY <2>2, <3>1
  <2> QED
    BY <2>4, <2>5 DEF Sucesivos
<1>4. z \in Nat /\ z + n <= n /\ MismosLargos(s, s, z, n)
  BY DEF MismosLargos, DeLargo
<1>5. \A i \in 1..(n + 1) : g[i] \in Nat /\ f[i] \in Nat /\ z + i = i /\ z + 1 = 1 /\ f[1] = 0
  BY <1>2, <1>3 DEF Sucesivos
<1> HIDE DEF g, z
<1>6. Distan(f, g, z, n)
  BY <1>2, <1>3, <1>4, SucesivosIguales
<1>7. \A i \in 1..(n + 1) : f[i] = (i - 1) * L
  BY <1>5, <1>6 DEF g, Distan
<1>8. Texto(V, s, n * L)
  <2>1. f[n + 1] = n * L /\ n * L \in Nat
    BY <1>7
  <2> QED
    BY <1>1, <2>1 DEF Texto, Longitud
<1>9. ASSUME NEW en, NEW p \in Nat, Contiene(en, p, s)
      PROVE  EnFila(en, p, s, n, L)
  <2> SUFFICES ASSUME NEW i \in 1..n PROVE en[p + (i - 1) * L] = s[i].valor
    BY DEF EnFila
  <2>1. en[p + f[i]] = s[i].valor
    BY <1>1, <1>9 DEF Contiene
  <2> QED
    BY <1>7, <2>1, SMTT(30)
<1> QED
  BY <1>8, <1>9

(* t_intructions and t_pcb.                                                *)
InstruccionesDe(V) == [start : V, offset : V]

PcbsDe(V) ==
  {pcb \in [quantum : V, pid : V, pc : V, cant_paginas_codigo_stack : V, estado : V,
            contexto_actual : V, stack_size_fisico : V, stack_position : V, stack_pointer : V,
            etiquetas_size : Nat, etiquetas : Seq(V), instrucciones : Seq(InstruccionesDe(V)),
            indice_stack : Seq(ContextosDe(V))] :
     Len(pcb.etiquetas) = pcb.etiquetas_size}

NombresDeEnteros ==
  {"quantum", "pid", "pc", "cant_paginas_codigo_stack", "estado", "contexto_actual",
   "stack_size_fisico", "stack_position", "stack_pointer", "etiquetas_size"}

(* There are ten ints before the labels.                                   *)
LEMMA LosNombres ==
  /\ Len(Enteros) = 10 /\ DOMAIN Enteros = 1..10
  /\ \A i \in 1..10 : Enteros[i] \in NombresDeEnteros
  /\ ToSet(Enteros) = NombresDeEnteros
<1>1. Len(Enteros) = 10 /\ DOMAIN Enteros = 1..10
  BY DEF Enteros
<1>2. \A i \in 1..10 : Enteros[i] \in NombresDeEnteros
  BY DEF Enteros, NombresDeEnteros
<1>3. NombresDeEnteros = {Enteros[i] : i \in 1..10}
  <2>1. NombresDeEnteros \subseteq {Enteros[i] : i \in 1..10}
    <3>1. /\ Enteros[1] = "quantum" /\ Enteros[2] = "pid" /\ Enteros[3] = "pc"
          /\ Enteros[4] = "cant_paginas_codigo_stack" /\ Enteros[5] = "estado"
          /\ Enteros[6] = "contexto_actual" /\ Enteros[7] = "stack_size_fisico"
          /\ Enteros[8] = "stack_position" /\ Enteros[9] = "stack_pointer"
          /\ Enteros[10] = "etiquetas_size"
      BY DEF Enteros
    <3> SUFFICES ASSUME NEW x \in NombresDeEnteros PROVE \E i \in 1..10 : x = Enteros[i]
      OBVIOUS
    <3> QED
      BY <3>1 DEF NombresDeEnteros
  <2> QED
    BY <1>2, <2>1
<1> QED
  BY <1>1, <1>2, <1>3 DEF ToSet

(* The reader finds each by its place in the order.                        *)
LEMMA LosEnteros ==
  ASSUME Tamanios, NEW V, Nat \subseteq V, NEW pcb \in PcbsDe(V)
  PROVE  /\ Texto(V, EscribirEnteros(pcb), 10 * SizeofInt)
         /\ \A en : Contiene(en, 0, EscribirEnteros(pcb)) =>
              LeerEnteros(en) = [nombre \in NombresDeEnteros |-> pcb[nombre]]
<1> DEFINE s == EscribirEnteros(pcb)
           L == SizeofInt
           n == 10
<1>1. \A nombre \in NombresDeEnteros : pcb[nombre] \in V
  BY DEF NombresDeEnteros, PcbsDe
<1>2. s = [i \in 1..n |-> [tamanio |-> L, valor |-> pcb[Enteros[i]]]]
  BY LosNombres DEF EscribirEnteros, Entero
<1>3. \A i \in 1..n : pcb[Enteros[i]] \in V
  BY <1>1, LosNombres
<1>4. L \in Nat \ {0} /\ n \in Nat
  BY DEF Tamanios
<1> HIDE DEF s, L, n
<1>5. /\ s \in Textos(V) /\ Len(s) = n
      /\ \A i \in 1..n : s[i].tamanio = L /\ s[i].valor = pcb[Enteros[i]]
  <2>1. \A i \in 1..n : [tamanio |-> L, valor |-> pcb[Enteros[i]]] \in Campos(V)
    BY <1>3, <1>4 DEF Campos
  <2>2. s \in Seq(Campos(V)) /\ Len(s) = n
    BY <1>2, <1>4, <2>1
  <2> QED
    BY <1>2, <2>2 DEF Textos
<1>b. DeLargo(s, n, L)
  BY <1>5 DEF DeLargo
<1>6. Texto(V, s, n * L)
  BY <1>4, <1>5, <1>b, Parejos
<1>7. ASSUME NEW en, Contiene(en, 0, s)
      PROVE  LeerEnteros(en) = [nombre \in NombresDeEnteros |-> pcb[nombre]]
  <2>1. PICK z \in Nat : z = 0
    OBVIOUS
  <2>2. Contiene(en, z, s)
    BY <1>7, <2>1
  <2>a. EnFila(en, z, s, n, L)
    BY <1>4, <1>5, <1>b, <2>2, Parejos
  <2>3. \A i \in 1..n : en[z + (i - 1) * L] = s[i].valor
    BY <2>a DEF EnFila
  <2>4. ASSUME NEW i \in 1..10 PROVE en[(i - 1) * SizeofInt] = pcb[Enteros[i]]
    <3>1. i - 1 \in Nat /\ (i - 1) * L \in Nat
      <4>1. i - 1 \in Nat
        OBVIOUS
      <4> QED
        BY <4>1, <1>4
    <3>2. z + (i - 1) * L = (i - 1) * L
      BY <2>1, <3>1
    <3> QED
      BY <1>5, <2>3, <3>2 DEF L, n
  <2>5. ASSUME NEW nombre \in NombresDeEnteros
        PROVE  en[((CHOOSE i \in DOMAIN Enteros : Enteros[i] = nombre) - 1) * SizeofInt] = pcb[nombre]
    <3>1. \E i \in 1..10 : Enteros[i] = nombre
      BY LosNombres DEF ToSet
    <3>2. PICK j : j = CHOOSE i \in 1..10 : Enteros[i] = nombre
      OBVIOUS
    <3>3. j \in 1..10 /\ Enteros[j] = nombre
      BY <3>1, <3>2
    <3>4. en[(j - 1) * SizeofInt] = pcb[nombre]
      BY <2>4, <3>3
    <3> QED
      BY <3>2, <3>4, LosNombres
  <2> QED
    BY <2>5, LosNombres DEF LeerEnteros
<1> QED
  BY <1>6, <1>7 DEF s, L, n

(* The labels, byte by byte.                                               *)
LEMMA LasEtiquetas ==
  ASSUME NEW V, NEW pcb \in PcbsDe(V)
  PROVE  /\ Texto(V, EscribirEtiquetas(pcb), pcb.etiquetas_size)
         /\ \A en : \A p \in Nat : Contiene(en, p, EscribirEtiquetas(pcb)) =>
              [i \in 1..pcb.etiquetas_size |-> en[p + i - 1]] = pcb.etiquetas
<1> DEFINE s == EscribirEtiquetas(pcb)
           n == pcb.etiquetas_size
           e == pcb.etiquetas
           L == 1
<1>1. n \in Nat /\ e \in Seq(V) /\ Len(e) = n /\ L \in Nat
  BY DEF PcbsDe
<1>2. s = [i \in 1..n |-> [tamanio |-> L, valor |-> e[i]]]
  BY DEF EscribirEtiquetas
<1>3. e = [i \in 1..n |-> e[i]] /\ \A i \in 1..n : e[i] \in V
  BY <1>1
<1>4. L \in Nat \ {0} /\ \A x \in Int : x * L = x
  OBVIOUS
<1> HIDE DEF s, L, n, e
<1>5. /\ s \in Textos(V) /\ Len(s) = n
      /\ \A i \in 1..n : s[i].tamanio = L /\ s[i].valor = e[i]
  <2>1. \A i \in 1..n : [tamanio |-> L, valor |-> e[i]] \in Campos(V)
    BY <1>3, <1>4 DEF Campos
  <2>2. s \in Seq(Campos(V)) /\ Len(s) = n
    BY <1>1, <1>2, <2>1
  <2> QED
    BY <1>2, <2>2 DEF Textos
<1>b. DeLargo(s, n, L)
  BY <1>5 DEF DeLargo
<1>6. Texto(V, s, n * L) /\ n * L = n
  BY <1>1, <1>4, <1>5, <1>b, Parejos
<1>7. ASSUME NEW en, NEW p \in Nat, Contiene(en, p, s)
      PROVE  [i \in 1..n |-> en[p + i - 1]] = e
  <2>a. EnFila(en, p, s, n, L)
    BY <1>1, <1>5, <1>7, <1>b, Parejos
  <2>1. \A i \in 1..n : en[p + (i - 1) * L] = s[i].valor
    BY <2>a DEF EnFila
  <2>2. \A i \in 1..n : p + (i - 1) * L = p + i - 1
    BY <1>1, <1>4
  <2>3. \A i \in 1..n : en[p + i - 1] = e[i]
    BY <1>5, <2>1, <2>2
  <2> QED
    BY <1>3, <2>3
<1> QED
  BY <1>6, <1>7 DEF s, n, e

(* An instruction is two ints.                                             *)
LEMMA LaInstruccion ==
  ASSUME Tamanios, NEW V, NEW instruccion \in InstruccionesDe(V)
  PROVE  /\ Texto(V, EscribirInstruccion(instruccion), 2 * SizeofInt)
         /\ \A en : \A p \in Nat : Contiene(en, p, EscribirInstruccion(instruccion)) =>
              [start |-> en[p], offset |-> en[p + SizeofInt]] = instruccion
<1> DEFINE a == Entero(instruccion.start)
           b == Entero(instruccion.offset)
           n == SizeofInt
<1>1. instruccion.start \in V /\ instruccion.offset \in V /\ n \in Nat
  BY DEF InstruccionesDe, Tamanios
<1>2. Texto(V, a, n) /\ Texto(V, b, n)
  BY <1>1, ElEntero
<1>3. \A en : \A p \in Nat :
        /\ Contiene(en, p, a) => en[p] = instruccion.start
        /\ Contiene(en, p, b) => en[p] = instruccion.offset
  BY <1>1, ElEntero
<1>4. EscribirInstruccion(instruccion) = a \o b
  BY DEF EscribirInstruccion
<1> HIDE DEF a, b, n
<1>5. Texto(V, a \o b, n + n) /\ n + n = 2 * n
  BY <1>1, <1>2, Sumar
<1>6. ASSUME NEW en, NEW p \in Nat, Contiene(en, p, a \o b)
      PROVE  [start |-> en[p], offset |-> en[p + n]] = instruccion
  <2>1. Contiene(en, p, a) /\ Contiene(en, p + n, b) /\ p + n \in Nat
    BY <1>1, <1>2, <1>6, Mitades
  <2>2. en[p] = instruccion.start /\ en[p + n] = instruccion.offset
    BY <1>3, <2>1
  <2>3. instruccion = [start |-> instruccion.start, offset |-> instruccion.offset]
    BY DEF InstruccionesDe
  <2> QED
    BY <2>2, <2>3
<1> QED
  BY <1>4, <1>5, <1>6 DEF n

(* The instructions, one every two ints.                                   *)
LEMMA LasInstrucciones ==
  ASSUME Tamanios, NEW V, NEW instrucciones \in Seq(InstruccionesDe(V))
  PROVE  /\ Texto(V, EscribirInstrucciones(instrucciones), Len(instrucciones) * (2 * SizeofInt))
         /\ \A en : \A p \in Nat : Contiene(en, p, EscribirInstrucciones(instrucciones)) =>
              LeerInstrucciones(en, p, Len(instrucciones)) = instrucciones
<1> DEFINE n == Len(instrucciones)
           ss == [i \in 1..n |-> EscribirInstruccion(instrucciones[i])]
           L == 2 * SizeofInt
<1>1. n \in Nat /\ DOMAIN instrucciones = 1..n /\ \A i \in 1..n : instrucciones[i] \in InstruccionesDe(V)
  OBVIOUS
<1>2. EscribirInstrucciones(instrucciones) = FlattenSeq(ss)
  BY <1>1 DEF EscribirInstrucciones
<1>3. \A i \in 1..n : Texto(V, EscribirInstruccion(instrucciones[i]), L)
  BY <1>1, LaInstruccion
<1>4. ss \in Trozos(V) /\ Len(ss) = n /\ \A i \in 1..n : ss[i] = EscribirInstruccion(instrucciones[i])
  <2>1. \A i \in 1..n : EscribirInstruccion(instrucciones[i]) \in Textos(V)
    BY <1>3 DEF Texto
  <2> QED
    BY <1>1, <2>1 DEF Trozos
<1>5. L \in Nat /\ SizeofInt \in Nat
  BY DEF Tamanios
<1> HIDE DEF ss, L, n
<1>6. \A k \in 1..Len(ss) : Texto(V, ss[k], L)
  BY <1>3, <1>4
<1>7. Texto(V, FlattenSeq(ss), Len(ss) * L)
  BY <1>4, <1>5, <1>6, TrozosIguales
<1>8. ASSUME NEW en, NEW p \in Nat, Contiene(en, p, FlattenSeq(ss))
      PROVE  LeerInstrucciones(en, p, n) = instrucciones
  <2>1. \A k \in 1..Len(ss) : Contiene(en, p + (k - 1) * L, ss[k])
    BY <1>4, <1>5, <1>6, <1>8, TrozosIguales
  <2>2. ASSUME NEW k \in 1..n
        PROVE  [start |-> en[p + (k - 1) * 2 * SizeofInt],
                offset |-> en[p + (k - 1) * 2 * SizeofInt + SizeofInt]] = instrucciones[k]
    <3>1. (k - 1) * L \in Nat /\ (k - 1) * L = (k - 1) * 2 * SizeofInt
      <4>1. k - 1 \in Nat
        BY <1>1
      <4> QED
        BY <4>1, <1>5 DEF L
    <3>2. PICK q \in Nat : q = p + (k - 1) * L
      BY <3>1
    <3>3. Contiene(en, q, EscribirInstruccion(instrucciones[k]))
      BY <1>4, <2>1, <3>2
    <3>4. [start |-> en[q], offset |-> en[q + SizeofInt]] = instrucciones[k]
      BY <1>1, <3>3, LaInstruccion
    <3>5. q = p + (k - 1) * 2 * SizeofInt /\ q + SizeofInt = p + (k - 1) * 2 * SizeofInt + SizeofInt
      BY <3>1, <3>2
    <3> QED
      BY <3>4, <3>5
  <2>3. instrucciones = [k \in 1..n |-> instrucciones[k]]
    BY <1>1
  <2> QED
    BY <2>2, <2>3 DEF LeerInstrucciones
<1> QED
  BY <1>2, <1>4, <1>7, <1>8 DEF n, L

(* What the reader of the contexts follows.                                *)
LEMMA LosContextos ==
  ASSUME Tamanios, NEW V, Nat \subseteq V, NEW pila \in Seq(ContextosDe(V)),
         NEW en, NEW p \in Nat, Contiene(en, p, EscribirContextos(pila))
  PROVE  LeerContextos(en, p, Len(pila)) = pila
<1> DEFINE n == Len(pila)
           ss == [k \in 1..n |-> EscribirContexto(pila[k])]
           f == [k \in 1..n |-> p + Longitud(Hasta(ss, k - 1))]
           Cuenta(g) == g = [k \in 1..n |->
             IF k = 1 THEN p
                      ELSE g[k - 1] + 5 * SizeofInt + en[g[k - 1] + 4 * SizeofInt] * LargoVariable]
<1>1. n \in Nat /\ DOMAIN pila = 1..n /\ \A k \in 1..n : pila[k] \in ContextosDe(V)
  OBVIOUS
<1>2. EscribirContextos(pila) = FlattenSeq(ss)
  BY <1>1 DEF EscribirContextos
<1>3. \A k \in 1..n : Texto(V, EscribirContexto(pila[k]), LargoDelContexto(pila[k]))
  BY <1>1, ElContexto
<1>4. ss \in Trozos(V) /\ Len(ss) = n /\ \A k \in 1..n : ss[k] = EscribirContexto(pila[k])
  <2>1. \A k \in 1..n : EscribirContexto(pila[k]) \in Textos(V)
    BY <1>3 DEF Texto
  <2> QED
    BY <1>1, <2>1 DEF Trozos
<1>5. f = [k \in 1..n |-> f[k]] /\ \A k \in 1..n : f[k] = p + Longitud(Hasta(ss, k - 1))
  OBVIOUS
<1> HIDE DEF ss, f, n
<1>6. HastaBien(V, ss)
  BY <1>4, HastaJunta
<1>7. \A k \in 0..n : Longitud(Hasta(ss, k)) \in Nat
  BY <1>4, <1>6, LongitudNatural DEF HastaBien, Texto
<1>8. \A k \in 1..n : k - 1 \in 0..n
  BY <1>1
<1>9. \A k \in 1..n : f[k] \in Nat
  BY <1>5, <1>7, <1>8
<1>10. \A k \in 1..n : /\ LeerContexto(en, f[k]) = pila[k]
                       /\ en[f[k] + 4 * SizeofInt] = Len(pila[k].variables)
  <2> SUFFICES ASSUME NEW k \in 1..n
               PROVE  /\ LeerContexto(en, f[k]) = pila[k]
                      /\ en[f[k] + 4 * SizeofInt] = Len(pila[k].variables)
    OBVIOUS
  <2>1. Contiene(en, p, FlattenSeq(ss))
    BY <1>2
  <2>2. Contiene(en, p + Longitud(Hasta(ss, k - 1)), ss[k])
    BY <1>4, <2>1, CadaTrozo
  <2>3. Contiene(en, f[k], EscribirContexto(pila[k]))
    BY <1>4, <1>5, <2>2
  <2>4. PICK q \in Nat : q = f[k]
    BY <1>9
  <2>5. PICK c \in ContextosDe(V) : c = pila[k]
    BY <1>1
  <2>6. Contiene(en, q, EscribirContexto(c))
    BY <2>3, <2>4, <2>5
  <2>7. LeerContexto(en, q) = c /\ en[q + 4 * SizeofInt] = Len(c.variables)
    BY <2>6, ElContexto
  <2> QED
    BY <2>4, <2>5, <2>7
<1>11. \A k \in 1..n : k # 1 =>
         f[k] = f[k - 1] + 5 * SizeofInt + Len(pila[k - 1].variables) * LargoVariable
  <2> SUFFICES ASSUME NEW k \in 1..n, k # 1
               PROVE  f[k] = f[k - 1] + 5 * SizeofInt + Len(pila[k - 1].variables) * LargoVariable
    OBVIOUS
  <2>1. PICK j \in 1..n : j = k - 1
    BY <1>1
  <2>2. PICK s : s = Hasta(ss, j - 1)
    OBVIOUS
  <2>3. PICK t : t = EscribirContexto(pila[j])
    OBVIOUS
  <2>4. Hasta(ss, j) = s \o t /\ s \in Textos(V)
    BY <1>4, <1>6, <1>8, <2>1, <2>2, <2>3 DEF HastaBien
  <2>5. t \in Textos(V) /\ Longitud(t) = LargoDelContexto(pila[j])
    BY <1>3, <2>3 DEF Texto
  <2>6. Longitud(s \o t) = Longitud(s) + Longitud(t)
    BY <2>4, <2>5, InicioDeLaSuma
  <2>7. f[k] = p + Longitud(s \o t) /\ f[j] = p + Longitud(s)
    BY <1>5, <2>1, <2>2, <2>4
  <2>8. Longitud(s) \in Nat /\ Longitud(t) \in Nat
    BY <2>4, <2>5, LongitudNatural DEF Texto
  <2>9. f[k] = f[j] + LargoDelContexto(pila[j])
    BY <2>5, <2>6, <2>7, <2>8
  <2>10. Len(pila[j].variables) * LargoVariable \in Nat /\ SizeofInt \in Nat
    <3>1. pila[j].variables \in Seq(VariablesDe(V))
      BY <1>1 DEF ContextosDe
    <3>2. Len(pila[j].variables) \in Nat
      BY <3>1
    <3>3. LargoVariable \in Nat
      BY DEF LargoVariable, Tamanios
    <3> QED
      BY <3>2, <3>3 DEF Tamanios
  <2> QED
    BY <1>9, <2>1, <2>9, <2>10 DEF LargoDelContexto
<1>12. \A k \in 1..n : k = 1 => f[k] = p
  <2> SUFFICES ASSUME 1 \in 1..n PROVE f[1] = p
    OBVIOUS
  <2>1. f[1] = p + Longitud(<<>>)
    BY <1>5, <1>6 DEF HastaBien
  <2>2. Longitud(<<>>) = 0
    <3>1. <<>> \in Textos(V) /\ Len(<<>>) = 0
      BY DEF Textos
    <3>2. Sucesivos(Inicios(<<>>), <<>>, Len(<<>>))
      BY <3>1, Inicio
    <3> QED
      BY <3>1, <3>2 DEF Longitud, Sucesivos
  <2> QED
    BY <2>1, <2>2
<1>13. \A k \in 1..n : k # 1 =>
         k - 1 \in 1..n /\ f[k] = f[k - 1] + 5 * SizeofInt + en[f[k - 1] + 4 * SizeofInt] * LargoVariable
  <2> SUFFICES ASSUME NEW k \in 1..n, k # 1
               PROVE  /\ k - 1 \in 1..n
                      /\ f[k] = f[k - 1] + 5 * SizeofInt + en[f[k - 1] + 4 * SizeofInt] * LargoVariable
    OBVIOUS
  <2>1. k - 1 \in 1..n
    BY <1>1
  <2>2. en[f[k - 1] + 4 * SizeofInt] = Len(pila[k - 1].variables)
    BY <1>10, <2>1
  <2> QED
    BY <1>11, <2>1, <2>2
<1>14. Cuenta(f)
  BY <1>5, <1>12, <1>13
<1>15. \A g : Cuenta(g) => g = f
  <2> SUFFICES ASSUME NEW g, Cuenta(g) PROVE g = f
    OBVIOUS
  <2> DEFINE R == {m \in Nat : m + 1 \in 1..n => g[m + 1] = f[m + 1]}
  <2>1. 0 \in R
    BY <1>12
  <2>2. ASSUME NEW m \in Nat, m \in R PROVE m + 1 \in R
    <3> SUFFICES ASSUME m + 2 \in 1..n PROVE g[m + 2] = f[m + 2]
      OBVIOUS
    <3>1. m + 2 # 1 /\ (m + 2) - 1 = m + 1 /\ m + 1 \in 1..n
      BY <1>1
    <3>2. g[m + 2] = g[m + 1] + 5 * SizeofInt + en[g[m + 1] + 4 * SizeofInt] * LargoVariable
      BY <3>1
    <3>3. f[m + 2] = f[m + 1] + 5 * SizeofInt + en[f[m + 1] + 4 * SizeofInt] * LargoVariable
      BY <1>13, <3>1
    <3>4. g[m + 1] = f[m + 1]
      BY <2>2, <3>1
    <3> QED
      BY <3>2, <3>3, <3>4
  <2> HIDE DEF R
  <2>3. Nat \subseteq R
    BY <2>1, <2>2, Induccion
  <2>4. \A k \in 1..n : g[k] = f[k]
    <3> SUFFICES ASSUME NEW k \in 1..n PROVE g[k] = f[k]
      OBVIOUS
    <3>1. k - 1 \in R /\ (k - 1) + 1 = k
      BY <1>1, <2>3
    <3> QED
      BY <3>1 DEF R
  <2>5. g = [k \in 1..n |-> g[k]]
    OBVIOUS
  <2> HIDE DEF Cuenta
  <2> QED
    BY <1>5, <2>4, <2>5
<1>16. LeerContextos(en, p, n) = LET inicio == CHOOSE g : Cuenta(g)
                                 IN [k \in 1..n |-> LeerContexto(en, inicio[k])]
  BY DEF LeerContextos
<1> HIDE DEF Cuenta
<1>17. (CHOOSE g : Cuenta(g)) = f
  BY <1>14, <1>15
<1>18. LeerContextos(en, p, n) = [k \in 1..n |-> pila[k]]
  BY <1>10, <1>16, <1>17
<1> QED
  BY <1>1, <1>18 DEF n

(* What the reader finds in the header.                                    *)
EncabezadoLeido(en, pcb) ==
  LET etiquetas == 10 * SizeofInt
      cantidad == etiquetas + pcb.etiquetas_size
      instrucciones == cantidad + SizeofInt
      stack_size == instrucciones + Len(pcb.instrucciones) * 2 * SizeofInt
  IN /\ LeerEnteros(en) = [nombre \in NombresDeEnteros |-> pcb[nombre]]
     /\ [i \in 1..pcb.etiquetas_size |-> en[etiquetas + i - 1]] = pcb.etiquetas
     /\ en[cantidad] = Len(pcb.instrucciones)
     /\ LeerInstrucciones(en, instrucciones, Len(pcb.instrucciones)) = pcb.instrucciones
     /\ en[stack_size] = Len(pcb.indice_stack)

(* The bytes of what comes before the contexts.                            *)
LargoDelEncabezado(pcb) ==
  10 * SizeofInt + pcb.etiquetas_size + SizeofInt + Len(pcb.instrucciones) * 2 * SizeofInt + SizeofInt

(* What comes before the contexts is read as it was written.               *)
LEMMA ElEncabezado ==
  ASSUME Tamanios, NEW V, Nat \subseteq V, NEW pcb \in PcbsDe(V)
  PROVE  /\ Texto(V, EscribirEncabezado(pcb), LargoDelEncabezado(pcb))
         /\ \A en : Contiene(en, 0, EscribirEncabezado(pcb)) => EncabezadoLeido(en, pcb)
<1> DEFINE a == EscribirEnteros(pcb)
           b == EscribirEtiquetas(pcb)
           c == Entero(Len(pcb.instrucciones))
           d == EscribirInstrucciones(pcb.instrucciones)
           e == Entero(Len(pcb.indice_stack))
           n == SizeofInt
           t == pcb.etiquetas_size
           i == Len(pcb.instrucciones)
           m == 10 * SizeofInt
           l == Len(pcb.instrucciones) * (2 * SizeofInt)
<1>1. /\ pcb.instrucciones \in Seq(InstruccionesDe(V)) /\ pcb.indice_stack \in Seq(ContextosDe(V))
      /\ t \in Nat /\ n \in Nat /\ m = 10 * n /\ m \in Nat
  BY DEF PcbsDe, Tamanios
<1>2. i \in Nat /\ i \in V /\ Len(pcb.indice_stack) \in V
  <2>1. i \in Nat /\ Len(pcb.indice_stack) \in Nat
    BY <1>1
  <2> QED
    BY <2>1
<1>3. l \in Nat /\ l = i * 2 * n
  <2>1. \A x \in Nat, y \in Nat : x * (2 * y) \in Nat /\ x * (2 * y) = x * 2 * y
    OBVIOUS
  <2>2. l = i * (2 * n)
    OBVIOUS
  <2> HIDE DEF i, n, l
  <2> QED
    BY <1>1, <1>2, <2>1, <2>2
<1>4. Texto(V, a, m) /\ Texto(V, b, t) /\ Texto(V, c, n) /\ Texto(V, d, l) /\ Texto(V, e, n)
  BY <1>1, <1>2, LosEnteros, LasEtiquetas, ElEntero, LasInstrucciones
<1>5. EscribirEncabezado(pcb) = (((a \o b) \o c) \o d) \o e
  BY DEF EscribirEncabezado
<1>6. /\ \A en : Contiene(en, 0, a) => LeerEnteros(en) = [nombre \in NombresDeEnteros |-> pcb[nombre]]
      /\ \A en : \A p \in Nat : Contiene(en, p, b) => [j \in 1..t |-> en[p + j - 1]] = pcb.etiquetas
      /\ \A en : \A p \in Nat : Contiene(en, p, c) => en[p] = i
      /\ \A en : \A p \in Nat : Contiene(en, p, d) => LeerInstrucciones(en, p, i) = pcb.instrucciones
      /\ \A en : \A p \in Nat : Contiene(en, p, e) => en[p] = Len(pcb.indice_stack)
  <2>1. \A en : Contiene(en, 0, a) => LeerEnteros(en) = [nombre \in NombresDeEnteros |-> pcb[nombre]]
    BY LosEnteros
  <2>2. \A en : \A p \in Nat : Contiene(en, p, b) => [j \in 1..t |-> en[p + j - 1]] = pcb.etiquetas
    BY LasEtiquetas
  <2>3. \A en : \A p \in Nat : Contiene(en, p, c) => en[p] = i
    BY <1>2, ElEntero
  <2>4. \A en : \A p \in Nat : Contiene(en, p, d) => LeerInstrucciones(en, p, i) = pcb.instrucciones
    BY <1>1, LasInstrucciones
  <2>5. \A en : \A p \in Nat : Contiene(en, p, e) => en[p] = Len(pcb.indice_stack)
    BY <1>2, ElEntero
  <2> QED
    BY <2>1, <2>2, <2>3, <2>4, <2>5
<1>7. LargoDelEncabezado(pcb) = m + t + n + i * 2 * n + n
  BY DEF LargoDelEncabezado
<1> HIDE DEF a, b, c, d, e, m, l, t, i
<1>8. Texto(V, a \o b, m + t)
  BY <1>4, Sumar
<1>9. Texto(V, (a \o b) \o c, (m + t) + n)
  BY <1>4, <1>8, Sumar
<1>10. Texto(V, ((a \o b) \o c) \o d, ((m + t) + n) + l)
  BY <1>4, <1>9, Sumar
<1>11. Texto(V, (((a \o b) \o c) \o d) \o e, (((m + t) + n) + l) + n)
  BY <1>4, <1>10, Sumar
<1>12. LargoDelEncabezado(pcb) = (((m + t) + n) + l) + n
  BY <1>1, <1>2, <1>3, <1>7
<1>13. ASSUME NEW en, Contiene(en, 0, EscribirEncabezado(pcb))
       PROVE  EncabezadoLeido(en, pcb)
  <2>0. PICK z \in Nat : z = 0
    OBVIOUS
  <2>1. Contiene(en, z, ((a \o b) \o c) \o d) /\ Contiene(en, z + (((m + t) + n) + l), e)
    BY <1>4, <1>5, <1>10, <1>13, <2>0, Mitades
  <2>2. Contiene(en, z, (a \o b) \o c) /\ Contiene(en, z + ((m + t) + n), d)
    BY <1>4, <1>9, <2>1, Mitades
  <2>3. Contiene(en, z, a \o b) /\ Contiene(en, z + (m + t), c)
    BY <1>4, <1>8, <2>2, Mitades
  <2>4. Contiene(en, z, a) /\ Contiene(en, z + m, b)
    BY <1>4, <2>3, Mitades
  <2>5. /\ z + m = m /\ z + (m + t) = m + t /\ z + ((m + t) + n) = (m + t) + n
        /\ z + (((m + t) + n) + l) = ((m + t) + n) + l
        /\ m + t \in Nat /\ (m + t) + n \in Nat /\ ((m + t) + n) + l \in Nat
    BY <1>1, <1>3, <2>0
  <2>6. LeerEnteros(en) = [nombre \in NombresDeEnteros |-> pcb[nombre]]
    BY <1>6, <2>0, <2>4
  <2>7. [j \in 1..t |-> en[m + j - 1]] = pcb.etiquetas
    BY <1>1, <1>6, <2>4, <2>5, ZenonT(30)
  <2>8. en[m + t] = i
    BY <1>6, <2>3, <2>5
  <2>9. LeerInstrucciones(en, (m + t) + n, i) = pcb.instrucciones
    BY <1>6, <2>2, <2>5
  <2>10. en[((m + t) + n) + l] = Len(pcb.indice_stack)
    BY <1>6, <2>1, <2>5
  <2> QED
    BY <1>3, <2>6, <2>7, <2>8, <2>9, <2>10 DEF EncabezadoLeido, m, t, i
<1> QED
  BY <1>5, <1>11, <1>12, <1>13

(* A PCB reaches the other end as it was.                                  *)
THEOREM IdaYVuelta ==
  ASSUME Tamanios, NEW V, Nat \subseteq V, NEW pcb \in PcbsDe(V)
  PROVE  Deserializar(Serializar(pcb)) = pcb
<1> DEFINE a == EscribirEncabezado(pcb)
           b == EscribirContextos(pcb.indice_stack)
           n == LargoDelEncabezado(pcb)
           i == Len(pcb.instrucciones)
           q == 10 * SizeofInt + pcb.etiquetas_size + SizeofInt + i * 2 * SizeofInt
<1>1. /\ pcb.instrucciones \in Seq(InstruccionesDe(V)) /\ pcb.indice_stack \in Seq(ContextosDe(V))
      /\ pcb.etiquetas_size \in Nat /\ SizeofInt \in Nat
  BY DEF PcbsDe, Tamanios
<1>2. i \in Nat /\ Len(pcb.indice_stack) \in Nat
  BY <1>1
<1>3. Texto(V, a, n)
  BY ElEncabezado
<1>4. b \in Textos(V)
  <2> DEFINE ss == [k \in DOMAIN pcb.indice_stack |-> EscribirContexto(pcb.indice_stack[k])]
  <2>1. \A k \in DOMAIN pcb.indice_stack : EscribirContexto(pcb.indice_stack[k]) \in Textos(V)
    <3>1. \A k \in DOMAIN pcb.indice_stack : pcb.indice_stack[k] \in ContextosDe(V)
      BY <1>1
    <3> QED
      BY <3>1, ElContexto DEF Texto
  <2>2. DOMAIN pcb.indice_stack = 1..Len(pcb.indice_stack)
    BY <1>1
  <2>3. ss \in Trozos(V)
    BY <1>2, <2>1, <2>2 DEF Trozos
  <2>4. Len(ss) \in Nat
    BY <2>3 DEF Trozos
  <2> HIDE DEF ss
  <2>5. HastaBien(V, ss) /\ Len(ss) \in 0..Len(ss)
    BY <2>3, <2>4, HastaJunta
  <2>6. FlattenSeq(ss) \in Textos(V)
    BY <2>5 DEF HastaBien
  <2> QED
    BY <2>6 DEF EscribirContextos, ss
<1>5. PICK en : en = Contenido(a \o b)
  OBVIOUS
<1>6. Serializar(pcb).en = en
  BY <1>5 DEF Serializar
<1>7. a \in Textos(V) /\ n \in Nat
  BY <1>3 DEF Texto
<1> HIDE DEF a, b
<1>8. Contiene(en, 0, a) /\ Contiene(en, n, b)
  <2>1. PICK z \in Nat : z = 0
    OBVIOUS
  <2>2. a \o b \in Textos(V)
    BY <1>4, <1>7, TextosJuntos
  <2>3. Contiene(en, z, a \o b)
    BY <1>5, <2>1, <2>2, ContenidoDeLosCampos
  <2>4. Contiene(en, z, a) /\ Contiene(en, z + Longitud(a), b)
    BY <1>4, <1>7, <2>3, Partir
  <2>5. Longitud(a) = n /\ z + n = n
    BY <1>3, <1>7, <2>1 DEF Texto
  <2> QED
    BY <2>1, <2>4, <2>5
<1>9. EncabezadoLeido(en, pcb)
  BY <1>8, ElEncabezado DEF a
<1>10. n = q + SizeofInt
  BY DEF LargoDelEncabezado
<1>11. LeerContextos(en, q + SizeofInt, Len(pcb.indice_stack)) = pcb.indice_stack
  BY <1>1, <1>7, <1>8, <1>10, LosContextos DEF b
<1> DEFINE enteros == [nombre \in NombresDeEnteros |-> pcb[nombre]]
<1>12. enteros.etiquetas_size = pcb.etiquetas_size
  BY DEF NombresDeEnteros
<1>13. \A nombre \in NombresDeEnteros : enteros[nombre] = pcb[nombre]
  OBVIOUS
<1>14. LeerEnteros(en) = enteros
  BY <1>9 DEF EncabezadoLeido
<1> HIDE DEF enteros
<1>15. Deserializar(Serializar(pcb)) =
         [quantum |-> enteros.quantum, pid |-> enteros.pid, pc |-> enteros.pc,
          cant_paginas_codigo_stack |-> enteros.cant_paginas_codigo_stack,
          estado |-> enteros.estado, contexto_actual |-> enteros.contexto_actual,
          stack_size_fisico |-> enteros.stack_size_fisico, stack_position |-> enteros.stack_position,
          stack_pointer |-> enteros.stack_pointer, etiquetas_size |-> enteros.etiquetas_size,
          etiquetas |-> pcb.etiquetas,
          instrucciones |-> pcb.instrucciones,
          indice_stack |-> pcb.indice_stack]
  BY <1>6, <1>9, <1>11, <1>12, <1>14, LosNombres DEF Deserializar, EncabezadoLeido
<1> QED
  BY <1>13, <1>15 DEF PcbsDe, NombresDeEnteros

(***************************************************************************)
(* What is allocated when the writer has written k contexts.               *)
(***************************************************************************)
LEMMA LoReservado ==
  ASSUME Tamanios, NEW V, NEW pila \in Seq(ContextosDe(V)), NEW f,
         f \in [0..Len(pila) -> Nat],
         \A k \in 1..Len(pila) : f[k] = f[k - 1] + LargoDelContexto(pila[k]),
         NEW h, h = [k \in 0..Len(pila) |-> (Len(pila) - k) * (5 * SizeofInt) + f[k]],
         NEW k \in 1..Len(pila)
  PROVE  k - 1 \in 0..Len(pila) /\ h[k] = h[k - 1] + ReservaDelContexto(pila[k])
<1> DEFINE n == Len(pila)
<1>1. PICK j \in Nat : j = 5 * SizeofInt
  BY DEF Tamanios
<1>2. n \in Nat /\ k - 1 \in 0..n /\ k \in 0..n
  OBVIOUS
<1>3. PICK r : r = ReservaDelContexto(pila[k])
  OBVIOUS
<1>4. r \in Nat /\ LargoDelContexto(pila[k]) = j + r
  <2>1. pila[k].variables \in Seq(VariablesDe(V))
    <3>1. pila[k] \in ContextosDe(V)
      OBVIOUS
    <3> QED
      BY <3>1 DEF ContextosDe
  <2>2. PICK l \in Nat : l = Len(pila[k].variables)
    BY <2>1
  <2>3. PICK m \in Nat : m = LargoVariable
    BY DEF LargoVariable, Tamanios
  <2>4. l * m \in Nat
    BY <2>2, <2>3
  <2>5. r = l * m
    BY <1>3, <2>2, <2>3 DEF ReservaDelContexto, LargoVariable
  <2> QED
    BY <1>1, <2>2, <2>3, <2>4, <2>5 DEF LargoDelContexto
<1>5. h[k] = (n - k) * j + f[k] /\ h[k - 1] = (n - (k - 1)) * j + f[k - 1]
  BY <1>1, <1>2
<1>6. f[k] = f[k - 1] + (j + r) /\ f[k] \in Nat /\ f[k - 1] \in Nat
  BY <1>2, <1>4
<1>7. (n - (k - 1)) * j = (n - k) * j + j
  <2>1. \A x \in Nat : (x + 1) * j = x * j + j
    BY <1>1
  <2>2. n - k \in Nat /\ n - (k - 1) = (n - k) + 1
    BY <1>2
  <2> QED
    BY <2>1, <2>2
<1>8. (n - k) * j \in Nat
  BY <1>1, <1>2
<1> QED
  BY <1>1, <1>2, <1>3, <1>4, <1>5, <1>6, <1>7, <1>8, SMTT(30)

(***************************************************************************)
(* The buffer is never too short for what the writer has put in it: the    *)
(* first allocation leaves the place of every context, and each context    *)
(* allocates its own variables before it writes them (the realloc in the   *)
(* loop of serializar_pcb_quantum).                                        *)
(***************************************************************************)
THEOREM EntraSiempre ==
  ASSUME Tamanios, NEW V, Nat \subseteq V, NEW pcb \in PcbsDe(V)
  PROVE  EntraEnElBuffer(pcb)
<1> DEFINE n == Len(pcb.indice_stack)
           pila == pcb.indice_stack
           ss == [k \in 1..n |-> EscribirContexto(pila[k])]
           f == [k \in 0..n |-> Longitud(Hasta(ss, k))]
           h == [k \in 0..n |-> (n - k) * (5 * SizeofInt) + f[k]]
           e == LargoDelEncabezado(pcb)
           r == [k \in 0..n |-> e + h[k]]
           Cuenta(g) == g = [k \in 0..n |->
             IF k = 0 THEN ReservaInicial(pcb) ELSE g[k - 1] + ReservaDelContexto(pila[k])]
<1>1. /\ pila \in Seq(ContextosDe(V)) /\ n \in Nat /\ DOMAIN pila = 1..n
      /\ \A k \in 1..n : pila[k] \in ContextosDe(V)
  BY DEF PcbsDe
<1>2. Texto(V, EscribirEncabezado(pcb), e)
  BY ElEncabezado
<1>3. \A k \in 1..n : Texto(V, EscribirContexto(pila[k]), LargoDelContexto(pila[k]))
  BY <1>1, ElContexto
<1>4. ss \in Trozos(V) /\ Len(ss) = n /\ \A k \in 1..n : ss[k] = EscribirContexto(pila[k])
  <2>1. \A k \in 1..n : EscribirContexto(pila[k]) \in Textos(V)
    BY <1>3 DEF Texto
  <2> QED
    BY <1>1, <2>1 DEF Trozos
<1>5. HastaBien(V, ss)
  BY <1>4, HastaJunta
<1>6. f \in [0..n -> Nat]
  <2>1. \A k \in 0..n : Longitud(Hasta(ss, k)) \in Nat
    BY <1>4, <1>5, LongitudNatural DEF HastaBien, Texto
  <2> QED
    BY <2>1
<1>7. f[0] = 0
  <2>1. <<>> \in Textos(V) /\ Len(<<>>) = 0
    BY DEF Textos
  <2>2. Sucesivos(Inicios(<<>>), <<>>, Len(<<>>))
    BY <2>1, Inicio
  <2> QED
    BY <1>1, <1>5, <2>1, <2>2 DEF HastaBien, Longitud, Sucesivos
<1>8. ASSUME NEW k \in 1..n
      PROVE  f[k] = f[k - 1] + LargoDelContexto(pila[k])
  <2>1. PICK t : t = EscribirContexto(pila[k])
    OBVIOUS
  <2>2. k - 1 \in 0..n
    BY <1>1
  <2>3. PICK s : s = Hasta(ss, k - 1)
    OBVIOUS
  <2>4. Hasta(ss, k) = s \o t /\ s \in Textos(V)
    BY <1>4, <1>5, <2>1, <2>2, <2>3 DEF HastaBien
  <2>5. t \in Textos(V) /\ Longitud(t) = LargoDelContexto(pila[k])
    BY <1>3, <2>1 DEF Texto
  <2>6. Longitud(s \o t) = Longitud(s) + Longitud(t)
    BY <2>4, <2>5, InicioDeLaSuma
  <2>7. k \in 0..n
    BY <1>1
  <2>8. f[k] = Longitud(s \o t) /\ f[k - 1] = Longitud(s)
    BY <2>2, <2>3, <2>4, <2>7
  <2> QED
    BY <2>5, <2>6, <2>8
<1>9. ASSUME NEW k \in 0..n
      PROVE  EscribirContextos(SubSeq(pila, 1, k)) = Hasta(ss, k)
  <2> DEFINE c == SubSeq(pila, 1, k)
             x == SubSeq(ss, 1, k)
  <2>1. DOMAIN c = 1..k /\ \A i \in 1..k : c[i] = pila[i]
    BY <1>1
  <2>2. x = [i \in 1..k |-> EscribirContexto(pila[i])]
    <3>1. x = [i \in 1..k |-> ss[i]]
      BY <1>1, <1>4 DEF Trozos
    <3>2. \A i \in 1..k : i \in 1..n
      BY <1>1
    <3> QED
      BY <1>4, <3>1, <3>2
  <2>3. [i \in DOMAIN c |-> EscribirContexto(c[i])] = x
    BY <2>1, <2>2
  <2> QED
    BY <2>3 DEF EscribirContextos, Hasta
<1>10. e \in Nat /\ \A k \in 0..n : (n - k) * (5 * SizeofInt) \in Nat
  <2>1. e \in Nat
    BY <1>2 DEF Texto
  <2>2. PICK j \in Nat : j = 5 * SizeofInt
    BY DEF Tamanios
  <2> QED
    BY <1>1, <2>1, <2>2
<1>11. h = [k \in 0..n |-> (n - k) * (5 * SizeofInt) + f[k]] /\ h \in [0..n -> Nat]
  <2>1. \A k \in 0..n : (n - k) * (5 * SizeofInt) + f[k] \in Nat
    BY <1>6, <1>10
  <2> QED
    BY <2>1
<1>12. f = [k \in 0..n |-> Longitud(Hasta(ss, k))] /\ r = [k \in 0..n |-> e + h[k]]
  OBVIOUS
<1> HIDE DEF ss, f
<1>13. \A k \in 1..n : k - 1 \in 0..n /\ h[k] = h[k - 1] + ReservaDelContexto(pila[k])
  <2> SUFFICES ASSUME NEW k \in 1..n
               PROVE  k - 1 \in 0..n /\ h[k] = h[k - 1] + ReservaDelContexto(pila[k])
    OBVIOUS
  <2>1. \A i \in 1..n : f[i] = f[i - 1] + LargoDelContexto(pila[i])
    BY <1>8
  <2>2. PICK hh : hh = h
    OBVIOUS
  <2>3. hh = [i \in 0..n |-> (n - i) * (5 * SizeofInt) + f[i]]
    BY <1>11, <2>2
  <2> HIDE DEF h
  <2>4. k - 1 \in 0..n /\ hh[k] = hh[k - 1] + ReservaDelContexto(pila[k])
    BY <1>1, <1>6, <2>1, <2>3, LoReservado, ZenonT(30)
  <2> QED
    BY <2>2, <2>4
<1>14. r[0] = ReservaInicial(pcb)
  <2>1. PICK m \in Nat : m = SizeofInt
    BY DEF Tamanios
  <2>2. PICK i \in Nat : i = Len(pcb.instrucciones)
    BY DEF PcbsDe
  <2>3. PICK t \in Nat : t = pcb.etiquetas_size
    BY DEF PcbsDe
  <2>4. PICK y \in Nat : y = i * 2 * m
    BY <2>1, <2>2
  <2>5. e = 10 * m + t + m + y + m
    BY <2>1, <2>2, <2>3, <2>4 DEF LargoDelEncabezado
  <2>6. h[0] = (n - 0) * (5 * m)
    BY <1>1, <1>7, <1>10, <2>1
  <2>7. PICK w \in Nat : w = n * 5 * m
    BY <1>1, <2>1
  <2>8. (n - 0) * (5 * m) = w
    <3>1. \A x \in Nat, z \in Nat : (x - 0) * (5 * z) = x * 5 * z
      OBVIOUS
    <3> QED
      BY <1>1, <2>1, <2>7, <3>1
  <2>9. ReservaInicial(pcb) = 12 * m + t + y + w
    BY <2>1, <2>2, <2>3, <2>4, <2>7, LosNombres DEF ReservaInicial
  <2>10. r[0] = e + h[0]
    BY <1>1, <1>12
  <2>11. r[0] = (10 * m + t + m + y + m) + w
    BY <2>5, <2>6, <2>8, <2>10
  <2>12. (10 * m + t + m + y + m) + w = 12 * m + t + y + w
    BY <2>1, <2>3, <2>4, <2>7
  <2> QED
    BY <2>9, <2>11, <2>12
<1> HIDE DEF h
<1>15. \A k \in 1..n : k # 0 /\ k - 1 \in 0..n /\ r[k] = r[k - 1] + ReservaDelContexto(pila[k])
  <2> SUFFICES ASSUME NEW k \in 1..n
               PROVE  k # 0 /\ k - 1 \in 0..n /\ r[k] = r[k - 1] + ReservaDelContexto(pila[k])
    OBVIOUS
  <2>1. k \in 0..n /\ k - 1 \in 0..n /\ h[k] \in Nat /\ h[k - 1] \in Nat
    BY <1>1, <1>11, <1>13
  <2>2. r[k] = e + h[k] /\ r[k - 1] = e + h[k - 1]
    BY <1>12, <2>1
  <2>3. ReservaDelContexto(pila[k]) \in Nat
    <3>1. pila[k].variables \in Seq(VariablesDe(V))
      BY <1>1 DEF ContextosDe
    <3>2. PICK l \in Nat : l = Len(pila[k].variables)
      BY <3>1
    <3>3. PICK m \in Nat : m = SizeofChar + 3 * SizeofInt
      BY DEF Tamanios
    <3> QED
      BY <3>2, <3>3 DEF ReservaDelContexto
  <2> QED
    BY <1>10, <1>13, <2>1, <2>2, <2>3, SMTT(30)
<1> HIDE DEF r
<1>16. Cuenta(r)
  <2>1. \A k \in 0..n : k = 0 \/ k \in 1..n
    BY <1>1
  <2> QED
    BY <1>12, <1>14, <1>15, <2>1
<1>17. \A g : Cuenta(g) => g = r
  <2> SUFFICES ASSUME NEW g, Cuenta(g) PROVE g = r
    OBVIOUS
  <2> DEFINE R == {m \in Nat : m \in 0..n => g[m] = r[m]}
  <2>1. 0 \in R
    BY <1>14
  <2>2. ASSUME NEW m \in Nat, m \in R PROVE m + 1 \in R
    <3> SUFFICES ASSUME m + 1 \in 0..n PROVE g[m + 1] = r[m + 1]
      OBVIOUS
    <3>1. m + 1 # 0 /\ (m + 1) - 1 = m /\ m \in 0..n /\ m + 1 \in 1..n
      BY <1>1
    <3>2. g[m + 1] = g[m] + ReservaDelContexto(pila[m + 1])
      BY <3>1
    <3>3. r[m + 1] = r[m] + ReservaDelContexto(pila[m + 1])
      BY <1>15, <3>1
    <3> QED
      BY <2>2, <3>1, <3>2, <3>3
  <2> HIDE DEF R
  <2>3. Nat \subseteq R
    BY <2>1, <2>2, Induccion
  <2>4. \A k \in 0..n : g[k] = r[k]
    <3> SUFFICES ASSUME NEW k \in 0..n PROVE g[k] = r[k]
      OBVIOUS
    <3>1. k \in R
      BY <1>1, <2>3
    <3> QED
      BY <3>1 DEF R
  <2>5. g = [k \in 0..n |-> g[k]]
    OBVIOUS
  <2> HIDE DEF Cuenta
  <2> QED
    BY <1>12, <2>4, <2>5 DEF r
<1>18. ASSUME NEW k \in 0..n
       PROVE  Longitud(EscribirEncabezado(pcb)) + Longitud(EscribirContextos(SubSeq(pila, 1, k))) <= r[k]
  <2>1. Longitud(EscribirEncabezado(pcb)) = e
    BY <1>2 DEF Texto
  <2>2. Longitud(EscribirContextos(SubSeq(pila, 1, k))) = f[k] /\ f[k] \in Nat
    BY <1>6, <1>9, <1>12
  <2>3. r[k] = e + h[k] /\ h[k] = (n - k) * (5 * SizeofInt) + f[k]
    BY <1>11, <1>12
  <2> QED
    BY <1>10, <2>1, <2>2, <2>3
<1>19. EntraEnElBuffer(pcb) =
         LET reservado == CHOOSE g : Cuenta(g)
         IN \A k \in DOMAIN reservado :
              Longitud(EscribirEncabezado(pcb)) + Longitud(EscribirContextos(SubSeq(pila, 1, k)))
                <= reservado[k]
  BY DEF EntraEnElBuffer
<1> HIDE DEF Cuenta
<1>20. (CHOOSE g : Cuenta(g)) = r
  BY <1>16, <1>17
<1>21. DOMAIN r = 0..n
  BY DEF r
<1> QED
  BY <1>18, <1>19, <1>20, <1>21
=============================================================================
