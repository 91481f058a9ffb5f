----------------------------- MODULE InsnDecode -----------------------------
(***************************************************************************)
(* The instruction decoders of sync_probe.c (decode(), dump_func()) and    *)
(* irq_probe.c (dump_vectors()).  A 32-bit word is a pair <<hi, lo>> of    *)
(* 16-bit halves.  The reference is the assembler's side: a word is put    *)
(* together from the fields that the architecture gives its instruction,   *)
(* which the comments above the tests of decode() repeat, and the decoder  *)
(* has to give its name and fields back.                                   *)
(***************************************************************************)
EXTENDS Integers, Sequences, SequencesExt, FiniteSets, Bitwise

VARIABLES
  asked,    \* what is being decoded: a description of an instruction, or of code
  shown     \* what the decoder printed about it

vars == <<asked, shown>>

-----------------------------------------------------------------------------
(* Words and fields.                                                       *)

Masked(w, m) == <<w[1] & m[1], w[2] & m[2]>>
Matches(w, m, v) == Masked(w, m) = v

\* (w >> lsb) & (2^n - 1).
Field(w, lsb, n) ==
  IF lsb >= 16 THEN (w[1] \div 2^(lsb - 16)) % 2^n
  ELSE IF lsb + n <= 16 THEN (w[2] \div 2^lsb) % 2^n
  ELSE (w[1] % 2^(lsb + n - 16)) * 2^(16 - lsb) + w[2] \div 2^lsb

Bit(w, n) == Field(w, n, 1)

\* (s32)(insn << 6) >> 6: the 26-bit word offset of B and BL, sign-extended.
Imm26(w) == LET f == Field(w, 0, 26) IN IF f >= 2^25 THEN f - 2^26 ELSE f

IsBL(w) == Matches(w, <<\hFC00, 0>>, <<\h9400, 0>>)
IsB(w) == Matches(w, <<\hFC00, 0>>, <<\h1400, 0>>)
IsRET(w) == Matches(w, <<\hFFFF, \hFC1F>>, <<\hD65F, 0>>)

-----------------------------------------------------------------------------
(* sync_probe.c                                                            *)

bar_domain(crm) ==
  CASE crm = 15 -> "sy"  [] crm = 14 -> "st"    [] crm = 13 -> "ld"
    [] crm = 11 -> "ish" [] crm = 10 -> "ishst" [] crm = 9 -> "ishld"
    [] crm = 7 -> "nsh"  [] crm = 6 -> "nshst"  [] crm = 5 -> "nshld"
    [] crm = 3 -> "osh"  [] crm = 2 -> "oshst"  [] crm = 1 -> "oshld"
    [] OTHER -> "?"

LseOps == <<"ADD", "CLR", "EOR", "SET", "SMAX", "SMIN", "UMAX", "UMIN">>
SizeName(w) == CASE Field(w, 30, 2) = 2 -> 32 [] Field(w, 30, 2) = 3 -> 64 [] OTHER -> 8

\* What each test of decode() prints when its mask and value match, in the
\* order of the tests: <<mask, value, text>>.
Tests(w) == <<
  << <<\hFFFF, \hF01F>>, <<\hD503, \h301F>>,
     <<"barrier", CASE Field(w, 5, 3) = 4 -> "DSB" [] Field(w, 5, 3) = 5 -> "DMB"
                    [] Field(w, 5, 3) = 6 -> "ISB" [] OTHER -> "BAR?",
       bar_domain(Field(w, 8, 4))>> >>,
  << <<\h3F20, \h0C00>>, <<\h3820, 0>>,
     IF Bit(w, 15) = 1 THEN <<"SWP", Bit(w, 23), Bit(w, 22), SizeName(w)>>
     ELSE <<IF Field(w, 0, 5) = 31 THEN "ST" ELSE "LD", LseOps[Field(w, 12, 3) + 1],
            Bit(w, 23), Bit(w, 22), SizeName(w)>> >>,
  << <<\h3FA0, \h7C00>>, <<\h08A0, \h7C00>>, <<"CAS", Bit(w, 22), Bit(w, 15), SizeName(w)>> >>,
  << <<\h3FE0, \h7C00>>, <<\h0840, 0>>, <<"LDXR", Bit(w, 15), SizeName(w)>> >>,
  << <<\h3FE0, \h7C00>>, <<\h0840, \h5C00>>, <<"LDXR", Bit(w, 15), SizeName(w)>> >>,
  << <<\h3FE0, 0>>, <<\h0800, 0>>, <<"STXR", Bit(w, 15), SizeName(w)>> >>,
  << <<\hFFFF, \hFFFF>>, <<\hD503, \h201F>>, <<"NOP">> >>,
  << <<\hFFFF, \hFFFF>>, <<\hD503, \h205F>>, <<"WFE">> >>,
  << <<\hFFFF, \hFFFF>>, <<\hD503, \h20BF>>, <<"SEVL">> >>,
  << <<\hFFFF, \hFFFF>>, <<\hD503, \h209F>>, <<"SEV">> >>,
  << <<\hFFFF, \hFFFF>>, <<\hD503, \h203F>>, <<"YIELD">> >>,
  << <<\hFC00, 0>>, <<\h9400, 0>>, <<"BL", 4 * Imm26(w)>> >>,
  << <<\hFC00, 0>>, <<\h1400, 0>>, <<"B", 4 * Imm26(w)>> >>,
  << <<\hFFFF, \hFC1F>>, <<\hD65F, 0>>, <<"RET">> >>,
  << <<\hFF00, 0>>, <<\hF900, 0>>, <<"STR (imm)">> >>,
  << <<\hFF00, 0>>, <<\hF800, 0>>, <<"LDR/STR">> >>,
  << <<\h9F00, 0>>, <<\h9000, 0>>, <<"ADRP">> >>,
  << <<\hFF80, 0>>, <<\h9100, 0>>, <<"ADD (imm)">> >>,
  << <<\h7F80, 0>>, <<\h5280, 0>>, <<"MOVZ">> >> >>

\* Mutant: the last test that matches decides.
decodeLast(w) ==
  LET hit == SelectSeq(Tests(w), LAMBDA t : Matches(w, t[1], t[2]))
  IN  IF hit = <<>> THEN <<"-">> ELSE Last(hit)[3]

decode(w) ==
  LET hit == SelectSeq(Tests(w), LAMBDA t : Matches(w, t[1], t[2]))
  IN  IF hit = <<>> THEN <<"-">> ELSE Head(hit)[3]

\* dump_func_depth() at depth 0 and 1.  mem is the code around the function, a
\* sequence of words; fn the index of its first word.
Listed(mem, fn, words) ==
  LET rets == {i \in fn .. fn + words - 1 : IsRET(mem[i])}
      end == IF rets = {} THEN fn + words - 1 ELSE CHOOSE i \in rets : \A j \in rets : i <= j
  IN  fn .. end

BlTarget(mem, listed) ==
  LET bls == {i \in listed : IsBL(mem[i])}
      first == CHOOSE i \in bls : \A j \in bls : i <= j
  IN  IF bls = {} THEN 0 ELSE first + Imm26(mem[first])

\* Mutant: caller and callee share the budget of words.
dump_funcRest(mem, fn, words) ==
  LET main == Listed(mem, fn, words)
      to == BlTarget(mem, main)
  IN  main \cup (IF to # 0 THEN Listed(mem, to, words - Cardinality(main)) ELSE {})

dump_func(mem, fn, words) ==
  LET main == Listed(mem, fn, words)
      to == BlTarget(mem, main)
  IN  main \cup (IF to # 0 THEN Listed(mem, to, words) ELSE {})

-----------------------------------------------------------------------------
(* irq_probe.c                                                             *)

\* dump_vectors(): what is noted about the first instruction of the entry at
\* ent = vbar + i * 0x80 (vbar taken as 0): the frame size, or B's target.
VectorNote(i, w) ==
  CASE Matches(w, <<\hFFC0, \h03FF>>, <<\hD100, \h03FF>>) -> <<"sub sp", Field(w, 10, 12)>>
    [] IsB(w) -> <<"b", i * 128 + 4 * Imm26(w)>>
    [] OTHER -> <<>>

-----------------------------------------------------------------------------
(* The assembler's side.                                                   *)

BitsOf(v, n) == [i \in 1 .. n |-> (v \div 2^(n - i)) % 2]
Value(bits) == FoldLeft(LAMBDA a, b : 2 * a + b, 0, bits)
\* fields: a sequence of <<value, width>>, most significant first, 32 bits in all.
Assemble(fields) ==
  LET bits == FlattenSeq([k \in DOMAIN fields |-> BitsOf(fields[k][1], fields[k][2])])
  IN  <<Value(SubSeq(bits, 1, 16)), Value(SubSeq(bits, 17, 32))>>

Regs == {0, 17, 31}
Barriers == [k : {"barrier"}, crm : 0 .. 15, op2 : 4 .. 6]
Lse == [k : {"lse"}, size : 2 .. 3, A : {0, 1}, R : {0, 1}, o3 : {0}, opc : 0 .. 7, Rs : {5}, Rn : {17}, Rt : Regs]
       \cup [k : {"lse"}, size : 2 .. 3, A : {0, 1}, R : {0, 1}, o3 : {1}, opc : {0}, Rs : {5}, Rn : {17}, Rt : {5}]
Cas == [k : {"cas"}, size : 2 .. 3, L : {0, 1}, o0 : {0, 1}, Rs : Regs, Rn : Regs, Rt : {0, 9}]
Stxr == [k : {"stxr"}, size : 2 .. 3, o0 : {0, 1}, Rs : Regs, Rn : Regs, Rt : {0, 9}]
Ldxr == [k : {"ldxr"}, size : 2 .. 3, o0 : {0, 1}, Rn : Regs, Rt : Regs]
Ldapr == [k : {"ldapr"}, size : 2 .. 3, Rn : Regs, Rt : Regs]
Mems == [k : {"mem"}, load : {0, 1}, imm : {0, 1, 4095}, Rn : Regs, Rt : Regs]
Branches == [k : {"BL", "B"}, off : {-(2^25), -4096, -1, 0, 1, 4096, 2^25 - 1}]
Hints == [k : {"hint"}, op : {0, 1, 2, 4, 5}]
Subs == [k : {"sub"}, imm : {0, 1, 304, 336, 4095}, i : 0 .. 15]
VectorBs == [k : {"vecb"}, off : {-256, 0, 1, 1024}, i : 0 .. 15]

Mod26(n) == IF n < 0 THEN n + 2^26 ELSE n
Word(d) ==
  CASE d.k = "barrier" -> Assemble(<< <<213, 8>>, <<3, 8>>, <<3, 4>>, <<d.crm, 4>>, <<1, 1>>, <<d.op2 - 4, 2>>, <<31, 5>> >>)
    [] d.k = "lse" -> Assemble(<< <<d.size, 2>>, <<56, 6>>, <<d.A, 1>>, <<d.R, 1>>, <<1, 1>>, <<d.Rs, 5>>,
                                  <<d.o3, 1>>, <<d.opc, 3>>, <<0, 2>>, <<d.Rn, 5>>, <<d.Rt, 5>> >>)
    [] d.k = "cas" -> Assemble(<< <<d.size, 2>>, <<8, 6>>, <<1, 1>>, <<d.L, 1>>, <<1, 1>>, <<d.Rs, 5>>,
                                  <<d.o0, 1>>, <<31, 5>>, <<d.Rn, 5>>, <<d.Rt, 5>> >>)
    [] d.k = "stxr" -> Assemble(<< <<d.size, 2>>, <<8, 6>>, <<0, 3>>, <<d.Rs, 5>>, <<d.o0, 1>>, <<31, 5>>, <<d.Rn, 5>>, <<d.Rt, 5>> >>)
    [] d.k = "ldxr" -> Assemble(<< <<d.size, 2>>, <<8, 6>>, <<2, 3>>, <<31, 5>>, <<d.o0, 1>>, <<31, 5>>, <<d.Rn, 5>>, <<d.Rt, 5>> >>)
    [] d.k = "ldapr" -> Assemble(<< <<d.size, 2>>, <<56, 6>>, <<5, 3>>, <<31, 5>>, <<12, 4>>, <<0, 2>>, <<d.Rn, 5>>, <<d.Rt, 5>> >>)
    [] d.k = "mem" -> Assemble(<< <<249, 8>>, <<d.load, 2>>, <<d.imm, 12>>, <<d.Rn, 5>>, <<d.Rt, 5>> >>)
    [] d.k = "hint" -> Assemble(<< <<213, 8>>, <<3, 8>>, <<2, 4>>, <<0, 4>>, <<d.op, 3>>, <<31, 5>> >>)
    [] d.k = "BL" -> Assemble(<< <<37, 6>>, <<Mod26(d.off), 26>> >>)
    [] d.k \in {"B", "vecb"} -> Assemble(<< <<5, 6>>, <<Mod26(d.off), 26>> >>)
    [] d.k = "sub" -> Assemble(<< <<209, 8>>, <<0, 2>>, <<d.imm, 12>>, <<31, 5>>, <<31, 5>> >>)

\* CRm of a barrier: the shareability domain above the kind of access.
Domain(crm) ==
  IF crm % 4 = 0 THEN "?"
  ELSE << <<"oshld", "oshst", "osh">>, <<"nshld", "nshst", "nsh">>,
          <<"ishld", "ishst", "ish">>, <<"ld", "st", "sy">> >>[crm \div 4 + 1][crm % 4]

\* What the architecture calls an instruction, with the operands that decode()
\* means to print.  An atomic without acquire that drops its result is a store.
Expected(d) ==
  LET size == IF d.k \in {"lse", "cas", "stxr", "ldxr", "ldapr"} THEN (IF d.size = 2 THEN 32 ELSE 64) ELSE 0 IN
  CASE d.k = "barrier" -> <<"barrier", <<"DSB", "DMB", "ISB">>[d.op2 - 3], Domain(d.crm)>>
    [] d.k = "lse" -> IF d.o3 = 1 THEN <<"SWP", d.A, d.R, size>>
                      ELSE <<IF d.Rt = 31 /\ d.A = 0 THEN "ST" ELSE "LD", LseOps[d.opc + 1], d.A, d.R, size>>
    [] d.k = "cas" -> <<"CAS", d.L, d.o0, size>>
    [] d.k = "stxr" -> <<"STXR", d.o0, size>>
    [] d.k = "ldxr" -> <<"LDXR", d.o0, size>>
    [] d.k = "ldapr" -> <<"LDAPR", size>>
    [] d.k = "mem" -> <<IF d.load = 1 THEN "LDR (imm)" ELSE "STR (imm)">>
    [] d.k = "hint" -> << <<"NOP", "YIELD", "WFE", "WFI", "SEV", "SEVL">>[d.op + 1] >>
    [] d.k \in {"BL", "B"} -> <<d.k, 4 * d.off>>
    [] d.k = "sub" -> <<"sub sp", d.imm>>
    [] d.k = "vecb" -> <<"b", 128 * d.i + 4 * d.off>>

\* The instructions that decode() takes for something else: LDXR and LDAXR, for
\* which its two tests want 00000 or 10111 where they have 11111, so that they
\* are shown as unknown; LDR with an offset, shown as STR; LDAPR, shown as SWPA;
\* and an atomic with acquire that drops its result, shown as a store.
Misread(d) ==
  \/ d.k \in {"ldxr", "ldapr"}
  \/ d.k = "mem" /\ d.load = 1
  \/ d.k = "lse" /\ d.o3 = 0 /\ d.A = 1 /\ d.Rt = 31

-----------------------------------------------------------------------------
(* Code to dump: a function at index Fn of Mem with a call at place        *)
(* `call', and the callee, which holds the atomic instruction, before or   *)
(* after it.  Words that end no function lie between.                      *)

MemSize == 20
Fn == 9
Codes == [k : {"code"}, words : {4, 5}, call : 0 .. 3, ret : 1 .. 4, callee : {1, 2, 15, 16}, atomic : 0 .. 2]
Ret == <<\hD65F, \h03C0>>
Filler == <<\h5280, \h0020>>
TheCas == Word([k |-> "cas", size |-> 2, L |-> 1, o0 |-> 1, Rs |-> 0, Rn |-> 1, Rt |-> 2])

Mem(c) == [i \in 1 .. MemSize |->
  CASE i = Fn + c.call -> Word([k |-> "BL", off |-> c.callee - (Fn + c.call)])
    [] i = Fn + c.ret -> Ret
    [] i = c.callee + c.atomic -> TheCas
    [] i = c.callee + c.atomic + 1 -> Ret
    [] OTHER -> Filler]

Init == asked = <<>> /\ shown = <<>>

ShowInsn ==
  /\ asked = <<>>
  /\ asked' \in Barriers \cup Lse \cup Cas \cup Stxr \cup Ldxr \cup Ldapr \cup Mems \cup Branches \cup Hints
  /\ shown' = decode(Word(asked'))

ShowVector ==
  /\ asked = <<>>
  /\ asked' \in Subs \cup VectorBs
  /\ shown' = VectorNote(asked'.i, Word(asked'))

DumpFunc ==
  /\ asked = <<>>
  /\ asked' \in Codes
  /\ shown' = <<"listed", dump_func(Mem(asked'), Fn, asked'.words)>>

Next == ShowInsn \/ ShowVector \/ DumpFunc

Idle == asked = <<>>
Kind == IF Idle THEN "none" ELSE asked.k

-----------------------------------------------------------------------------
\* decode(), bar_domain() and dump_vectors(): an instruction assembled from its
\* fields is shown with its name, its ordering suffixes, its size and its
\* operand, whatever the other fields are, and no earlier test takes it for
\* another; with the exception of those that Misread names, each of which is
\* shown as something it is not.
DecodeExact == Kind \notin {"none", "code"} => (shown = Expected(asked) <=> ~Misread(asked))

\* dump_func(): the listing stops at the first RET or after `words' words, and
\* the function that the first listed call goes to, forwards or backwards, is
\* listed too, so that an outlined atomic instruction is seen.
DumpFindsAtomic ==
  Kind = "code" =>
    /\ \A i \in Fn .. Fn + asked.words - 1 :
         i \in shown[2] <=> ~\E j \in Fn .. i - 1 : IsRET(Mem(asked)[j])
    /\ asked.call < asked.words /\ asked.call < asked.ret => asked.callee + asked.atomic \in shown[2]
=============================================================================
