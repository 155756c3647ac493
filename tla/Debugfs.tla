------------------------------ MODULE Debugfs ------------------------------
(***************************************************************************)
(* The files of the devices in debugfs: what the dbgfs_init functions of   *)
(* src/ls-dbg/module/dcsr_*.c create, in the order in which they do.       *)
(*                                                                         *)
(* A file has a name, a stem with a number (-1 if it has none), and shows  *)
(* one word of element elem of a field of the device's layout l, at the    *)
(* offset at.  That some files are read-only or write-only is left out.    *)
(***************************************************************************)
EXTENDS Layouts

Element(l, stem, num, field, elem, part) ==
    LET n == IndexOf(l, field)
    IN  [stem |-> stem, num |-> num, field |-> field,
         at |-> OffsetAt(l, n) + elem * l[n].stride + part]

Plain(l, names) == [n \in DOMAIN names |-> Element(l, names[n], -1, names[n], 0, 0)]

\* A loop that makes a file of each sort for each i from lo to hi, for element
\* i - shift of its field
Sort(stem, field, part) == [stem |-> stem, field |-> field, part |-> part]

Loop(l, sorts, lo, hi, shift) ==
    [n \in 1 .. (hi - lo + 1) * Len(sorts) |->
        LET i == lo + (n - 1) \div Len(sorts)
            s == sorts[((n - 1) % Len(sorts)) + 1]
        IN  Element(l, s.stem, i, s.field, i - shift, s.part)]

\* The sorts whose files are named for the field
Same(stems) == [n \in DOMAIN stems |-> Sort(stems[n], stems[n], 0)]

\* name i for element i - lo
Numbered(l, stem, lo, hi) == Loop(l, Same(<<stem>>), lo, hi, lo)

----------------------------------------------------------------------------

\* Mutant: the reserved registers are numbered upwards
Upwards(l, stem, n) == Numbered(l, stem, 0, n - 1)

Downwards(l, stem, n) ==
    [i \in 1 .. n |-> Element(l, stem, n - i, stem, i - 1, 0)]

epu_files ==
    Plain(epu_v2, <<"epgcr", "epesr", "epctrisr", "epctrcsr">>)
    \o Numbered(epu_v2, "episr", 0, 3)
    \o Loop(epu_v2, Same(<<"epimcr", "epccr", "epcmpr", "epctr", "epcapr">>), 0, 31, 0)
    \o Loop(epu_v2, <<Sort("epsmcr", "scu_ctrl", 0)>> \o Same(<<"epecr", "epacr", "epgacr">>),
            0, 15, 0)
    \o Numbered(epu_v2, "epctrgcr", 0, 3) \o Numbered(epu_v2, "epegcr", 0, 2)
    \o Plain(epu_v2, <<"epxtrigcr">>) \o Numbered(epu_v2, "epevtcr", 0, 9)
    \o Plain(epu_v2, <<"epfsmsr0">>) \o Loop(epu_v2, Same(<<"epfsmcmpr", "epfsmcr">>), 0, 7, 0)
    \o Downwards(epu_v2, "eprsrv", 60) \o Downwards(epu_v2, "ephsr", 4)

etf_files ==
    Plain(etf,
          <<"rsz", "sts", "rrd", "rrp", "rwp", "trg", "ctl", "rwd", "mode",
            "lbuflevel", "cbuflevel", "bufwm", "rrphi", "rwphi", "axictl",
            "dbalo", "dbahi", "ffsr", "ffcr", "pscr",
            "itatbmdata0", "itatbmctr2", "itatbmctr1", "itatbmctr0", "itmiscop0",
            "ittrflin", "itatbdata0", "itatbctr2", "itatbctr1", "itatbctr0",
            "itctrl", "claimset", "claimclr", "lar", "lsr", "authstatus",
            "devid", "devtype", "periphid4", "periphid5", "periphid6", "periphid7",
            "periphid0", "periphid1", "periphid2", "periphid3",
            "compid0", "compid1", "compid2", "compid3">>)

\* The same names in the same order
etr_files == etf_files

cstf_files ==
    Plain(funnel,
          <<"cr", "pcr", "itatbdata0", "itatbctr2", "itatbctr1", "itatbctr0", "imcr",
            "ctsr", "ctcr", "lar", "lsr", "asr", "dir", "dtir",
            "pidr4", "pidr5", "pidr6", "pidr7", "pidr0", "pidr1", "pidr2", "pidr3">>)
    \o Numbered(funnel, "cidr", 0, 3)

\* The loop over gdgpc starts at 1, and uses its variable as the index
gdi_files ==
    Plain(gdi, <<"gdcr", "gdsr", "gdrescr1", "gdrescr2">>)
    \o Numbered(gdi, "gdpescr", 0, 31)
    \o Loop(gdi, <<Sort("gdgpccr", "gdgpc", 0), Sort("gdgpcmr", "gdgpc", 4),
                  Sort("gdgpcvr", "gdgpc", 8)>>, 1, 8, 0)

etm_files ==
    Plain(etm, <<"etmcr", "etmccr", "etmtrigger", "etmasicctlr", "etmsr", "etmscr",
                 "etmtsscr", "etmtecr2", "etmteevr", "etmtecr1", "etmfflr", "etmvdevr",
                 "etmvdcr1", "etmvdcr3">>)
    \o Numbered(etm, "etmacvr", 1, 8) \o Numbered(etm, "etmactr", 1, 8)
    \o Plain(etm, <<"etmdcvr1", "etmdcvr3", "etmdcmr1", "etmdcmr3">>)
    \o Numbered(etm, "etmcntrldvr", 1, 2) \o Numbered(etm, "etmcntenr", 1, 2)
    \o Numbered(etm, "etmcntrldevr", 1, 2) \o Numbered(etm, "etmcntvr", 1, 2)
    \o Numbered(etm, "etmsqabevr", 1, 6) \o Plain(etm, <<"etmsqr">>)
    \o Numbered(etm, "etmextoutevr", 1, 2)
    \o Plain(etm,
             <<"etmcidcvr1", "etmcidcmr", "etmsyncfr", "etmidr", "etmccer",
               "etmextinselr", "etmtsevr", "etmauxcr", "etmtraceidr", "etmidr2",
               "etmvmidcvr", "etmoslar", "etmoslsr", "etmossrr", "etmpdcr", "etmpdsr",
               "itmiscout", "itmiscin", "ittriggerreq", "itatbdata0", "itatbctr2",
               "itatbctr1", "itatbctr0", "etmitctrl", "etmclaimset", "etmclaimclr",
               "etmlar", "etmlsr", "etmauthstatus", "etmdevid", "etmdevtype",
               "etmpidr4", "etmpidr5", "etmpidr6", "etmpidr7",
               "etmpidr0", "etmpidr1", "etmpidr2", "etmpidr3">>)
    \o Numbered(etm, "etmcidr", 1, 4)

core_files ==
    Numbered(core_pmu, "pmxevcntr", 0, 3) \o Plain(core_pmu, <<"pmccntr">>)
    \o Numbered(core_pmu, "pmxevtyper", 0, 3)
    \o Plain(core_pmu,
             <<"pmxevtyper31", "pmctenset", "pmcntenclr", "pmintenset", "pmintenclr",
               "pmovsr", "pmswinc", "pmcfgr", "pmcr", "pmuserenr">>)
    \o Numbered(core_pmu, "pmceid", 0, 1)
    \o Plain(core_pmu,
             <<"pmlar", "pmlsr", "pmauthstatus", "pmdevtype",
               "pmpid4", "pmpid5", "pmpid6", "pmpid7",
               "pmpid0", "pmpid1", "pmpid2", "pmpid3">>)
    \o Numbered(core_pmu, "pmcid", 0, 3)

----------------------------------------------------------------------------
(* Which directories a device makes, and from which of its ranges.         *)

layout == [etf |-> etf, etr |-> etr, etm |-> etm, cstf |-> funnel, epu |-> epu_v2,
           gdi |-> gdi, core |-> core_pmu]

files == [etf |-> etf_files, etr |-> etr_files, etm |-> etm_files, cstf |-> cstf_files,
          epu |-> epu_files, gdi |-> gdi_files, core |-> core_files]

Kinds == DOMAIN layout

\* Mutant: both directories of the ETF show its first range
FirstRange(k) == 0

\* The ETF goes through its ranges
OwnRange(k) == k

\* A directory: its number (0 for the only one), the range and the place in it
Dir(k, range, base) == <<[dir |-> k, range |-> range, base |-> base]>>

\* The ETM and the funnels are given mem_ptr[0] for both their directories
DirsOf(kind) ==
    CASE kind = "etf"             -> Dir(0, OwnRange(0), 0) \o Dir(1, OwnRange(1), 0)
      [] kind \in {"etm", "cstf"} -> Dir(0, 0, 0) \o Dir(1, 0, 0)
      [] kind = "core"            -> Dir(0, 0, 0) \o Dir(1, 0, PmuSize)
      [] OTHER                    -> Dir(0, 0, 0)

----------------------------------------------------------------------------
(* What RegMap asks of the layouts and the files.                          *)

EprsrvStart == OffsetOf(epu_v2, "eprsrv")

EprsrvFiles ==
    {f \in {files.epu[n] : n \in DOMAIN files.epu} : f.stem = "eprsrv"}

\* sizeof, as the headers assert it
AssertedSize(kind) ==
    CASE kind = "gdi"  -> \h380
      [] kind = "core" -> PmuSize
      [] OTHER         -> \h1000

EpuOffsetsMatch ==
    \A x \in {<<"epctrisr", \h030>>, <<"epecr", \h300>>, <<"epgacr", \h480>>,
              <<"epctrgcr", \h540>>, <<"epccr", \h800>>, <<"epctr", \ha00>>,
              <<"epcapr", \hb00>>} :
        OffsetOf(epu_v2, x[1]) = x[2]

\* The kinds whose struct has its registers where they should be
FittingKinds ==
    {kind \in Kinds :
        /\ GapsFit(layout[kind])
        /\ SizeOf(layout[kind]) = AssertedSize(kind)
        /\ kind = "epu" => EpuOffsetsMatch}
============================================================================
