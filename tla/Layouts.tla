------------------------------ MODULE Layouts ------------------------------
(***************************************************************************)
(* The memory maps of the devices: the packed structs of src/ls-common,    *)
(* and struct vcounters, which is not packed.                              *)
(*                                                                         *)
(* A layout is a sequence of fields.  A gap is a reserved array: its       *)
(* length is computed from two bounds, by a formula that differs from file *)
(* to file, and the second bound says where the next register should be    *)
(* ("upto").  The headers assert the total size only.                      *)
(***************************************************************************)
EXTENDS Integers, Sequences

\* n elements of stride bytes, of which the first used hold registers
Array(name, n, stride, used) ==
    <<[name |-> name, n |-> n, stride |-> stride, used |-> used, upto |-> 0]>>
Regs(name, n) == Array(name, n, 4, 4)
Words(names)  == [k \in DOMAIN names |-> Regs(names[k], 1)[1]]

Reserved(bytes, upto) ==
    <<[name |-> "reserved", n |-> bytes, stride |-> 1, used |-> 0, upto |-> upto]>>

\* u8 reserved[end-begin]: begin is the first offset that is not used
Gap(begin, end) == Reserved(end - begin, end)

\* Mutant: the last byte is taken for one that is used
GapBetween(begin, end) == Reserved(end - begin - 1, end + 1)

\* u8 reserved[end-begin] where both are the last bytes of something
GapAfter(begin, end) == Reserved(end - begin, end + 1)

\* FUNNEL_RESERVED: begin is the offset of the last register used
FunnelReserved(begin, end) == Reserved(end - begin - 4, end)

\* ETM_RESERVED counts words: begin is the last register used
EtmReserved(begin, end) == Reserved(4 * (end - begin - 1), 4 * end)

----------------------------------------------------------------------------

epu_v2 ==
    Words(<<"epgcr">>) \o Gap(\h004, \h010) \o Words(<<"epesr">>) \o Gap(\h014, \h020)
    \o Regs("episr", 4) \o Words(<<"epctrisr">>) \o Gap(\h034, \h040)
    \o Words(<<"epctrcsr">>) \o Gap(\h044, \h050)
    \o Regs("epevtcr", 10) \o Gap(\h078, \h090)
    \o Words(<<"epxtrigcr">>) \o Gap(\h094, \h100)
    \o Regs("epimcr", 32) \o Gap(\h180, \h200)
    \o Array("scu_ctrl", 16, 8, 4) \o Gap(\h280, \h300)
    \o Regs("epecr", 16) \o Gap(\h340, \h400)
    \o Regs("epacr", 16) \o Gap(\h440, \h480)
    \o Regs("epgacr", 16) \o Gap(\h4c0, \h540)
    \o Regs("epctrgcr", 4) \o Gap(\h550, \h580)
    \o Regs("epegcr", 3) \o Gap(\h58c, \h600)
    \o Words(<<"epfsmsr0">>) \o Gap(\h604, \h610)
    \o Regs("epfsmcmpr", 8) \o Regs("epfsmcr", 8) \o Gap(\h650, \h800)
    \o Regs("epccr", 32) \o Gap(\h880, \h900) \o Regs("epcmpr", 32) \o Gap(\h980, \ha00)
    \o Regs("epctr", 32) \o Gap(\ha80, \hb00) \o Regs("epcapr", 32) \o Gap(\hb80, \hf00)
    \o Regs("eprsrv", 60) \o Regs("ephsr", 4)

etf ==
    Gap(\h000, \h004) \o Words(<<"rsz">>) \o Gap(\h008, \h00c)
    \o Words(<<"sts", "rrd", "rrp", "rwp", "trg", "ctl", "rwd", "mode", "lbuflevel",
               "cbuflevel", "bufwm", "rrphi", "rwphi">>) \o Gap(\h040, \h110)
    \o Words(<<"axictl">>) \o Gap(\h114, \h118)
    \o Words(<<"dbalo", "dbahi">>) \o Gap(\h120, \h300)
    \o Words(<<"ffsr", "ffcr", "pscr">>) \o Gap(\h30c, \hed0)
    \o Words(<<"itatbmdata0", "itatbmctr2", "itatbmctr1", "itatbmctr0",
               "itmiscop0">>) \o Gap(\hee4, \hee8)
    \o Words(<<"ittrflin", "itatbdata0", "itatbctr2", "itatbctr1",
               "itatbctr0">>) \o Gap(\hefc, \hf00)
    \o Words(<<"itctrl">>) \o Gap(\hf04, \hfa0)
    \o Words(<<"claimset", "claimclr">>) \o Gap(\hfa8, \hfb0)
    \o Words(<<"lar", "lsr", "authstatus">>) \o Gap(\hfbc, \hfc8)
    \o Words(<<"devid", "devtype", "periphid4", "periphid5", "periphid6", "periphid7",
               "periphid0", "periphid1", "periphid2", "periphid3",
               "compid0", "compid1", "compid2", "compid3">>)

\* Field by field the same
etr == etf

funnel ==
    Words(<<"cr", "pcr">>) \o FunnelReserved(\h004, \heec)
    \o Words(<<"itatbdata0", "itatbctr2", "itatbctr1", "itatbctr0">>)
    \o FunnelReserved(\hef8, \hf00) \o Words(<<"imcr">>)
    \o FunnelReserved(\hf00, \hfa0) \o Words(<<"ctsr", "ctcr">>)
    \o FunnelReserved(\hfa4, \hfb0) \o Words(<<"lar", "lsr", "asr">>)
    \o FunnelReserved(\hfb8, \hfc8)
    \o Words(<<"dir", "dtir", "pidr4", "pidr5", "pidr6", "pidr7",
               "pidr0", "pidr1", "pidr2", "pidr3">>)
    \o Regs("cidr", 4)

gdi ==
    Words(<<"gdcr", "gdsr">>) \o GapAfter(\h007, \h0ff)
    \o Words(<<"gdrescr1", "gdrescr2">>) \o GapAfter(\h107, \h1ff)
    \o Regs("gdpescr", 32) \o GapAfter(\h27f, \h2ff)
    \o Array("gdgpc", 8, 16, 12)

etm ==
    Words(<<"etmcr", "etmccr", "etmtrigger", "etmasicctlr", "etmsr", "etmscr",
            "etmtsscr", "etmtecr2", "etmteevr", "etmtecr1">>) \o EtmReserved(\h009, \h00b)
    \o Words(<<"etmfflr", "etmvdevr", "etmvdcr1">>) \o EtmReserved(\h00d, \h00f)
    \o Words(<<"etmvdcr3">>)
    \o Regs("etmacvr", 8) \o EtmReserved(\h017, \h020)
    \o Regs("etmactr", 8) \o EtmReserved(\h027, \h030)
    \o Words(<<"etmdcvr1">>) \o EtmReserved(\h030, \h032)
    \o Words(<<"etmdcvr3">>) \o EtmReserved(\h032, \h040)
    \o Words(<<"etmdcmr1">>) \o EtmReserved(\h040, \h042)
    \o Words(<<"etmdcmr3">>) \o EtmReserved(\h042, \h050)
    \o Regs("etmcntrldvr", 2) \o EtmReserved(\h051, \h054)
    \o Regs("etmcntenr", 2) \o EtmReserved(\h055, \h058)
    \o Regs("etmcntrldevr", 2) \o EtmReserved(\h059, \h05c)
    \o Regs("etmcntvr", 2) \o EtmReserved(\h05d, \h060)
    \o Regs("etmsqabevr", 6) \o EtmReserved(\h065, \h067)
    \o Words(<<"etmsqr">>) \o Regs("etmextoutevr", 2) \o EtmReserved(\h069, \h06c)
    \o Words(<<"etmcidcvr1">>) \o EtmReserved(\h06c, \h06f)
    \o Words(<<"etmcidcmr">>) \o EtmReserved(\h06f, \h078)
    \o Words(<<"etmsyncfr", "etmidr", "etmccer", "etmextinselr">>) \o EtmReserved(\h07b, \h07e)
    \o Words(<<"etmtsevr", "etmauxcr", "etmtraceidr">>) \o EtmReserved(\h080, \h082)
    \o Words(<<"etmidr2">>) \o EtmReserved(\h082, \h090)
    \o Words(<<"etmvmidcvr">>) \o EtmReserved(\h090, \h0c0)
    \o Words(<<"etmoslar", "etmoslsr", "etmossrr">>) \o EtmReserved(\h0c2, \h0c4)
    \o Words(<<"etmpdcr", "etmpdsr">>) \o EtmReserved(\h0c5, \h3b7)
    \o Words(<<"itmiscout", "itmiscin">>) \o EtmReserved(\h3b8, \h3ba)
    \o Words(<<"ittriggerreq", "itatbdata0", "itatbctr2", "itatbctr1",
               "itatbctr0">>) \o EtmReserved(\h3be, \h3c0)
    \o Words(<<"etmitctrl">>) \o EtmReserved(\h3c0, \h3e8)
    \o Words(<<"etmclaimset", "etmclaimclr">>) \o EtmReserved(\h3e9, \h3ec)
    \o Words(<<"etmlar", "etmlsr", "etmauthstatus">>) \o EtmReserved(\h3ee, \h3f2)
    \o Words(<<"etmdevid", "etmdevtype", "etmpidr4", "etmpidr5", "etmpidr6", "etmpidr7",
               "etmpidr0", "etmpidr1", "etmpidr2", "etmpidr3">>)
    \o Regs("etmcidr", 4)

\* One of the two in struct core_pmu; its first page is reserved
PmuSize == \h2000
PmuGap(begin, end) == GapAfter(\h1000 + begin, \h1000 + end)

core_pmu ==
    Gap(0, \h1000)
    \o Regs("pmxevcntr", 4) \o PmuGap(\h00f, \h07b)
    \o Words(<<"pmccntr">>) \o PmuGap(\h07f, \h3ff)
    \o Regs("pmxevtyper", 4) \o PmuGap(\h40f, \h47b)
    \o Words(<<"pmxevtyper31">>) \o PmuGap(\h47f, \hbff)
    \o Words(<<"pmctenset">>) \o PmuGap(\hc03, \hc1f)
    \o Words(<<"pmcntenclr">>) \o PmuGap(\hc23, \hc3f)
    \o Words(<<"pmintenset">>) \o PmuGap(\hc43, \hc5f)
    \o Words(<<"pmintenclr">>) \o PmuGap(\hc63, \hc7f)
    \o Words(<<"pmovsr">>) \o PmuGap(\hc83, \hc9f)
    \o Words(<<"pmswinc">>) \o PmuGap(\hca3, \hdff)
    \o Words(<<"pmcfgr", "pmcr", "pmuserenr">>) \o PmuGap(\he0b, \he1f)
    \o Regs("pmceid", 2) \o PmuGap(\he27, \hfaf)
    \o Words(<<"pmlar", "pmlsr", "pmauthstatus">>) \o PmuGap(\hfbb, \hfcb)
    \o Words(<<"pmdevtype", "pmpid4", "pmpid5", "pmpid6", "pmpid7",
               "pmpid0", "pmpid1", "pmpid2", "pmpid3">>)
    \o Regs("pmcid", 4)

\* Not packed: the compiler aligns the 64-bit arrays
vcounters ==
    Words(<<"vcntctrl">>) \o Regs("vcntrepecr", 16) \o Gap(68, 72)
    \o Array("vcntr", 32, 8, 8) \o Array("vcntrcapt", 32, 8, 8)

----------------------------------------------------------------------------

Bytes(f) == f.n * f.stride

\* Where each field begins, and where the last one ends
Offsets(layout) ==
    LET at[n \in 1 .. Len(layout) + 1] ==
            IF n = 1 THEN 0 ELSE at[n - 1] + Bytes(layout[n - 1])
    IN  at

OffsetAt(layout, k) == Offsets(layout)[k]

SizeOf(layout) == OffsetAt(layout, Len(layout) + 1)

IndexOf(layout, name) == CHOOSE k \in DOMAIN layout : layout[k].name = name

OffsetOf(layout, name) == OffsetAt(layout, IndexOf(layout, name))

\* The offset of each register
RegistersOf(layout) ==
    UNION {LET f == layout[k]
               at == OffsetAt(layout, k)
           IN  {at + n * f.stride + 4 * w :
                   n \in 0 .. f.n - 1, w \in 0 .. (f.used \div 4) - 1} :
           k \in DOMAIN layout}

\* Every gap ends where its second bound says
GapsFit(layout) ==
    \A k \in DOMAIN layout :
        layout[k].upto # 0 => OffsetAt(layout, k + 1) = layout[k].upto
============================================================================
