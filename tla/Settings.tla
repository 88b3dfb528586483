------------------------------ MODULE Settings ------------------------------
(***************************************************************************)
(* What the user may change while the program runs: the configuration file *)
(* (config.go), the theme files (theme.go), and the keys T and R that      *)
(* apply them (app.go).  Themes are numbers: 1 .. BuiltIns are the built-  *)
(* in ones in display order, and the order of the numbers is the order of  *)
(* the names.  A palette is the theme it belongs to and the version of the *)
(* file that defines it, 0 for a built-in one.                             *)
(***************************************************************************)
EXTENDS Integers, FiniteSets, Sequences, SequencesExt

CONSTANTS
  BuiltIns,     \* how many themes are built in (ten)
  DefaultTheme, \* the one a name that nobody knows falls back to
  UserNames,    \* names the theme files may carry
  Letters,      \* keys the file may name, with their Lower and Upper
  NoKey,        \* a value that is not one letter, and the default filter key
  Lower, Upper,
  KillDefault,  \* k
  Reserved,     \* the letters validKeyOverride rejects
  GlobalKeys,   \* the letters globalKey consumes
  TabKeys,      \* the letters the Processes tab looks at before the overrides
  Warns, Crits, \* thresholds the file may hold
  WarnDefault, CritDefault,
  Huge,         \* the least float that is its own successor
  MaxEdits      \* bound: edits of files in a behaviour

ASSUME SettingsAssumption ==
  /\ BuiltIns \in Nat /\ DefaultTheme \in 1 .. BuiltIns
  /\ UserNames \subseteq Nat \ {0} /\ IsFiniteSet(UserNames)
  /\ KillDefault \in Letters /\ Reserved \cup GlobalKeys \cup TabKeys \subseteq Letters
  /\ NoKey \notin Letters /\ MaxEdits \in Nat
  /\ \A l \in Letters : Lower[l] \in Letters /\ Upper[l] \in Letters

(* The letters come in both cases, and validKeyOverride rejects both cases *)
(* of what somebody else consumes first.  This leaves out the few letters  *)
(* on whose case EqualFold and ToLower disagree (the dotless and the       *)
(* dotted i, the long s), which normalize may let collide.                 *)
ASSUME LettersAssumption ==
  /\ \A l \in Letters : Lower[Lower[l]] = Lower[l] /\ Lower[Upper[l]] = Lower[l]
  /\ \A l \in GlobalKeys \cup TabKeys, m \in Letters : Lower[m] = Lower[l] => m \in Reserved
  /\ KillDefault \notin Reserved

ASSUME ThresholdsAssumption ==
  /\ Warns \cup Crits \subseteq Int /\ Huge \in Int
  /\ WarnDefault \in Int /\ CritDefault \in Int /\ WarnDefault < CritDefault

VARIABLES
  file,      \* the configuration file: [state, values]
  dir,       \* the theme files: name -> version
  edits,     \* edits so far
  cfg,       \* the configuration in force
  registry,  \* the user palettes last read
  palette,   \* the palette of the screen
  tabPalette \* the palette of the tabs

settingsVars == <<file, dir, edits, cfg, registry, palette, tabPalette>>

-----------------------------------------------------------------------------
(* config.go *)

(* validKeyOverride *)
ValidKey_NoReserved(k) == k \in Letters
ValidKey(k) == k \in Letters \ Reserved

(* A float plus one; the warning threshold's fallback, then the critical   *)
(* one's, which has to end above it.                                       *)
PlusOne(x) == IF x >= Huge THEN x ELSE x + 1
Warn(w) == IF w <= 0 THEN WarnDefault ELSE w
Crit(w, c) ==
  IF c > Warn(w) THEN c
  ELSE IF PlusOne(Warn(w)) > CritDefault THEN PlusOne(Warn(w)) ELSE CritDefault

(* normalize: the keys fall back one by one, then both when they are the   *)
(* same letter.  An empty theme is the default one.                        *)
Normalized(f) ==
  LET kill == IF ValidKey(f.kill) THEN f.kill ELSE KillDefault
      filter == IF ValidKey(f.filter) THEN f.filter ELSE NoKey
      clash == filter # NoKey /\ Lower[kill] = Lower[filter]
  IN [theme |-> IF f.theme = 0 THEN DefaultTheme ELSE f.theme,
      kill |-> IF clash THEN KillDefault ELSE kill,
      filter |-> IF clash THEN NoKey ELSE filter,
      warn |-> Warn(f.warn), crit |-> Crit(f.warn, f.crit)]

(* The values without a file, and those a file may hold.                   *)
Default ==
  [theme |-> DefaultTheme, kill |-> KillDefault, filter |-> NoKey,
   warn |-> WarnDefault, crit |-> CritDefault]

(* Load, of a file that can be read or is not there.                       *)
Load == IF file.state = "missing" THEN Default ELSE Normalized(file.values)

Files ==
  [state : {"ok"},
   values : [theme : {0, DefaultTheme} \cup UserNames, kill : {KillDefault}, filter : {NoKey},
             warn : {WarnDefault}, crit : {CritDefault}]
            \cup [theme : {0}, kill : Letters, filter : Letters \cup {NoKey},
                  warn : {WarnDefault}, crit : {CritDefault}]
            \cup [theme : {0}, kill : {KillDefault}, filter : {NoKey}, warn : Warns, crit : Crits]]
  \cup [state : {"missing", "broken"}, values : {Default}]

-----------------------------------------------------------------------------
(* theme.go *)

(* Names: the built-ins, then the names of the files in order.             *)
InOrder(names) ==
  CHOOSE s \in [1 .. Cardinality(names) -> names] : \A i, j \in DOMAIN s : i < j => s[i] < s[j]
NamesOf(reg) == [i \in 1 .. BuiltIns |-> i] \o InOrder(DOMAIN reg)

(* Resolve and ByName: a file wins over a built-in of its name.            *)
ByName(reg, name) ==
  IF name \in DOMAIN reg THEN <<name, reg[name]>>
  ELSE IF name \in 1 .. BuiltIns THEN <<name, 0>> ELSE <<DefaultTheme, 0>>

(* LoadUserThemes: the palettes of the files that are there now replace    *)
(* those of the last time.                                                 *)
LoadUserThemes == registry' = dir

-----------------------------------------------------------------------------
(* app.go *)

(* applyTheme and the end of reloadConfig: the screen and every tab.       *)
Distribute(p) == palette' = p /\ tabPalette' = p

(* The next name after the first that is the configured one.  Mutant: the  *)
(* cycle closes after the built-ins.                                       *)
NextTheme_BuiltIns(reg, name) ==
  IF name \in 1 .. BuiltIns THEN (name % BuiltIns) + 1 ELSE 1
NextTheme(reg, name) ==
  LET names == NamesOf(reg)
      at == {i \in DOMAIN names : names[i] = name}
  IN IF at = {} THEN names[1]
     ELSE names[((CHOOSE i \in at : \A j \in at : i <= j) % Len(names)) + 1]

(* New: the themes directory is read when the first theme is resolved.     *)
SettingsInit ==
  /\ file = [state |-> "missing", values |-> Default] /\ edits = 0
  /\ dir \in UNION {[D -> {1}] : D \in SUBSET UserNames}
  /\ registry = dir /\ cfg = Default
  /\ palette = ByName(dir, DefaultTheme) /\ tabPalette = palette

(* The user edits the configuration file or the theme files.               *)
EditFile(f) ==
  /\ edits < MaxEdits /\ edits' = edits + 1 /\ file' = f
  /\ UNCHANGED <<dir, cfg, registry, palette, tabPalette>>
EditTheme(n) ==
  /\ edits < MaxEdits /\ edits' = edits + 1
  /\ \/ dir' = [m \in DOMAIN dir \cup {n} |-> IF m = n THEN edits + 2 ELSE dir[m]]
     \/ dir' = [m \in DOMAIN dir \ {n} |-> dir[m]]
  /\ UNCHANGED <<file, cfg, registry, palette, tabPalette>>

(* T.  Mutant: the tabs keep theirs.                                       *)
CycleTheme_ScreenOnly ==
  LET next == NextTheme(registry, cfg.theme) IN
  /\ cfg' = [cfg EXCEPT !.theme = next]
  /\ palette' = ByName(registry, next) /\ UNCHANGED tabPalette
  /\ UNCHANGED <<file, dir, edits, registry>>
CycleTheme ==
  LET next == NextTheme(registry, cfg.theme) IN
  /\ cfg' = [cfg EXCEPT !.theme = next]
  /\ Distribute(ByName(registry, next))
  /\ UNCHANGED <<file, dir, edits, registry>>

(* R: nothing changes when the file cannot be read or parsed; otherwise    *)
(* the configuration, the palettes and the theme are read again, in that   *)
(* order.  Mutant: the theme is resolved before the palettes are read.     *)
Reload_OldPalettes ==
  /\ file.state # "broken"
  /\ cfg' = Load /\ LoadUserThemes
  /\ Distribute(ByName(registry, Load.theme))
  /\ UNCHANGED <<file, dir, edits>>
Reload ==
  /\ file.state # "broken"
  /\ cfg' = Load /\ LoadUserThemes
  /\ Distribute(ByName(dir, Load.theme))
  /\ UNCHANGED <<file, dir, edits>>

SettingsNext ==
  \/ \E f \in Files : EditFile(f)
  \/ \E n \in UserNames : EditTheme(n)
  \/ CycleTheme
  \/ Reload

SettingsSpec == SettingsInit /\ [][SettingsNext]_settingsVars

-----------------------------------------------------------------------------
(* Properties.                                                             *)

(* Every variable in its domain; the palettes in force were read from      *)
(* files that existed.                                                     *)
SettingsTypeOK ==
  /\ file \in Files \cup {[state |-> "missing", values |-> Default]} /\ edits \in 0 .. MaxEdits
  /\ DOMAIN dir \subseteq UserNames /\ DOMAIN registry \subseteq UserNames
  /\ cfg.theme \in Nat \ {0} /\ cfg.kill \in Letters /\ cfg.filter \in Letters \cup {NoKey}

(* Processes: which of its handlers a letter reaches.                      *)
KillKey == Lower[cfg.kill]
ForceKey == Upper[KillKey]
Handler(k) ==
  CASE k \in GlobalKeys -> "global"
    [] k \notin GlobalKeys /\ k = cfg.filter -> "filter"
    [] k \in TabKeys /\ k \notin GlobalKeys \cup {cfg.filter} -> "tab"
    [] k = KillKey /\ k \notin GlobalKeys \cup TabKeys \cup {cfg.filter} -> "kill"
    [] k = ForceKey /\ k \notin GlobalKeys \cup TabKeys \cup {cfg.filter, KillKey} -> "force"
    [] OTHER -> "table"

(* Through any edits, reloads and theme keys, in any order:                *)
(*  - the screen and all tabs show the palette that the configured name    *)
(*    means among the palettes last read (comment app.go:443-449);         *)
(*  - the kill key, its uppercase variant and the filter key of the        *)
(*    configuration each reach their own handler, behind the global keys   *)
(*    and the keys the tab looks at first (config.go:206-211);             *)
(*  - the critical threshold lies above the warning one, "normalize must   *)
(*    never emit crit <= warn" (config.go:176), as long as adding one to a *)
(*    float makes a difference.                                            *)
SettingsApplied ==
  /\ palette = ByName(registry, cfg.theme) /\ tabPalette = palette
  /\ Handler(KillKey) = "kill"
  /\ ForceKey # KillKey => Handler(ForceKey) = "force"
  /\ cfg.filter # NoKey => Handler(cfg.filter) = "filter"
  /\ cfg.warn < Huge => cfg.crit > cfg.warn

(* The theme after each number of presses of T.                            *)
Presses(reg, name) ==
  LET after[k \in 0 .. Len(NamesOf(reg))] == IF k = 0 THEN name ELSE NextTheme(reg, after[k - 1])
  IN after

(* cycleTheme: pressing T again and again shows every theme, built-in or   *)
(* user (README.md:87), whichever is configured now, and whether or not    *)
(* its name is still known.  This holds as long as no theme file overrides *)
(* a built-in theme: then the name is listed twice, and what follows its   *)
(* second place is never reached.                                          *)
ThemeCycleReachesAll ==
  (DOMAIN registry \cap 1 .. BuiltIns = {}) =>
    LET after == Presses(registry, cfg.theme)
    IN {after[k] : k \in 1 .. Len(NamesOf(registry))} = ToSet(NamesOf(registry))
=============================================================================
