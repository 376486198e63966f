------------------------------- MODULE Languages -------------------------------
(***************************************************************************)
(* The language of the phone, the host's desk and the shared display when  *)
(* all three are open in one browser and share its storage                 *)
(* (locale.service.ts, storage.ts): what the user chooses, what the host   *)
(* sets for the display and for new phones, and what is kept.              *)
(***************************************************************************)
EXTENDS Integers, FiniteSets

CONSTANTS
  Langs,        \* "en" and "ar"
  English,      \* what a surface shows first
  NoLang,       \* not saved, not overridden, not chosen
  MaxPreviews   \* bound: previews under way

ASSUME LanguageAssumption == English \in Langs /\ NoLang \notin Langs /\ MaxPreviews \in Nat

VARIABLES
  lang,         \* role -> the language its tab shows
  savedLang,    \* role -> what localStorage keeps
  settings,     \* the session's displayLang and defaultParticipantLang
  seen,         \* displayLang of the display's snapshot
  langOverride, \* the display's own choice
  defaults,     \* defaults in the answers to the join page's previews, on their way
  chosen        \* history: the language the user of the phone, or of the desk, has switched to

languageVars == <<lang, savedLang, settings, seen, langOverride, defaults, chosen>>

LangRoles == {"participant", "host", "display"}

--------------------------------------------------------------------------------
\* The language shown already is not saved again.
SetLang(role, l) ==
  /\ lang' = [lang EXCEPT ![role] = l]
  /\ savedLang' = IF l = lang[role] THEN savedLang ELSE [savedLang EXCEPT ![role] = l]

loadLang(role, fallback) == IF savedLang[role] = NoLang THEN fallback ELSE savedLang[role]

\* The buttons of the join page, and the toggles of the play page and the desk.
Choose(role, l) ==
  /\ role # "display"
  /\ SetLang(role, l)
  /\ chosen' = IF l = lang[role] THEN chosen ELSE [chosen EXCEPT ![role] = l]
  /\ UNCHANGED <<settings, seen, langOverride, defaults>>

\* A tab is loaded; the display then follows its snapshot, English until it has one.
Load(role) ==
  /\ IF role = "display"
       THEN /\ lang' = [lang EXCEPT ![role] = English]
            /\ savedLang' = IF loadLang(role, English) = English THEN savedLang
                            ELSE [savedLang EXCEPT ![role] = English]
            /\ seen' = English /\ langOverride' = NoLang
       ELSE /\ lang' = [lang EXCEPT ![role] = loadLang(role, English)]
            /\ UNCHANGED <<savedLang, seen, langOverride>>
  /\ defaults' = IF role = "participant" THEN {} ELSE defaults
  /\ UNCHANGED <<settings, chosen>>

\* A preview reads the session; its answer reaches the join page later.
AskDefault ==
  /\ Cardinality(defaults) < MaxPreviews
  /\ defaults' = defaults \cup {settings.participants}
  /\ UNCHANGED <<lang, savedLang, settings, seen, langOverride, chosen>>

\* Mutant: the host's default is for every phone.
ApplyToAll(l) == SetLang("participant", l)

\* "A phone with no saved choice starts in the host's default language."
ApplyDefaultLang(l) ==
  IF savedLang["participant"] = NoLang THEN SetLang("participant", l)
  ELSE UNCHANGED <<lang, savedLang>>

TakeDefault(l) ==
  /\ defaults' = defaults \ {l}
  /\ ApplyDefaultLang(l)
  /\ UNCHANGED <<settings, seen, langOverride, chosen>>

\* The host's settings; the server publishes them, and the display takes its own.
SetLanguages(which, l) ==
  /\ settings' = [settings EXCEPT ![which] = l]
  /\ UNCHANGED <<lang, savedLang, seen, langOverride, defaults, chosen>>

\* The display's language: its own choice, or else the host's.
Follow(own, hosts) == SetLang("display", IF own = NoLang THEN hosts ELSE own)

DisplaySnapshot ==
  /\ seen' = settings.display /\ Follow(langOverride, seen')
  /\ UNCHANGED <<settings, langOverride, defaults, chosen>>

SetupLang(l) ==
  /\ langOverride' = l /\ Follow(l, seen)
  /\ UNCHANGED <<settings, seen, defaults, chosen>>

LanguagesInit ==
  /\ lang = [role \in LangRoles |-> English]
  /\ savedLang = [role \in LangRoles |-> NoLang]
  /\ settings = [display |-> English, participants |-> English]
  /\ seen = English /\ langOverride = NoLang /\ defaults = {}
  /\ chosen = [role \in LangRoles |-> NoLang]

LanguagesNext ==
  \/ \E role \in LangRoles : Load(role) \/ \E l \in Langs : Choose(role, l)
  \/ AskDefault \/ \E l \in defaults : TakeDefault(l)
  \/ \E l \in Langs : SetLanguages("display", l) \/ SetLanguages("participants", l)
  \/ DisplaySnapshot \/ \E l \in Langs \cup {NoLang} : SetupLang(l)

--------------------------------------------------------------------------------
\* A language the user of a phone or of the desk has switched to stays: no default of the
\* host's, whenever its preview is answered, no setting of the display and no reload
\* changes it (join.component.ts:190, locale.service.ts:1).
ChoiceKept ==
  \A role \in LangRoles : chosen[role] # NoLang => lang[role] = chosen[role]
================================================================================
