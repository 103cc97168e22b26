--------------------------------- MODULE Sbom ---------------------------------
(***************************************************************************)
(* provenance/sbom.py, _collect_components: the list of CycloneDX          *)
(* components, from the declared requirements and what is installed.  An   *)
(* entry of the list of requirements is a spelling of a package's name and *)
(* its declared version, or one that _NAME_RE does not match.  Packages    *)
(* are their names in lower case.  Package metadata is looked up without   *)
(* regard to case, so the installed version is one per package.            *)
(***************************************************************************)
EXTENDS Naturals, Sequences

CONSTANTS
  Lower    \* spelling of a name |-> name.lower()

ASSUME LowerAssumption == \A n \in DOMAIN Lower : Lower[n] \in DOMAIN Lower

Names == DOMAIN Lower
Packages == {Lower[n] : n \in Names}

(* "unknown" is the version of an entry without a constraint, "none" that   *)
(* of a package that is not installed.                                      *)
DeclaredVersions == {"1", "unknown"}
InstalledVersions == {"1", "2", "none"}

NotAName == [name |-> "", version |-> "unknown"]
Entries == [name : Names, version : DeclaredVersions] \cup {NotAName}

(* SbomComponent, for an entry that _parse_requirement understood. *)
ComponentOf(entry, installed) ==
  LET found == installed[Lower[entry.name]]
  IN  [name |-> entry.name,
       version |-> IF found = "none" THEN entry.version ELSE found,
       installed |-> found # "none"]

(* The key of `seen`, case-sensitive and as it is. *)
SpelledKey(name) == name
Key(name) == Lower[name]

(* One round of the loop: the first sighting stays, unless a later one is   *)
(* installed and the first was not.                                         *)
Saw(seen, component) ==
  LET same == {c \in seen : Key(c.name) = Key(component.name)}
  IN  IF same = {} THEN seen \cup {component}
      ELSE IF component.installed /\ \A c \in same : ~c.installed
      THEN (seen \ same) \cup {component}
      ELSE seen

Round(seen, entry, installed) ==
  IF entry = NotAName THEN seen ELSE Saw(seen, ComponentOf(entry, installed))

(* What `seen` holds after the first n entries. *)
SeenAfter(requires, installed) ==
  LET seen[n \in 0..Len(requires)] ==
        IF n = 0 THEN {} ELSE Round(seen[n - 1], requires[n], installed)
  IN  seen

CollectComponents(requires, installed) ==
  SeenAfter(requires, installed)[Len(requires)]

------------------------------------------------------------------------------
(* Reference definition: what an SBOM has to say, package by package.       *)
SightingsOf(package, requires) ==
  {i \in DOMAIN requires : requires[i] # NotAName /\ Lower[requires[i].name] = package}

DescribesDeclared(components, requires, installed) ==
  \A p \in Packages :
    LET sightings == SightingsOf(p, requires)
        of == {c \in components : Lower[c.name] = p}
    IN  IF sightings = {} THEN of = {}
        ELSE LET first == requires[CHOOSE i \in sightings : \A j \in sightings : i <= j]
             IN  of = {[name |-> first.name,
                        version |-> IF installed[p] = "none" THEN first.version
                                    ELSE installed[p],
                        installed |-> installed[p] # "none"]}

==============================================================================
