SPECIFICATION Spec
CONSTANTS
    Procs = {p1, p2}
    Readers = {q1}
    None = None
    Torn = Torn
    r1 = r1
    r2 = r2
    r3 = r3
    s1 = s1
    s2 = s2
    en = en
    ko = ko
    Routes <- TwoRoutes
    Sources <- TwoSources
    SourceOf <- OwnSources
    Locales <- TwoLocales
    LocaleOf <- NoLocales
SYMMETRY Symmetry
INVARIANT ResumeNotRefused
