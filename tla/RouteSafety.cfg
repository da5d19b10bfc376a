SPECIFICATION Spec
CONSTANTS
    Procs = {p1}
    Readers = {q1}
    None = None
    Torn = Torn
    r1 = r1
    r2 = r2
    r3 = r3
    s1 = s1
    s2 = s2
    en = en
    ko = ko
    Routes <- ThreeRoutes
    Sources <- TwoSources
    SourceOf <- SharedSource
    Locales <- TwoLocales
    LocaleOf <- BoundLocale
SYMMETRY Alike
INVARIANTS PointersLeadToRecords
PROPERTIES IsRouteRegister UndisturbedReadSucceeds RouteChangesLast
