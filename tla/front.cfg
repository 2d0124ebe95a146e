SPECIFICATION CompilationSpec
CONSTANTS
  SourcePaths <- DiskFiles Modules <- DiskModules StdModules = {"s"} SearchDirs <- SearchPath StdRoot = "root"
  Directory <- DirectoryOf SingleIn <- Singles Disks <- SomeDisks CommandLines <- SomeCommandLines
  Texts <- SomeTexts
  Files <- SomeFiles AfterError = 2
  Sources <- SomeSources
  Structs <- SomeStructs MaxSize = 31 PointerSize = 4 ScalarAlign <- Aligns Tables <- SomeTables
  Declarations <- SomeDeclarations
  Limit = 3 Programs <- SomeTemplates
INVARIANTS
  DiscoveredOnce ImportsAreLoaded
  TokensCoverTheText LiteralsAreReadBack
  AcceptedIsBalanced ErrorsAreReported GroupedByPrecedence StatementsStartFree
  InterfacesAreClosed NamesAreDecided
  LayoutsAreDecided LayoutsFit
  GlobalsAreDecided
  AcceptsWhatIsSound
PROPERTIES VerdictsStay CompilationTerminates
CHECK_DEADLOCK FALSE
