--------------------------- MODULE FalconDeclared ---------------------------
(***************************************************************************)
(* What the .fal files declare: the routines of each struct, the types     *)
(* their parameters may have (over all overloads) and the type of the      *)
(* object they give.  A plain result (a number, a string, an Error) is no  *)
(* object and a routine written in the language itself is no row.  The     *)
(* routines that are of no struct are under the name of their library.     *)
(***************************************************************************)
EXTENDS BindingTypes

Int == The("int")
Float == The("float")
String == The("string")
Bool == The("bool")
Number == AnyOf({"float", "int"})

Routines(names, params, result) ==
  {[routine |-> n, params |-> params, result |-> result] : n \in names}

RoutinesOf(c, routines) ==
  {[class |-> c, routine |-> r.routine, params |-> r.params, result |-> r.result] :
     r \in routines}

\* The groups of routines that many structs declare alike.
JSON(c) == Routines({"FromJSON"}, [json |-> String], One(c))
           \cup Routines({"ToJSON"}, NoParams, Nothing)
Equality(c) == Routines({"Equal", "NotEqual"}, [other |-> The(c)], Nothing)
ArrayArithmetic(c) ==
  Routines({"New"}, [arr |-> The("FArray")], One(c))
  \cup Routines({"Negate", "Abs"}, NoParams, One(c))
  \cup Routines({"Times", "Divides"}, [factor |-> Number], One(c))
  \cup Routines({"Power"}, [exponent |-> Float], One(c))
ArrayShape(c) ==
  Routines({"Reshape"}, [shape |-> Arrays("int")], One(c))
  \cup Routines({"Flip"}, [axis |-> Int], One(c))
  \cup Routines({"Gradient"}, [axis |-> Int], One("FArray"))
  \cup Routines({"FullGradient"}, NoParams, Array("FArray"))
  \cup Routines({"Min", "Max"}, NoParams, Nothing)
ArrayLabel == Routines({"Label"}, NoParams, One("AcquisitionContext"))
              \cup Routines({"Connection"}, NoParams, One("Connection"))
              \cup Routines({"Units"}, NoParams, One("SymbolUnit"))
ArraySweep ==
  Routines({"GetStart", "GetEnd", "GetDistance", "GetMean", "GetSTD",
            "IsDecreasing", "IsIncreasing", "Reverse"}, NoParams, Nothing)
  \cup Routines({"GetClosestIndex"}, [value |-> Float], Nothing)
  \cup Routines({"EvenDivisions"}, [divisions |-> Int], Array("FArray"))

-----------------------------------------------------------------------------
(* The autotuner's names, contexts and interpretations.                    *)

DeclaredAcquisitionContext == RoutinesOf("AcquisitionContext",
   Routines({"New"}, [conn |-> The("Connection"), unit |-> The("SymbolUnit")],
       One("AcquisitionContext"))
  \cup Routines({"NewFromContext"}, [context |-> The("MeasurementContext"),
       unit |-> The("SymbolUnit")], One("AcquisitionContext"))
  \cup Routines({"Connection"}, NoParams, One("Connection"))
  \cup Routines({"Units"}, NoParams, One("SymbolUnit"))
  \cup Routines({"Division"}, [other |-> AnyOf({"AcquisitionContext", "SymbolUnit"})],
       One("AcquisitionContext"))
  \cup Routines({"MatchConnection"}, [other |-> The("Connection")], Nothing)
  \cup JSON("AcquisitionContext") \cup Equality("AcquisitionContext"))

DeclaredMeasurementContext == RoutinesOf("MeasurementContext",
   Routines({"New"}, [conn |-> The("Connection")], One("MeasurementContext"))
  \cup Routines({"Connection"}, NoParams, One("Connection")) \cup JSON("MeasurementContext")
  \cup Equality("MeasurementContext"))

DeclaredInterpretationContainer == RoutinesOf("InterpretationContainer",
   Routines({"New"}, [map |-> The("Map<InterpretationContext, T>")],
       One("InterpretationContainer"))
  \cup Routines({"Unit"}, NoParams, One("SymbolUnit"))
  \cup Routines({"SelectByConnection", "SelectByConnections", "SelectByIndependentConnection",
       "SelectByDependentConnection"}, [conn |-> The("Connection")],
       Array("InterpretationContext"))
  \cup Routines({"SelectContexts"}, [independentConnections |-> Arrays("Connection"),
       dependentConnections |-> Arrays("Connection")], Array("InterpretationContext"))
  \cup JSON("InterpretationContainer") \cup Equality("InterpretationContainer"))

DeclaredInterpretationContext == RoutinesOf("InterpretationContext",
   Routines({"New"}, [independantVariables |-> AxesOf("MeasurementContext"),
       dependantVariables |-> Arrays("MeasurementContext"), unit |-> The("SymbolUnit")],
       One("InterpretationContext"))
  \cup Routines({"IndependentVariables"}, NoParams, Axes("MeasurementContext"))
  \cup Routines({"DependentVariables"}, NoParams, Array("MeasurementContext"))
  \cup Routines({"Unit"}, NoParams, One("SymbolUnit"))
  \cup Routines({"Dimension"}, NoParams, Nothing)
  \cup Routines({"AddDependentVariable"}, [context |-> The("MeasurementContext")], Nothing)
  \cup Routines({"ReplaceDependantVariable"}, [index |-> Int,
       context |-> The("MeasurementContext")], Nothing)
  \cup Routines({"GetIndependentVariable"}, [index |-> Int], One("MeasurementContext"))
  \cup Routines({"WithUnit"}, [unit |-> The("SymbolUnit")], One("InterpretationContext"))
  \cup JSON("InterpretationContext") \cup Equality("InterpretationContext"))

DeclaredChannel == RoutinesOf("Channel",
   Routines({"New"}, [name |-> String], One("Channel"))
  \cup Routines({"Name"}, NoParams, Nothing) \cup JSON("Channel") \cup Equality("Channel"))

DeclaredChannels == RoutinesOf("Channels",
   Routines({"New"}, [array |-> Arrays("Channel")], One("Channels"))
  \cup Routines({"Size", "IsEmpty", "Clear"}, NoParams, Nothing)
  \cup Routines({"GetIndex"}, [index |-> Int], One("Channel"))
  \cup Routines({"SetIndex", "Insert"}, [index |-> Int, value |-> The("Channel")], Nothing)
  \cup Routines({"PushBack", "Contains", "IndexOf"}, [value |-> The("Channel")], Nothing)
  \cup Routines({"PopBack"}, NoParams, One("Channel"))
  \cup Routines({"Erase"}, [index |-> Int], Nothing) \cup JSON("Channels")
  \cup Equality("Channels"))

DeclaredGname == RoutinesOf("Gname",
   Routines({"New"}, [name |-> AnyOf({"int", "string"})], One("Gname"))
  \cup Routines({"gname"}, NoParams, Nothing) \cup JSON("Gname") \cup Equality("Gname"))

-----------------------------------------------------------------------------
(* Messages and voltage states.                                            *)

DeclaredMeasurementRequest == RoutinesOf("MeasurementRequest",
   Routines({"New"}, [message |-> String, waveforms |-> Arrays("Waveform"),
       getters |-> The("Ports"), meterTransforms |-> The("Map<InstrumentPort, PortTransform>"),
       timeDomain |-> The("LabelledDomain")], One("MeasurementRequest"))
  \cup Routines({"Getters"}, NoParams, One("Ports"))
  \cup Routines({"Waveforms"}, NoParams, Array("Waveform"))
  \cup Routines({"MeterTransforms"}, NoParams, One("Map<InstrumentPort, PortTransform>"))
  \cup Routines({"TimeDomain"}, NoParams, One("LabelledDomain"))
  \cup Routines({"Message"}, NoParams, Nothing) \cup JSON("MeasurementRequest")
  \cup Equality("MeasurementRequest"))

DeclaredMeasurementResponse == RoutinesOf("MeasurementResponse",
   Routines({"New"}, [arrays |-> Arrays("LabelledMeasuredArray")], One("MeasurementResponse"))
  \cup Routines({"Arrays"}, NoParams, Array("LabelledMeasuredArray"))
  \cup Routines({"Message"}, NoParams, Nothing) \cup JSON("MeasurementResponse")
  \cup Equality("MeasurementResponse"))

DeclaredSettingRequest == RoutinesOf("SettingRequest",
   Routines({"New"}, [message |-> String, getters |-> The("Ports"),
       setters |-> The("Map<InstrumentPort, Quantity>")], One("SettingRequest"))
  \cup Routines({"Getters"}, NoParams, One("Ports"))
  \cup Routines({"Setters"}, NoParams, One("Map<InstrumentPort, Quantity>"))
  \cup Routines({"Message"}, NoParams, Nothing) \cup JSON("SettingRequest")
  \cup Equality("SettingRequest"))

DeclaredSettingResponse == RoutinesOf("SettingResponse",
   Routines({"New"}, [message |-> String, getters |-> The("Map<InstrumentPort, Quantity>")],
       One("SettingResponse"))
  \cup Routines({"Getters"}, NoParams, One("Map<InstrumentPort, Quantity>"))
  \cup Routines({"Message"}, NoParams, Nothing) \cup JSON("SettingResponse")
  \cup Equality("SettingResponse"))

DeclaredStandardRequest == RoutinesOf("StandardRequest",
   Routines({"New"}, [message |-> String], One("StandardRequest"))
  \cup Routines({"Message"}, NoParams, Nothing) \cup JSON("StandardRequest")
  \cup Equality("StandardRequest"))

DeclaredStandardResponse == RoutinesOf("StandardResponse",
   Routines({"New"}, [message |-> String], One("StandardResponse"))
  \cup Routines({"Message"}, NoParams, Nothing) \cup JSON("StandardResponse")
  \cup Equality("StandardResponse"))

DeclaredVoltageStatesResponse == RoutinesOf("VoltageStatesResponse",
   Routines({"New"}, [message |-> String, states |-> The("DeviceVoltageStates")],
       One("VoltageStatesResponse"))
  \cup Routines({"States"}, NoParams, One("DeviceVoltageStates"))
  \cup Routines({"Message"}, NoParams, Nothing) \cup JSON("VoltageStatesResponse")
  \cup Equality("VoltageStatesResponse"))

DeclaredDeviceVoltageState == RoutinesOf("DeviceVoltageState",
   Routines({"New"}, [conn |-> The("Connection"), voltage |-> Float,
       unit |-> The("SymbolUnit")], One("DeviceVoltageState"))
  \cup Routines({"Connection"}, NoParams, One("Connection"))
  \cup Routines({"Voltage"}, NoParams, Nothing)
  \cup Routines({"Unit"}, NoParams, One("SymbolUnit"))
  \cup Routines({"ConvertToUnit"}, [new_unit |-> The("SymbolUnit")], One("DeviceVoltageState"))
  \cup Routines({"Times"}, [factor |-> Number], One("DeviceVoltageState"))
  \cup Routines({"Divides"}, [divisor |-> Number], One("DeviceVoltageState"))
  \cup Routines({"Power"}, [exponent |-> Float], One("DeviceVoltageState"))
  \cup Routines({"Add", "Subtract"}, [other |-> The("DeviceVoltageState")],
       One("DeviceVoltageState"))
  \cup Routines({"Negate", "Abs"}, NoParams, One("DeviceVoltageState"))
  \cup JSON("DeviceVoltageState") \cup Equality("DeviceVoltageState"))

DeclaredDeviceVoltageStates == RoutinesOf("DeviceVoltageStates",
   Routines({"New"}, [dstates |-> Arrays("DeviceVoltageState")], One("DeviceVoltageStates"))
  \cup Routines({"AddState", "Contains"}, [dstate |-> The("DeviceVoltageState")], Nothing)
  \cup Routines({"FindState"}, [conn |-> The("Connection")], One("DeviceVoltageState"))
  \cup Routines({"ToPoint"}, NoParams, One("Point"))
  \cup Routines({"Connection"}, NoParams, One("Connection"))
  \cup Routines({"Insert"}, [dstate |-> The("DeviceVoltageState"), location |-> Int], Nothing)
  \cup Routines({"Size", "Empty", "Voltage", "Clear"}, NoParams, Nothing)
  \cup JSON("DeviceVoltageStates") \cup Equality("DeviceVoltageStates"))

-----------------------------------------------------------------------------
(* Arrays of floats.                                                       *)

DeclaredFArray == RoutinesOf("FArray",
   Routines({"Times"}, [factor |-> Number], One("FArray"))
  \cup Routines({"Divides"}, [divisor |-> Number], One("FArray"))
  \cup Routines({"Power"}, [exponent |-> Float], One("FArray"))
  \cup Routines({"Add", "Subtract"}, [other |-> AnyOf({"FArray", "float", "int"})], One("FArray"))
  \cup Routines({"Negate", "Abs"}, NoParams, One("FArray")) \cup JSON("FArray")
  \cup Equality("FArray"))

DeclaredFArrayTestHelpers == RoutinesOf("FArrayTestHelpers",
   Routines({"NewFromFloats"}, [values |-> Arrays("float")], One("FArray")))

-----------------------------------------------------------------------------
(* Ports, transforms and waveforms.                                        *)

DeclaredAccess == RoutinesOf("Access",
   Routines({"NewReadAccess", "NewWriteAccess", "NewReadWriteAccess"}, NoParams, One("Access"))
  \cup Routines({"IsReadAccess", "IsWriteAccess", "IsReadWriteAccess"}, NoParams, Nothing))

DeclaredScope == RoutinesOf("Scope",
   Routines({"NewLocalScope", "NewGlobalScope"}, NoParams, One("Scope"))
  \cup Routines({"IsLocalScope", "IsGlobalScope"}, NoParams, Nothing))

DeclaredInstrument == RoutinesOf("Instrument",
   Routines({"NewDcVoltageSource", "NewAmnmeter", "NewClock", "NewDiscrete"}, NoParams,
       One("Instrument"))
  \cup Routines({"IsDcVoltageSource", "IsAmnmeter", "IsClock", "IsDiscrete"}, NoParams, Nothing))

DeclaredCharacteristic == RoutinesOf("Characteristic",
   Routines({"NewNone", "NewSampleRate", "NewMaxSampleRate", "NewMinSampleRate",
       "NewNumberOfSamples", "NewMaxNumberOfSamples", "NewMinNumberOfSamples",
       "NewSourceVoltage", "NewMaxSourceVoltage", "NewMinSourceVoltage", "NewVoltageRampSlope",
       "NewMaxVoltageRampSlope", "NewMinVoltageRampSlope"}, NoParams, One("Characteristic"))
  \cup Routines({"IsNone", "IsSampleRate", "IsMaxSampleRate", "IsMinSampleRate",
       "IsNumberOfSamples", "IsMaxNumberOfSamples", "IsMinNumberOfSamples", "IsSourceVoltage",
       "IsMaxSourceVoltage", "IsMinSourceVoltage", "IsVoltageRampSlope",
       "IsMaxVoltageRampSlope", "IsMinVoltageRampSlope"}, NoParams, Nothing))

DeclaredInstrumentPort == RoutinesOf("InstrumentPort",
   Routines({"NewKnob", "NewMeter"}, [default_name |-> String, conn |-> The("Connection"),
       units |-> The("SymbolUnit"), description |-> String, instrument_name |-> String,
       inst |-> The("Instrument")], One("InstrumentPort"))
  \cup Routines({"NewSetting"}, [default_name |-> String, conn |-> The("Connection"),
       units |-> The("SymbolUnit"), description |-> String, instrument_name |-> String,
       inst |-> The("Instrument"), scope |-> The("Scope"), access |-> The("Access"),
       char |-> The("Characteristic")], One("InstrumentPort"))
  \cup Routines({"NewTimer", "NewExecutionClock"}, NoParams, One("InstrumentPort"))
  \cup Routines({"DefaultName", "InstrumentName", "Description", "InstrumentFacingName",
       "IsKnob", "IsMeter", "IsSetting"}, NoParams, Nothing)
  \cup Routines({"PsuedoName"}, NoParams, One("Connection"))
  \cup Routines({"InstrumentType"}, NoParams, One("Instrument"))
  \cup Routines({"Scope"}, NoParams, One("Scope"))
  \cup Routines({"Access"}, NoParams, One("Access"))
  \cup Routines({"Characteristic"}, NoParams, One("Characteristic"))
  \cup Routines({"Units"}, NoParams, One("SymbolUnit")) \cup JSON("InstrumentPort")
  \cup Equality("InstrumentPort"))

DeclaredPortQuery == RoutinesOf("PortQuery",
   Routines({"New"}, NoParams, One("PortQuery"))
  \cup Routines({"SetDefaultName"}, [defaultName |-> String], Nothing)
  \cup Routines({"SetConnection"}, [conn |-> The("Connection")], Nothing)
  \cup Routines({"SetUnit"}, [unit |-> The("SymbolUnit")], Nothing)
  \cup Routines({"SetInstrumentName"}, [instrumentName |-> String], Nothing)
  \cup Routines({"SetAccess"}, [access |-> The("Access")], Nothing)
  \cup Routines({"SetScope"}, [scope |-> The("Scope")], Nothing)
  \cup Routines({"SetInstrument"}, [inst |-> The("Instrument")], Nothing)
  \cup Routines({"SetCharacteristic"}, [char |-> The("Characteristic")], Nothing))

DeclaredPorts == RoutinesOf("Ports",
   Routines({"New"}, [ports |-> Arrays("InstrumentPort")], One("Ports"))
  \cup Routines({"Ports"}, NoParams, Array("InstrumentPort"))
  \cup Routines({"GetDefaultNames"}, NoParams, Array("string"))
  \cup Routines({"GetPsuedoNames"}, NoParams, Array("Connection"))
  \cup Routines({"IsKnobs", "IsMeters", "IsSettings", "Size", "IsEmpty", "Clear"}, NoParams,
       Nothing)
  \cup Routines({"GetIndex"}, [index |-> Int], One("InstrumentPort"))
  \cup Routines({"PushBack", "Contains", "Index"}, [value |-> The("InstrumentPort")], Nothing)
  \cup Routines({"Insert"}, [index |-> Int, value |-> The("InstrumentPort")], Nothing)
  \cup Routines({"Erase"}, [index |-> Int], Nothing)
  \cup Routines({"IsQueryMatch"}, [query |-> The("PortQuery")], Nothing)
  \cup Routines({"FindQueryMatch"}, [query |-> The("PortQuery")], One("InstrumentPort"))
  \cup JSON("Ports") \cup Equality("Ports"))

DeclaredPortTransform == RoutinesOf("PortTransform",
   Routines({"New"}, [port |-> The("InstrumentPort"), func |-> The("AnalyticFunction")],
       One("PortTransform"))
  \cup Routines({"ConstantTransform"}, [port |-> The("InstrumentPort"), value |-> Float],
       One("PortTransform"))
  \cup Routines({"IdentityTranform"}, [port |-> The("InstrumentPort")], One("PortTransform"))
  \cup Routines({"Port"}, NoParams, One("InstrumentPort"))
  \cup Routines({"Labels"}, NoParams, Array("string")) \cup JSON("PortTransform")
  \cup Equality("PortTransform"))

DeclaredPortTransforms == RoutinesOf("PortTransforms",
   Routines({"New"}, [transforms |-> Arrays("PortTransform")], One("PortTransforms"))
  \cup Routines({"Size", "IsEmpty", "Clear"}, NoParams, Nothing)
  \cup Routines({"GetIndex"}, [index |-> Int], One("PortTransform"))
  \cup Routines({"SetIndex", "Insert"}, [index |-> Int, value |-> The("PortTransform")],
       Nothing)
  \cup Routines({"PushBack", "Contains", "IndexOf"}, [value |-> The("PortTransform")], Nothing)
  \cup Routines({"Erase"}, [index |-> Int], Nothing) \cup JSON("PortTransforms")
  \cup Equality("PortTransforms"))

DeclaredWaveform == RoutinesOf("Waveform",
   Routines({"New"}, [space |-> The("DiscreteSpace"), transforms |-> Arrays("PortTransform")],
       One("Waveform"))
  \cup Routines({"NewCartesianWaveform", "NewCartesianWaveform2D"},
       [divisions |-> AxesOf("int"), axes |-> AxesOf("CoupledLabelledDomain"),
       increasing |-> AxesOf("Map<string, bool>"), transforms |-> Arrays("PortTransform"),
       domain |-> The("Domain")], One("Waveform"))
  \cup Routines({"NewCartesianIdentityWaveform", "NewCartesianIdentityWaveform2D"},
       [divisions |-> AxesOf("int"), axes |-> AxesOf("CoupledLabelledDomain"),
       increasing |-> AxesOf("Map<string, bool>"), domain |-> The("Domain")], One("Waveform"))
  \cup Routines({"NewCartesianWaveform1D"}, [division |-> Int,
       sharedDomain |-> The("CoupledLabelledDomain"), increasing |-> The("Map<string, bool>"),
       transforms |-> Arrays("PortTransform"), domain |-> The("Domain")], One("Waveform"))
  \cup Routines({"NewCartesianIdentityWaveform1D"}, [division |-> Int,
       sharedDomain |-> The("CoupledLabelledDomain"), increasing |-> The("Map<string, bool>"),
       domain |-> The("Domain")], One("Waveform"))
  \cup Routines({"Space"}, NoParams, One("DiscreteSpace"))
  \cup Routines({"Size", "IsEmpty", "Clear"}, NoParams, Nothing)
  \cup Routines({"GetIndex"}, [index |-> Int], One("PortTransform"))
  \cup Routines({"SetIndex", "Insert"}, [index |-> Int, value |-> The("PortTransform")],
       Nothing)
  \cup Routines({"PushBack", "Contains", "IndexOf"}, [value |-> The("PortTransform")], Nothing)
  \cup Routines({"PopBack"}, NoParams, One("PortTransform"))
  \cup Routines({"Erase"}, [index |-> Int], Nothing) \cup JSON("Waveform")
  \cup Equality("Waveform"))

-----------------------------------------------------------------------------
(* Functions and the labelled, control and measured arrays.                *)

DeclaredAnalyticFunction == RoutinesOf("AnalyticFunction",
   Routines({"New"}, [labels |-> Arrays("string"), expression |-> String],
       One("AnalyticFunction"))
  \cup Routines({"Identity"}, NoParams, One("AnalyticFunction"))
  \cup Routines({"Constant"}, [value |-> Float], One("AnalyticFunction"))
  \cup Routines({"Labels"}, NoParams, Array("string")) \cup JSON("AnalyticFunction")
  \cup Equality("AnalyticFunction"))

DeclaredControlArray == RoutinesOf("ControlArray",
   Routines({"Add", "Minus"}, [other |-> AnyOf({"ControlArray", "FArray", "float", "int"})],
       One("ControlArray"))
  \cup Routines({"PrincipleDimension"}, NoParams, Nothing)
  \cup Routines({"Alignment"}, NoParams, One("IncreasingAlignment")) \cup JSON("ControlArray")
  \cup Equality("ControlArray") \cup ArrayArithmetic("ControlArray")
  \cup ArrayShape("ControlArray"))

DeclaredControlArray1D == RoutinesOf("ControlArray1D",
   Routines({"Add"}, [other |-> AnyOf({"ControlArray", "FArray", "float", "int"})],
       One("ControlArray1D"))
  \cup Routines({"Minus"}, [other |-> AnyOf({"ControlArray1D", "FArray", "float", "int"})],
       One("ControlArray1D"))
  \cup Routines({"PrincipleDimension"}, NoParams, Nothing)
  \cup Routines({"Alignment"}, NoParams, One("IncreasingAlignment")) \cup JSON("ControlArray1D")
  \cup Equality("ControlArray1D") \cup ArrayArithmetic("ControlArray1D")
  \cup ArrayShape("ControlArray1D") \cup ArraySweep)

DeclaredIncreasingAlignment == RoutinesOf("IncreasingAlignment",
   Routines({"New"}, [alignment |-> Bool], One("IncreasingAlignment"))
  \cup Routines({"Alignment"}, NoParams, Nothing) \cup JSON("IncreasingAlignment")
  \cup Equality("IncreasingAlignment"))

DeclaredLabelledControlArray == RoutinesOf("LabelledControlArray",
   Routines({"Add"}, [other |-> AnyOf({"ControlArray", "FArray", "float", "int"})],
       One("LabelledControlArray"))
  \cup Routines({"Minus"}, [other |-> AnyOf({"FArray", "LabelledControlArray", "float", "int"})],
       One("LabelledControlArray"))
  \cup Routines({"PrincipleDimension"}, NoParams, Nothing)
  \cup Routines({"Alignment"}, NoParams, One("IncreasingAlignment"))
  \cup JSON("LabelledControlArray") \cup Equality("LabelledControlArray")
  \cup ArrayArithmetic("LabelledControlArray") \cup ArrayShape("LabelledControlArray")
  \cup ArrayLabel)

DeclaredLabelledControlArray1D == RoutinesOf("LabelledControlArray1D",
   Routines({"Add"}, [other |-> AnyOf({"ControlArray", "FArray", "float", "int"})],
       One("LabelledControlArray1D"))
  \cup Routines({"Minus"}, [other |-> AnyOf({"FArray", "LabelledControlArray1D", "float",
       "int"})], One("LabelledControlArray1D"))
  \cup Routines({"PrincipleDimension"}, NoParams, Nothing)
  \cup Routines({"Alignment"}, NoParams, One("IncreasingAlignment"))
  \cup JSON("LabelledControlArray1D") \cup Equality("LabelledControlArray1D")
  \cup ArrayArithmetic("LabelledControlArray1D") \cup ArrayShape("LabelledControlArray1D")
  \cup ArrayLabel \cup ArraySweep)

DeclaredLabelledMeasuredArray == RoutinesOf("LabelledMeasuredArray",
   Routines({"Add", "Minus"}, [other |-> AnyOf({"FArray", "MeasuredArray", "float", "int"})],
       One("LabelledMeasuredArray"))
  \cup Routines({"Equal", "NotEqual"}, [other |-> The("FArray")], Nothing)
  \cup Routines({"FromJSON"}, [json |-> String], One("FArray"))
  \cup Routines({"ToJSON"}, NoParams, Nothing) \cup ArrayArithmetic("LabelledMeasuredArray")
  \cup ArrayShape("LabelledMeasuredArray") \cup ArrayLabel)

DeclaredLabelledMeasuredArray1D == RoutinesOf("LabelledMeasuredArray1D",
   Routines({"Add", "Minus"}, [other |-> AnyOf({"FArray", "MeasuredArray", "float", "int"})],
       One("LabelledMeasuredArray1D"))
  \cup JSON("LabelledMeasuredArray1D") \cup Equality("LabelledMeasuredArray1D")
  \cup ArrayArithmetic("LabelledMeasuredArray1D") \cup ArrayShape("LabelledMeasuredArray1D")
  \cup ArrayLabel \cup ArraySweep)

DeclaredMeasuredArray == RoutinesOf("MeasuredArray",
   Routines({"Add", "Minus"}, [other |-> AnyOf({"FArray", "MeasuredArray", "float", "int"})],
       One("MeasuredArray"))
  \cup Routines({"Equal", "NotEqual"}, [other |-> The("FArray")], Nothing)
  \cup Routines({"FromJSON"}, [json |-> String], One("FArray"))
  \cup Routines({"ToJSON"}, NoParams, Nothing) \cup ArrayArithmetic("MeasuredArray")
  \cup ArrayShape("MeasuredArray"))

DeclaredMeasuredArray1D == RoutinesOf("MeasuredArray1D",
   Routines({"Add", "Minus"}, [other |-> AnyOf({"FArray", "MeasuredArray", "float", "int"})],
       One("MeasuredArray1D"))
  \cup JSON("MeasuredArray1D") \cup Equality("MeasuredArray1D")
  \cup ArrayArithmetic("MeasuredArray1D") \cup ArrayShape("MeasuredArray1D") \cup ArraySweep)

-----------------------------------------------------------------------------
(* Domains, spaces, points, quantities and vectors.                        *)

DeclaredDiscreteSpace == RoutinesOf("DiscreteSpace",
   Routines({"New"}, [space |-> The("UnitSpace"), axes |-> AxesOf("CoupledLabelledDomain"),
       increasing |-> AxesOf("Map<string, bool>")], One("DiscreteSpace"))
  \cup Routines({"CartesianDiscreteSpace"}, [divisions |-> AxesOf("int"),
       axes |-> AxesOf("CoupledLabelledDomain"), increasing |-> AxesOf("Map<string, bool>"),
       domain |-> The("Domain")], One("DiscreteSpace"))
  \cup Routines({"CartesianDiscreteSpace1D"}, [division |-> Int,
       sharedDomain |-> The("CoupledLabelledDomain"), increasing |-> The("Map<string, bool>"),
       domain |-> The("Domain")], One("DiscreteSpace"))
  \cup Routines({"Space"}, NoParams, One("UnitSpace"))
  \cup Routines({"Increasing"}, NoParams, Axes("Map<string, bool>"))
  \cup Routines({"Knobs"}, NoParams, One("Ports"))
  \cup Routines({"GetAxis"}, [port |-> The("InstrumentPort")], Nothing)
  \cup Routines({"GetDomain"}, [port |-> The("InstrumentPort")], One("Domain"))
  \cup Routines({"GetProjection"}, [projection |-> AxesOf("InstrumentPort")],
       Axes("LabelledControlArray"))
  \cup JSON("DiscreteSpace") \cup Equality("DiscreteSpace"))

DeclaredDiscretizer == RoutinesOf("Discretizer",
   Routines({"NewCartesianDiscretizer", "NewPolarDiscretizer"}, [delta |-> Float],
       One("Discretizer"))
  \cup Routines({"Delta", "IsCartesian", "IsPolar"}, NoParams, Nothing)
  \cup Routines({"SetDelta"}, [delta |-> Float], Nothing)
  \cup Routines({"Domain"}, NoParams, One("Domain")) \cup JSON("Discretizer")
  \cup Equality("Discretizer"))

DeclaredCoupledLabelledDomain == RoutinesOf("CoupledLabelledDomain",
   Routines({"New"}, [conns |-> Arrays("LabelledDomain")], One("CoupledLabelledDomain"))
  \cup Routines({"Size", "IsEmpty", "Clear"}, NoParams, Nothing)
  \cup Routines({"GetIndex"}, [index |-> Int], One("LabelledDomain"))
  \cup Routines({"PushBack", "Contains", "Index"}, [value |-> The("LabelledDomain")], Nothing)
  \cup Routines({"Insert"}, [index |-> Int, value |-> The("LabelledDomain")], Nothing)
  \cup Routines({"Domains"}, NoParams, Array("CoupledLabelledDomain"))
  \cup Routines({"Labels"}, NoParams, One("Ports"))
  \cup Routines({"GetDomain"}, [search |-> The("InstrumentPort")], One("LabelledDomain"))
  \cup Routines({"Erase"}, [index |-> Int], Nothing) \cup JSON("CoupledLabelledDomain")
  \cup Equality("CoupledLabelledDomain"))

DeclaredDomain == RoutinesOf("Domain",
   Routines({"New"}, [min |-> Float, max |-> Float, lesser_bound_contained |-> Bool,
       greater_bound_contained |-> Bool], One("Domain"))
  \cup Routines({"LesserBound", "GreaterBound", "LesserBoundContained", "GreaterBoundContained",
       "Range", "GetCenter", "IsEmpty"}, NoParams, Nothing)
  \cup Routines({"In"}, [value |-> Float], Nothing)
  \cup Routines({"Intersection", "Union"}, [other |-> The("Domain")], One("Domain"))
  \cup Routines({"ContainsDomain"}, [other |-> The("Domain")], Nothing)
  \cup Routines({"Shift", "Scaled"}, [offset |-> Float], One("Domain"))
  \cup Routines({"Transform"}, [other |-> The("Domain"), value |-> Float], Nothing)
  \cup JSON("Domain") \cup Equality("Domain"))

DeclaredLabelledDomain == RoutinesOf("LabelledDomain",
   Routines({"NewFromKnob"}, [defaultName |-> String, min |-> Float, max |-> Float,
       psuedoName |-> The("Connection"), lesserBoundContained |-> Bool,
       greaterBoundContained |-> Bool, units |-> The("SymbolUnit"), description |-> String],
       One("LabelledDomain"))
  \cup Routines({"FromPort"}, [max |-> Float, min |-> Float, port |-> The("InstrumentPort"),
       lesserboundContainer |-> Bool, greaterBoundContained |-> Bool], One("LabelledDomain"))
  \cup Routines({"FromPortAndDomain"}, [port |-> The("InstrumentPort"),
       domain |-> The("Domain")], One("LabelledDomain"))
  \cup Routines({"FromDomain"}, [domain |-> The("Domain"), defaultName |-> String,
       psuedoName |-> The("Connection"), units |-> The("SymbolUnit"), description |-> String],
       One("LabelledDomain"))
  \cup Routines({"Port"}, NoParams, One("InstrumentPort"))
  \cup Routines({"Domain"}, NoParams, One("Domain"))
  \cup Routines({"MatchingPort"}, [port |-> The("InstrumentPort")], Nothing)
  \cup Routines({"LesserBound", "GreaterBound", "LesserBoundContained", "GreaterBoundContained",
       "Range", "GetCenter", "IsEmpty"}, NoParams, Nothing)
  \cup Routines({"In"}, [value |-> Float], Nothing)
  \cup Routines({"Intersection", "Union"}, [other |-> The("LabelledDomain")],
       One("LabelledDomain"))
  \cup Routines({"ContainsDomain"}, [other |-> The("LabelledDomain")], Nothing)
  \cup Routines({"Shift", "Scaled"}, [offset |-> Float], One("LabelledDomain"))
  \cup Routines({"Transform"}, [other |-> The("LabelledDomain"), value |-> Float], Nothing)
  \cup JSON("LabelledDomain") \cup Equality("LabelledDomain"))

DeclaredPoint == RoutinesOf("Point",
   Routines({"NewFromRaw"}, [init |-> The("Map<Connection, float>"),
       unit |-> The("SymbolUnit")], One("Point"))
  \cup Routines({"NewFromQuantity"}, [init |-> The("Map<Connection, Quantity>")], One("Point"))
  \cup Routines({"InsertOrAssign", "Insert", "Set"}, [key |-> The("Connection"),
       value |-> The("Quantity")], Nothing)
  \cup Routines({"Unit"}, NoParams, One("SymbolUnit"))
  \cup Routines({"Coordinates"}, NoParams, One("Map<Connection, Quantity>"))
  \cup Routines({"Connections"}, NoParams, Array("Connection"))
  \cup Routines({"Times"}, [factor |-> Float], One("Point"))
  \cup Routines({"Divides"}, [divisor |-> Float], One("Point"))
  \cup Routines({"Add", "Subtract"}, [other |-> The("Point")], One("Point"))
  \cup Routines({"Negate"}, NoParams, One("Point"))
  \cup Routines({"SetUnit"}, [unit |-> The("SymbolUnit")], Nothing)
  \cup Routines({"Remove"}, [key |-> The("Connection")], Nothing)
  \cup Routines({"Clear"}, NoParams, Nothing) \cup JSON("Point") \cup Equality("Point"))

DeclaredQuantity == RoutinesOf("Quantity",
   Routines({"New"}, [value |-> Float, unit |-> The("SymbolUnit")], One("Quantity"))
  \cup Routines({"Value"}, NoParams, Nothing)
  \cup Routines({"Unit"}, NoParams, One("SymbolUnit"))
  \cup Routines({"ConvertToUnit"}, [new_unit |-> The("SymbolUnit")], One("Quantity"))
  \cup Routines({"Times"}, [factor |-> AnyOf({"Quantity", "float", "int"})], One("Quantity"))
  \cup Routines({"Divides"}, [divisor |-> AnyOf({"Quantity", "float", "int"})], One("Quantity"))
  \cup Routines({"Power"}, [exponent |-> Float], One("Quantity"))
  \cup Routines({"Add", "Subtract"}, [other |-> The("Quantity")], One("Quantity"))
  \cup Routines({"Negate", "Abs"}, NoParams, One("Quantity")) \cup JSON("Quantity")
  \cup Equality("Quantity"))

DeclaredUnitSpace == RoutinesOf("UnitSpace",
   Routines({"New"}, [axes |-> AxesOf("Discretizer"), domain |-> The("Domain")],
       One("UnitSpace"))
  \cup Routines({"RaySpace"}, [dr |-> Float, dtheta |-> Float, domain |-> The("Domain")],
       One("UnitSpace"))
  \cup Routines({"CartesianSpace", "Cartesian2DSpace"}, [deltas |-> AxesOf("float"),
       domain |-> The("Domain")], One("UnitSpace"))
  \cup Routines({"Cartesian1DSpace"}, [delta |-> Float, domain |-> The("Domain")],
       One("UnitSpace"))
  \cup Routines({"Axes"}, NoParams, Axes("Discretizer"))
  \cup Routines({"Domain"}, NoParams, One("Domain"))
  \cup Routines({"Space"}, NoParams, One("FArray"))
  \cup Routines({"Shape"}, NoParams, Array("int"))
  \cup Routines({"Dimension", "Compile"}, NoParams, Nothing)
  \cup Routines({"CreateArray"}, [axes |-> AxesOf("int")], Axes("ControlArray"))
  \cup JSON("UnitSpace") \cup Equality("UnitSpace"))

DeclaredVector == RoutinesOf("Vector",
   Routines({"NewFromStart"}, [begin |-> The("Point")], One("Vector"))
  \cup Routines({"New"}, [begin |-> The("Point"), end |-> The("Point")], One("Vector"))
  \cup Routines({"EndPoint", "StartPoint"}, NoParams, One("Point"))
  \cup Routines({"Connections"}, NoParams, Array("Connection"))
  \cup Routines({"Unit"}, NoParams, One("SymbolUnit"))
  \cup Routines({"PrincipleConnection"}, NoParams, One("Connection"))
  \cup Routines({"Magnitude"}, NoParams, Nothing)
  \cup Routines({"Times"}, [factor |-> Number], One("Vector"))
  \cup Routines({"Divides"}, [divisor |-> Number], One("Vector"))
  \cup Routines({"Add", "Subtract", "Project"}, [other |-> The("Vector")], One("Vector"))
  \cup Routines({"Negate", "TranslateToOrigin", "UnitVector", "Normalize"}, NoParams,
       One("Vector"))
  \cup Routines({"UpdateStartFromStates"}, [states |-> The("DeviceVoltageStates")],
       One("Vector"))
  \cup Routines({"Translate"}, [point |-> The("Point")], One("Vector"))
  \cup Routines({"Extend", "Shrink"}, [extension |-> Number], One("Vector"))
  \cup Routines({"UpdateUnit"}, [unit |-> The("SymbolUnit")], Nothing) \cup JSON("Vector")
  \cup Equality("Vector"))

-----------------------------------------------------------------------------
(* The device: configuration, connections, impedances and units.           *)

DeclaredAdjacency == RoutinesOf("Adjacency", JSON("Adjacency") \cup Equality("Adjacency"))

DeclaredVoltageConstraints == RoutinesOf("VoltageConstraints",
   Routines({"Matrix", "Limits"}, NoParams, One("FArray"))
  \cup Routines({"Adjacency"}, NoParams, One("Adjacency")) \cup JSON("VoltageConstraints")
  \cup Equality("VoltageConstraints"))

DeclaredGroup == RoutinesOf("Group",
   Routines({"Name"}, NoParams, One("Channel")) \cup Routines({"NumDots"}, NoParams, Nothing)
  \cup Routines({"ScreeningGates", "ReservoirGates", "PlungerGates", "BarrierGates", "Ohmics",
       "Order"}, NoParams, One("Connections"))
  \cup JSON("Group") \cup Equality("Group"))

DeclaredConfig == RoutinesOf("Config",
   Routines({"Load"}, [config_path |-> String], One("Config"))
  \cup Routines({"NumUniqueChannels"}, NoParams, Nothing)
  \cup Routines({"Channels"}, NoParams, One("Channels"))
  \cup Routines({"GetCurrentChannels"}, NoParams, Array("Channel"))
  \cup Routines({"GetChannelPlungerGates", "GetChannelBarrierGates", "GetChannelReservoirGates",
       "GetChannelScreeningGates", "GetChannelDotGates", "GetChannelGates", "GetChannelOhmics"},
       [ch |-> The("Channel")], Array("Connection"))
  \cup Routines({"GetAssociatedOhmic"}, [reservoir_gate |-> The("Connection")],
       One("Connection"))
  \cup Routines({"GetGname"}, [ch |-> The("Channel")], One("Gname"))
  \cup Routines({"GetGroupPlungerGates", "GetGroupBarrierGates", "GetGroupReservoirGates",
       "GetGroupScreeningGates", "GetGroupDotGates", "GetGroupGates"}, [gn |-> The("Gname")],
       One("Connections"))
  \cup Routines({"HasChannel", "GetDotNumber"}, [ch |-> The("Channel")], Nothing)
  \cup Routines({"HasGname"}, [gn |-> The("Gname")], Nothing)
  \cup Routines({"SelectGroup"}, [gn |-> The("Gname")], One("Group"))
  \cup Routines({"GetAllGnames"}, NoParams, Array("Gname"))
  \cup Routines({"OhmicInChargeSensor"}, [ohmic |-> The("Connection")], Nothing)
  \cup Routines({"GetImpedance"}, [conn |-> The("Connection")], One("Impedance"))
  \cup Routines({"VoltageConstraints"}, NoParams, One("VoltageConstraints"))
  \cup Routines({"WiringDC"}, NoParams, One("Impedances")) \cup JSON("Config")
  \cup Equality("Config"))

DeclaredLoader == RoutinesOf("Loader",
   Routines({"New"}, [config_path |-> String], One("Loader"))
  \cup Routines({"Config"}, NoParams, One("Config")))

DeclaredConnection == RoutinesOf("Connection",
   Routines({"NewPlungerGate", "NewBarrierGate", "NewReservoirGate", "NewScreeningGate",
       "NewOhmic"}, [name |-> String], One("Connection"))
  \cup Routines({"Name", "Type", "IsDotGate", "IsBarrierGate", "IsPlungerGate",
       "IsScreeningGate", "IsReservoirGate", "IsOhmic", "IsGate"}, NoParams, Nothing)
  \cup JSON("Connection") \cup Equality("Connection"))

DeclaredConnections == RoutinesOf("Connections",
   Routines({"New"}, [conns |-> Arrays("Connection")], One("Connections"))
  \cup Routines({"IsGates", "IsOhmics", "IsDotGates", "IsPlungerGates", "IsBarrierGates",
       "IsReservoirGates", "IsScreeningGates", "Size", "IsEmpty", "Clear"}, NoParams, Nothing)
  \cup Routines({"Intersection"}, [other |-> The("Connections")], One("Connections"))
  \cup Routines({"GetIndex"}, [index |-> Int], One("Connection"))
  \cup Routines({"PushBack", "Contains", "Index"}, [value |-> The("Connection")], Nothing)
  \cup Routines({"Insert"}, [index |-> Int, value |-> The("Connection")], Nothing)
  \cup Routines({"Items"}, NoParams, Array("Connection"))
  \cup Routines({"Erase"}, [index |-> Int], Nothing) \cup JSON("Connections")
  \cup Equality("Connections"))

DeclaredImpedance == RoutinesOf("Impedance",
   Routines({"New"}, [conn |-> The("Connection"), resistance |-> Float, capacitance |-> Float],
       One("Impedance"))
  \cup Routines({"GetConnection"}, NoParams, One("Connection"))
  \cup Routines({"Resistance", "Capacitance"}, NoParams, Nothing) \cup JSON("Impedance")
  \cup Equality("Impedance"))

DeclaredImpedances == RoutinesOf("Impedances",
   Routines({"New"}, [imps |-> Arrays("Impedance")], One("Impedances"))
  \cup Routines({"Size", "IsEmpty", "Clear"}, NoParams, Nothing)
  \cup Routines({"GetIndex"}, [index |-> Int], One("Impedance"))
  \cup Routines({"PushBack", "Contains", "Index"}, [value |-> The("Impedance")], Nothing)
  \cup Routines({"Insert"}, [index |-> Int, value |-> The("Impedance")], Nothing)
  \cup Routines({"Items"}, NoParams, Array("Impedance"))
  \cup Routines({"Erase"}, [index |-> Int], Nothing) \cup JSON("Impedances")
  \cup Equality("Impedances"))

DeclaredSymbolUnit == RoutinesOf("SymbolUnit",
   Routines({"Meter", "Kilogram", "Second", "Ampere", "Kelvin", "Mole", "Candela", "Hertz",
       "Newton", "Pascal", "Joule", "Watt", "Coulomb", "Volt", "Farad", "Ohm", "Siemens",
       "Weber", "Tesla", "Henry", "Minute", "Hour", "ElectronVolt", "Celsius", "Fahrenheit",
       "Dimensionless", "Percent", "Radian", "Kilometer", "Millimeter", "Millivolt", "Kilovolt",
       "Milliampere", "Microampere", "Nanoampere", "Picoampere", "Millisecond", "Microsecond",
       "Nanosecond", "Picosecond", "Milliohm", "Kiloohm", "Megaohm", "Millihertz", "Kilohertz",
       "Megahertz", "Gigahertz", "Meterspersecond", "MeterspersecondSquared", "Newtonmeter",
       "Newtonpermeter", "Voltspermeter", "Voltspersecond", "Amperespermeter", "Voltsperampere",
       "Wattspermeterkelvin"}, NoParams, One("SymbolUnit"))
  \cup Routines({"Name", "Symbol"}, NoParams, Nothing)
  \cup Routines({"IsEqual", "IsNotEqual"}, [other |-> The("SymbolUnit")], Nothing)
  \cup JSON("SymbolUnit"))

-----------------------------------------------------------------------------
(* The stored characteristics, the hub, the log, the strings and the tests. *)

DeclaredDeviceCharacteristic == RoutinesOf("DeviceCharacteristic",
   Routines({"New"}, NoParams, One("DeviceCharacteristic"))
  \cup Routines({"GetScope", "GetName", "GetHash", "GetTime", "GetState", "GetUnitName",
       "GetValue", "GetExtra", "GetUncertainty"}, NoParams, Nothing)
  \cup Routines({"GetBarrierGate", "GetPlungerGate", "GetReservoirGate", "GetScreeningGate"},
       NoParams, One("Connection"))
  \cup Routines({"SetScope"}, [scope |-> String], One("DeviceCharacteristic"))
  \cup Routines({"SetName"}, [name |-> String], One("DeviceCharacteristic"))
  \cup Routines({"SetHash"}, [hash |-> String], One("DeviceCharacteristic"))
  \cup Routines({"SetState"}, [state_val |-> String], One("DeviceCharacteristic"))
  \cup Routines({"SetUnitName"}, [unit_name |-> String], One("DeviceCharacteristic"))
  \cup Routines({"SetValue"}, [characteristic |-> String], One("DeviceCharacteristic"))
  \cup Routines({"SetExtra"}, [extra |-> String], One("DeviceCharacteristic"))
  \cup Routines({"SetBarrierGate", "SetPlungerGate", "SetReservoirGate", "SetScreeningGate"},
       [conn |-> The("Connection")], One("DeviceCharacteristic"))
  \cup Routines({"SetUncertainty"}, [uncertainty |-> Float], One("DeviceCharacteristic"))
  \cup Routines({"SetTime"}, [time |-> Int], One("DeviceCharacteristic")))

DeclaredDeviceCharacteristicList == RoutinesOf("DeviceCharacteristicList",
   Routines({"Size"}, NoParams, Nothing)
  \cup Routines({"Get"}, [index |-> Int], One("DeviceCharacteristic")))

DeclaredDeviceCharacteristicQuery == RoutinesOf("DeviceCharacteristicQuery",
   Routines({"New"}, NoParams, One("DeviceCharacteristicQuery"))
  \cup Routines({"SetScope"}, [scope |-> String], One("DeviceCharacteristicQuery"))
  \cup Routines({"SetName"}, [name |-> String], One("DeviceCharacteristicQuery"))
  \cup Routines({"SetState"}, [state_val |-> String], One("DeviceCharacteristicQuery"))
  \cup Routines({"SetHash"}, [hash |-> String], One("DeviceCharacteristicQuery"))
  \cup Routines({"SetUnitName"}, [unit_name |-> String], One("DeviceCharacteristicQuery"))
  \cup Routines({"SetExtra"}, [extra |-> String], One("DeviceCharacteristic"))
  \cup Routines({"SetBarrierGate", "SetPlungerGate", "SetReservoirGate", "SetScreeningGate"},
       [conn |-> The("Connection")], One("DeviceCharacteristic"))
  \cup Routines({"GetScope", "GetName", "GetHash", "GetState", "GetUnitName", "GetExtra"},
       NoParams, Nothing)
  \cup Routines({"GetBarrierGate", "GetPlungerGate", "GetReservoirGate", "GetScreeningGate"},
       NoParams, One("Connection")))

DeclaredDatabase == RoutinesOf("database",
   Routines({"GetByName"}, [name |-> String], One("DeviceCharacteristic"))
  \cup Routines({"GetAll"}, NoParams, One("DeviceCharacteristicList"))
  \cup Routines({"GetByHashRange"}, [hash_start |-> String, hash_end |-> String],
       One("DeviceCharacteristicList"))
  \cup Routines({"GetByQuery"}, [query |-> The("DeviceCharacteristicQuery")],
       One("DeviceCharacteristicList"))
  \cup Routines({"Count", "IsConnected", "InitializeSchema", "ClearAll"}, NoParams, Nothing)
  \cup Routines({"Insert"}, [dchar |-> The("DeviceCharacteristic")], Nothing)
  \cup Routines({"DeleteByName"}, [name |-> String], Nothing)
  \cup Routines({"DeleteByHash"}, [hash |-> String], Nothing)
  \cup Routines({"ExportToJson"}, [filename |-> String], Nothing)
  \cup Routines({"ImportFromJson"}, [filename |-> String, clear_existing |-> Bool], Nothing))

DeclaredHub == RoutinesOf("hub",
   Routines({"RequestDeviceState"}, [timeout_ms |-> Int], One("VoltageStatesResponse"))
  \cup Routines({"RequestMeasurement"}, [req |-> The("MeasurementRequest"), timeout_ms |-> Int],
       One("MeasurementResponse"))
  \cup Routines({"RequestSetting"}, [req |-> The("SettingRequest"), timeout_ms |-> Int],
       One("SettingResponse"))
  \cup Routines({"RequestConfig", "ReadConfig"}, [timeout_ms |-> Int], One("Config"))
  \cup Routines({"RequestPortPayload"}, [timeout_ms |-> Int], One("Ports"))
  \cup Routines({"CacheDeviceVoltages"}, [voltages |-> The("DeviceVoltageStates")], Nothing)
  \cup Routines({"ReadDeviceVoltages"}, [timeout_ms |-> Int], One("DeviceVoltageStates"))
  \cup Routines({"CacheConfig"}, [config |-> The("Config")], Nothing)
  \cup Routines({"GetOhmicsConnectedToVoltageSources"}, [timeout_ms |-> Int],
       One("Connections"))
  \cup Routines({"GetVoltageBounds"}, [search_domain |-> The("Ports"), timeout_ms |-> Int],
       One("CoupledLabelledDomain"))
  \cup Routines({"SafeVoltageChange"}, [proposed_voltages |-> The("Point"), timeout_ms |-> Int],
       Nothing)
  \cup Routines({"Ramp"}, [end_point |-> The("Point"), max_ramp_rate |-> Float,
       timeout_ms |-> Int], Nothing)
  \cup Routines({"HasDatabaseConnection"}, NoParams, Nothing))

DeclaredLog == RoutinesOf("log",
   Routines({"Info", "Debug", "Warn", "Err"}, [message |-> String], Nothing))

DeclaredStrings == RoutinesOf("strings",
   Routines({"Contains", "IndexOf"}, [s |-> String, sub |-> String], Nothing)
  \cup Routines({"StartsWith"}, [s |-> String, prefix |-> String], Nothing)
  \cup Routines({"EndsWith"}, [s |-> String, suffix |-> String], Nothing)
  \cup Routines({"Length", "IsEmpty", "ToUpper", "ToLower", "TrimSpace", "StripAnsi", "ToInt",
       "ToDouble", "ToBool"}, [s |-> String], Nothing)
  \cup Routines({"Replace", "ReplaceAll"}, [s |-> String, from |-> String, to |-> String],
       Nothing)
  \cup Routines({"Concat"}, [a |-> String, b |-> String], Nothing)
  \cup Routines({"Substring"}, [s |-> String, begin |-> Int, length |-> Int], Nothing)
  \cup Routines({"FromInt"}, [i |-> Int], Nothing)
  \cup Routines({"FromDouble"}, [f |-> Float], Nothing)
  \cup Routines({"FromBool"}, [b |-> Bool], Nothing)
  \cup Routines({"RegexTest"}, [pattern |-> String, text |-> String], Nothing)
  \cup Routines({"RegexReplace"}, [s |-> String, pattern |-> String, replacement |-> String],
       Nothing)
  \cup Routines({"Format"}, [fmt |-> String, args |-> Arrays("string")], Nothing))

DeclaredRegexMatch == RoutinesOf("RegexMatch",
   Routines({"New"}, [pattern |-> String, text |-> String], One("RegexMatch"))
  \cup Routines({"Matched", "Full", "GroupCount"}, NoParams, Nothing)
  \cup Routines({"Group"}, [n |-> Int], Nothing))

DeclaredTestContext == RoutinesOf("TestContext",
   Routines({"New"}, [name |-> String], One("TestContext"))
  \cup Routines({"Name", "Passed", "FailureCount"}, NoParams, Nothing)
  \cup Routines({"ExpectTrue", "ExpectFalse"}, [condition |-> Bool, msg |-> String], Nothing)
  \cup Routines({"ExpectIntEq", "ExpectIntNe"}, [expected |-> Int, actual |-> Int,
       msg |-> String], Nothing)
  \cup Routines({"ExpectIntLt", "ExpectIntGt"}, [a |-> Int, b |-> Int, msg |-> String], Nothing)
  \cup Routines({"ExpectFloatEq"}, [expected |-> Float, actual |-> Float, tol |-> Float,
       msg |-> String], Nothing)
  \cup Routines({"ExpectStrEq", "ExpectStrNe"}, [expected |-> String, actual |-> String,
       msg |-> String], Nothing)
  \cup Routines({"Fail", "Log"}, [msg |-> String], Nothing))

DeclaredTestRunner == RoutinesOf("TestRunner",
   Routines({"New"}, [suite_name |-> String], One("TestRunner"))
  \cup Routines({"Register"}, [test_name |-> String], Nothing)
  \cup Routines({"PrintHeader", "HasNext", "CurrentName", "PrintSummary", "PassedCount",
       "FailedCount"}, NoParams, Nothing)
  \cup Routines({"BeginCurrent"}, NoParams, One("TestContext"))
  \cup Routines({"EndCurrent"}, [ctx |-> The("TestContext")], Nothing))

-----------------------------------------------------------------------------
DeclaredRoutines ==
  DeclaredAcquisitionContext \cup DeclaredMeasurementContext
  \cup DeclaredInterpretationContainer \cup DeclaredInterpretationContext
  \cup DeclaredChannel \cup DeclaredChannels \cup DeclaredGname
  \cup DeclaredMeasurementRequest \cup DeclaredMeasurementResponse
  \cup DeclaredSettingRequest \cup DeclaredSettingResponse \cup DeclaredStandardRequest
  \cup DeclaredStandardResponse \cup DeclaredVoltageStatesResponse
  \cup DeclaredDeviceVoltageState \cup DeclaredDeviceVoltageStates \cup DeclaredFArray
  \cup DeclaredFArrayTestHelpers \cup DeclaredAccess \cup DeclaredScope
  \cup DeclaredInstrument \cup DeclaredCharacteristic \cup DeclaredInstrumentPort
  \cup DeclaredPortQuery \cup DeclaredPorts \cup DeclaredPortTransform
  \cup DeclaredPortTransforms \cup DeclaredWaveform \cup DeclaredAnalyticFunction
  \cup DeclaredControlArray \cup DeclaredControlArray1D \cup DeclaredIncreasingAlignment
  \cup DeclaredLabelledControlArray \cup DeclaredLabelledControlArray1D
  \cup DeclaredLabelledMeasuredArray \cup DeclaredLabelledMeasuredArray1D
  \cup DeclaredMeasuredArray \cup DeclaredMeasuredArray1D \cup DeclaredDiscreteSpace
  \cup DeclaredDiscretizer \cup DeclaredCoupledLabelledDomain \cup DeclaredDomain
  \cup DeclaredLabelledDomain \cup DeclaredPoint \cup DeclaredQuantity
  \cup DeclaredUnitSpace \cup DeclaredVector \cup DeclaredAdjacency
  \cup DeclaredVoltageConstraints \cup DeclaredGroup \cup DeclaredConfig
  \cup DeclaredLoader \cup DeclaredConnection \cup DeclaredConnections
  \cup DeclaredImpedance \cup DeclaredImpedances \cup DeclaredSymbolUnit
  \cup DeclaredDeviceCharacteristic \cup DeclaredDeviceCharacteristicList
  \cup DeclaredDeviceCharacteristicQuery \cup DeclaredDatabase \cup DeclaredHub
  \cup DeclaredLog \cup DeclaredStrings \cup DeclaredRegexMatch \cup DeclaredTestContext
  \cup DeclaredTestRunner
=============================================================================
